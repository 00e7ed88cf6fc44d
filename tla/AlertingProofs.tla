--------------------------- MODULE AlertingProofs ---------------------------
(***************************************************************************)
(* Who is alerted, when and at which hook, for every number of accounts,   *)
(* companies, hooks, requests and faults: the safety properties of         *)
(* Alerting, from one inductive invariant.                                 *)
(***************************************************************************)
EXTENDS Alerting, TLAPS

Phase == {"idle", "lookup", "read", "store", "deliver", "post"}
Entry == [at : Nat, rows : SUBSET Row]
Test  == [hook : Hook, ok : BOOLEAN]
Ended == [at : Nat, sent : BOOLEAN, gone : User \cup {None}]

Shape ==
  /\ now \in Nat
  /\ users \in [User -> Account \cup {None}]
  /\ watch \in [User \X Ticker -> Nat \cup {None}]
  /\ cooldown \in [Ticker \X BOOLEAN -> Nat]
  /\ cache \in [Ticker -> Entry \cup {None}]
  /\ phase \in Phase /\ rows \subseteq Row /\ served \subseteq User
  /\ alert \in Alert \cup {None}
  /\ (phase # "idle" => alert \in Alert) /\ (phase = "idle" => alert = None)
  /\ calledAt \in Nat \cup {None}
  /\ testing \in [User -> Test \cup {None}]
  /\ lastLive \in [Ticker -> Ended \cup {None}]
  /\ phase = "post" => posting \in rows
  /\ \A u \in User \ Guest : users[u] # None

\* The cooldown of live alerts is at least what the last one that was marked sent
\* set, and a live alert under way began after it.
Spaced ==
  /\ \A t \in Ticker : lastLive[t] # None =>
       /\ lastLive[t].at <= now
       /\ lastLive[t].sent =>
            \A sim \in BOOLEAN : ~ sim => cooldown[<<t, sim>>] >= lastLive[t].at + Cooldown
  /\ phase # "idle" =>
       /\ alert.at <= now
       /\ ~ alert.simulated => alert.at >= cooldown[<<alert.ticker, alert.simulated>>]

\* A hook that alerts may be posted to.
Fit(u, h) == <<u, h>> \in tested /\ u \notin Guest /\ u \notin dead

\* Rows of one read: one for an account, and fit hooks only are verified.
Sound(some) ==
  /\ \A r \in some : r.verified => Fit(r.user, r.hook)
  /\ \A p, q \in some : p.user = q.user => p = q

\* Wherever the pipeline may take a hook from, a verified one is fit.
Trusted ==
  /\ \A u \in User : users[u] # None /\ users[u].verified => Fit(u, users[u].hook)
  /\ \A t \in Ticker : cache[t] # None => Sound(cache[t].rows)
  /\ Sound(rows)
  /\ \A u \in User : testing[u] # None =>
       u \notin Guest /\ (testing[u].ok => <<u, testing[u].hook>> \in tested)
  /\ phase = "post" => posting.verified /\ ~ alert.simulated

\* Who watched a company before `at` has a row.
Covers(some, t, at) ==
  \A u \in User : Watches(u, t) /\ watch[<<u, t>>] < at => u \in {r.user : r \in some}

\* A list is complete for those who watched before it was asked for.
Fresh ==
  /\ \A t \in Ticker : cache[t] # None => cache[t].at <= now /\ Covers(cache[t].rows, t, cache[t].at)
  /\ phase \in {"read", "store", "deliver", "post"} /\ calledAt # None => calledAt <= now
  /\ phase \in {"read", "store"} => calledAt # None
  /\ phase = "store" => Covers(rows, alert.ticker, calledAt)
  /\ LongStandingAreServed

AlertInv == Shape /\ Spaced /\ Trusted /\ Fresh

-----------------------------------------------------------------------------
LEMMA TimeFacts ==
  /\ SubTtl \in Nat /\ SubTtl > 0 /\ Cooldown \in Nat /\ None \notin Nat /\ None \notin Int
  /\ None \notin Account
BY AccountAssumption, TimeAssumption

LEMMA CooldownType ==
  ASSUME Shape, NEW t \in Ticker, NEW sim \in BOOLEAN
  PROVE  cooldown[<<t, sim>>] \in Nat
<1>1. <<t, sim>> \in Ticker \X BOOLEAN
  OBVIOUS
<1> QED
  BY <1>1 DEF Shape

\* Un-verifying an account changes nothing else of it.
LEMMA Unverified ==
  ASSUME users \in [User -> Account \cup {None}], NEW u \in User, users[u] # None,
         users' = [users EXCEPT ![u].verified = FALSE]
  PROVE  /\ users' \in [User -> Account \cup {None}]
         /\ users'[u].verified = FALSE /\ users'[u] \in Account
         /\ \A v \in User \ {u} : users'[v] = users[v]
BY DEF Account

LEMMA TestPassed ==
  ASSUME testing \in [User -> Test \cup {None}], NEW u \in User, testing[u] # None,
         testing' = [testing EXCEPT ![u].ok = TRUE]
  PROVE  /\ testing' \in [User -> Test \cup {None}]
         /\ testing'[u].hook = testing[u].hook
         /\ \A v \in User \ {u} : testing'[v] = testing[v]
BY DEF Test

LEMMA RowsForFacts ==
  ASSUME Shape, NEW t
  PROVE  /\ RowsFor(t) \subseteq Row
         /\ \A r \in RowsFor(t) : /\ r.user \in User /\ users[r.user] # None
                                  /\ r.hook = users[r.user].hook
                                  /\ r.verified = users[r.user].verified
         /\ \A p, q \in RowsFor(t) : p.user = q.user => p = q
         /\ \A u \in User : Watches(u, t) => u \in {r.user : r \in RowsFor(t)}
<1>1. \A u \in User : Watches(u, t) => users[u] \in Account
  BY DEF Shape, Watches, Exists
<1>2. RowsFor(t) \subseteq Row
  BY <1>1 DEF RowsFor, Row, Account
<1>3. \A r \in RowsFor(t) : /\ r.user \in User /\ users[r.user] # None
                            /\ r.hook = users[r.user].hook
                            /\ r.verified = users[r.user].verified
  <2> SUFFICES ASSUME NEW r \in RowsFor(t)
               PROVE  /\ r.user \in User /\ users[r.user] # None
                      /\ r.hook = users[r.user].hook
                      /\ r.verified = users[r.user].verified
    OBVIOUS
  <2>1. PICK u \in {v \in User : Watches(v, t)} :
          r = [user |-> u, hook |-> users[u].hook, verified |-> users[u].verified]
    BY Zenon DEF RowsFor
  <2>2. r.user = u /\ r.hook = users[u].hook /\ r.verified = users[u].verified
    BY <2>1
  <2>3. u \in User /\ users[u] # None
    BY DEF Watches, Exists
  <2> QED
    BY <2>2, <2>3
<1>4. \A u \in User : Watches(u, t) => u \in {r.user : r \in RowsFor(t)}
  <2> SUFFICES ASSUME NEW u \in User, Watches(u, t) PROVE \E r \in RowsFor(t) : u = r.user
    OBVIOUS
  <2> DEFINE r == [user |-> u, hook |-> users[u].hook, verified |-> users[u].verified]
  <2>1. r \in RowsFor(t)
    BY DEF RowsFor
  <2>2. r.user = u
    OBVIOUS
  <2> QED
    BY <2>1, <2>2
<1>5. \A p, q \in RowsFor(t) : p.user = q.user => p = q
  <2>1. \A r \in RowsFor(t) :
          r = [user |-> r.user, hook |-> users[r.user].hook, verified |-> users[r.user].verified]
    BY DEF RowsFor
  <2> QED
    BY <2>1
<1> QED
  BY <1>2, <1>3, <1>4, <1>5

\* Entries of the cache, and tests under way, may only have gone.
CachePruned ==
  /\ cache' \in [Ticker -> Entry \cup {None}]
  /\ \A t \in Ticker : cache'[t] # None => cache'[t] = cache[t]

TestsPruned ==
  /\ testing' \in [User -> Test \cup {None}]
  /\ \A u \in User : testing'[u] # None => testing'[u] = testing[u]

\* What the end of a fan-out notes of a live alert.
LEMMA EndNoted ==
  ASSUME AlertInv, NEW sent \in BOOLEAN, NEW gone \in User \cup {None}, EndFanOut(sent, gone)
  PROVE  /\ lastLive' \in [Ticker -> Ended \cup {None}]
         /\ \A t \in Ticker :
              \/ lastLive'[t] = lastLive[t]
              \/ /\ alert \in Alert /\ ~ alert.simulated /\ t = alert.ticker
                 /\ phase # "idle"
                 /\ lastLive'[t] \in Ended /\ lastLive'[t].at = alert.at
                 /\ lastLive'[t].sent = sent /\ lastLive'[t].gone = gone
<1>1. lastLive \in [Ticker -> Ended \cup {None}] /\ alert \in Alert \cup {None}
  BY DEF AlertInv, Shape
<1>2. CASE lastLive' = lastLive
  BY <1>1, <1>2
<1>3. CASE alert # None /\ ~ alert.simulated
  <2> DEFINE e == [at |-> alert.at, sent |-> sent, gone |-> gone]
  <2>1. lastLive' = [lastLive EXCEPT ![alert.ticker] = e]
    BY <1>3 DEF EndFanOut
  <2>2. e \in Ended /\ e.at = alert.at /\ e.sent = sent /\ e.gone = gone
    BY <1>1, <1>3 DEF Ended, Alert
  <2>3. alert.ticker \in Ticker /\ alert \in Alert /\ phase # "idle"
    BY <1>1, <1>3 DEF AlertInv, Shape, Alert
  <2> HIDE DEF e
  <2> QED
    BY <1>1, <1>3, <2>1, <2>2, <2>3
<1> QED
  BY <1>2, <1>3 DEF EndFanOut

\* An exception ends a fan-out: the cooldown owes it nothing.
LEMMA EndSpaced ==
  ASSUME AlertInv, NEW gone \in User \cup {None}, EndFanOut(FALSE, gone), UNCHANGED <<now, cooldown>>
  PROVE  Spaced'
<1> SUFFICES ASSUME NEW t \in Ticker, lastLive'[t] # None
             PROVE  /\ lastLive'[t].at <= now
                    /\ lastLive'[t].sent =>
                         \A sim \in BOOLEAN : ~ sim =>
                           cooldown[<<t, sim>>] >= lastLive'[t].at + Cooldown
  BY DEF Spaced, EndFanOut
<1>1. CASE lastLive'[t] = lastLive[t]
  BY <1>1 DEF AlertInv, Spaced
<1>2. CASE phase # "idle" /\ lastLive'[t].at = alert.at /\ lastLive'[t].sent = FALSE
  BY <1>2 DEF AlertInv, Spaced
<1> QED
  BY <1>1, <1>2, EndNoted

\* The end of a fan-out by an exception leaves nothing that any part of the
\* invariant speaks of but its time.
LEMMA EndKeeps ==
  ASSUME AlertInv, NEW gone \in User \cup {None}, EndFanOut(FALSE, gone), CachePruned, TestsPruned,
         UNCHANGED <<now, dbVars, cooldown, tested, dead>>
  PROVE  AlertInv'
<1>1. phase' = "idle" /\ alert' = None /\ calledAt' = None /\ rows' = {} /\ served' = {}
  BY DEF EndFanOut
<1>2. /\ now' = now /\ users' = users /\ watch' = watch /\ cooldown' = cooldown
      /\ tested' = tested /\ dead' = dead
  BY DEF dbVars
<1>3. Shape'
  <2>1. lastLive' \in [Ticker -> Ended \cup {None}]
    BY EndNoted
  <2> QED
    BY <1>1, <1>2, <2>1 DEF AlertInv, Shape, Phase, CachePruned, TestsPruned
<1>4. Spaced'
  BY <1>2, EndSpaced
<1>5. Trusted'
  BY <1>1, <1>2 DEF AlertInv, Trusted, Sound, Fit, CachePruned, TestsPruned
<1>6. Fresh'
  BY <1>1, <1>2 DEF AlertInv, Fresh, Covers, Watches, Exists, LongStandingAreServed, CachePruned
<1> QED
  BY <1>3, <1>4, <1>5, <1>6 DEF AlertInv

-----------------------------------------------------------------------------
\* What leaves the pipeline, and the tables it reads, alone.
LEMMA FrameKeeps ==
  ASSUME AlertInv, CachePruned, TestsPruned,
         UNCHANGED <<now, dbVars, cooldown, phase, alert, calledAt, rows, posting,
                     served, lastLive, tested, dead>>
  PROVE  AlertInv'
<1>1. /\ now' = now /\ users' = users /\ watch' = watch /\ cooldown' = cooldown
      /\ lastLive' = lastLive /\ tested' = tested /\ dead' = dead
      /\ phase' = phase /\ alert' = alert /\ calledAt' = calledAt /\ rows' = rows
      /\ posting' = posting /\ served' = served
  BY DEF dbVars
<1>2. Shape'
  BY <1>1 DEF AlertInv, Shape, CachePruned, TestsPruned
<1>3. Spaced'
  BY <1>1 DEF AlertInv, Spaced
<1>4. Trusted'
  BY <1>1 DEF AlertInv, Trusted, Sound, Fit, CachePruned, TestsPruned
<1>5. Fresh'
  BY <1>1 DEF AlertInv, Fresh, Covers, Watches, Exists, LongStandingAreServed, CachePruned
<1> QED
  BY <1>2, <1>3, <1>4, <1>5 DEF AlertInv

LEMMA InitHolds == Init => AlertInv
<1> SUFFICES ASSUME Init PROVE AlertInv
  OBVIOUS
<1>1. Shape
  <2>1. [hook |-> None, verified |-> FALSE] \in Account
    BY DEF Account
  <2> QED
    BY <2>1, TimeFacts DEF Init, Shape, Phase
<1>2. Spaced /\ Trusted
  BY DEF Init, Spaced, Trusted, Sound
<1>3. Fresh
  BY DEF Init, Fresh, LongStandingAreServed
<1> QED
  BY <1>1, <1>2, <1>3 DEF AlertInv
-----------------------------------------------------------------------------
\* The pipeline's steps.

LEMMA NothingPruned ==
  ASSUME AlertInv
  PROVE  /\ UNCHANGED cache => CachePruned
         /\ UNCHANGED testing => TestsPruned
BY DEF AlertInv, Shape, CachePruned, TestsPruned

LEMMA ElapseKeeps ==
  ASSUME AlertInv, Elapse
  PROVE  AlertInv'
<1>1. /\ now' = now + 1 /\ users' = users /\ watch' = watch /\ cooldown' = cooldown
      /\ cache' = cache /\ testing' = testing
      /\ lastLive' = lastLive /\ tested' = tested /\ dead' = dead
      /\ phase' = phase /\ alert' = alert /\ calledAt' = calledAt /\ rows' = rows
      /\ posting' = posting /\ served' = served
  BY DEF Elapse, dbVars, redisVars, pipeVars, webVars, history, userHistory
<1>2. Shape'
  BY <1>1 DEF AlertInv, Shape
<1>3. Spaced'
  <2>1. \A t \in Ticker : lastLive[t] # None => lastLive[t].at \in Nat
    BY DEF AlertInv, Shape, Ended
  <2>2. phase # "idle" => alert.at \in Nat
    BY DEF AlertInv, Shape, Alert
  <2>3. now \in Nat /\ now' > now
    BY <1>1 DEF AlertInv, Shape
  <2> QED
    BY <1>1, <2>1, <2>2, <2>3 DEF AlertInv, Spaced
<1>4. Trusted'
  BY <1>1 DEF AlertInv, Trusted, Sound, Fit
<1>5. Fresh'
  <2>1. \A t \in Ticker : cache[t] # None => cache[t].at \in Nat
    BY DEF AlertInv, Shape, Entry
  <2> QED
    BY <1>1, <2>1 DEF AlertInv, Shape, Fresh, Covers, Watches, Exists, LongStandingAreServed
<1> QED
  BY <1>2, <1>3, <1>4, <1>5 DEF AlertInv

LEMMA EvaluateKeeps ==
  ASSUME AlertInv, NEW t \in Ticker, NEW real \in BOOLEAN, NEW sim \in BOOLEAN, Evaluate(t, real, sim)
  PROVE  AlertInv'
<1>1. /\ now' = now /\ users' = users /\ watch' = watch /\ cooldown' = cooldown
      /\ cache' = cache /\ testing' = testing
      /\ lastLive' = lastLive /\ tested' = tested /\ dead' = dead
  BY DEF Evaluate, dbVars, redisVars, webVars, userHistory
<1>2. CASE UNCHANGED pipeVars
  BY <1>1, <1>2, NothingPruned, FrameKeeps DEF pipeVars, dbVars
<1>3. CASE ~ InCooldown(t, sim) /\ phase = "idle"
           /\ alert' = [ticker |-> t, simulated |-> sim, at |-> now]
           /\ phase' = "lookup" /\ served' = {} /\ UNCHANGED <<calledAt, rows, posting>>
  <2>1. alert' \in Alert /\ alert'.ticker = t /\ alert'.simulated = sim /\ alert'.at = now
    BY <1>3 DEF AlertInv, Shape, Alert
  <2>2. Shape'
    BY <1>1, <1>3, <2>1 DEF AlertInv, Shape, Phase
  <2>3. Spaced'
    <3>1. now \in Nat /\ cooldown[<<t, sim>>] \in Nat
      BY CooldownType DEF AlertInv, Shape
    <3>2. now >= cooldown[<<t, sim>>]
      BY <1>3, <3>1 DEF InCooldown
    <3> QED
      BY <1>1, <2>1, <3>1, <3>2 DEF AlertInv, Spaced
  <2>4. Trusted'
    BY <1>1, <1>3 DEF AlertInv, Trusted, Sound, Fit
  <2>5. Fresh'
    BY <1>1, <1>3 DEF AlertInv, Fresh, Covers, Watches, Exists, LongStandingAreServed
  <2> QED
    BY <2>2, <2>3, <2>4, <2>5 DEF AlertInv
<1> QED
  BY <1>2, <1>3 DEF Evaluate

\* A lookup leaves everything alone but the list and the clock it read.
LEMMA LookupKeeps ==
  ASSUME AlertInv, phase \in {"lookup", "read"}, phase' \in {"read", "store", "deliver"},
         rows' \subseteq Row, Sound(rows'), calledAt' \in Nat \cup {None},
         calledAt' # None => calledAt' <= now,
         phase' \in {"read", "store"} => calledAt' # None,
         phase' = "store" => Covers(rows', alert.ticker, calledAt'),
         phase' = "deliver" /\ calledAt' # None => Covers(rows', alert.ticker, calledAt' - SubTtl + 1),
         UNCHANGED <<now, dbVars, redisVars, cache, alert, posting, served, webVars, history>>
  PROVE  AlertInv'
<1>1. /\ now' = now /\ users' = users /\ watch' = watch /\ cooldown' = cooldown
      /\ cache' = cache /\ testing' = testing /\ lastLive' = lastLive /\ tested' = tested
      /\ dead' = dead /\ alert' = alert /\ posting' = posting /\ served' = served
  BY DEF dbVars, redisVars, webVars, history, userHistory
<1>2. Shape'
  BY <1>1 DEF AlertInv, Shape, Phase
<1>3. Spaced'
  BY <1>1 DEF AlertInv, Spaced
<1>4. Trusted'
  BY <1>1 DEF AlertInv, Trusted, Sound, Fit
<1>5. Fresh'
  <2>1. LongStandingAreServed'
    <3> SUFFICES ASSUME phase' = "deliver", calledAt' # None, NEW u \in User,
                        Watches(u, alert.ticker), watch[<<u, alert.ticker>>] <= calledAt' - SubTtl
                 PROVE  u \in {r.user : r \in rows'}
      BY <1>1 DEF LongStandingAreServed, Watches, Exists
    <3>1. watch[<<u, alert.ticker>>] \in Int /\ calledAt' \in Nat
      BY DEF AlertInv, Shape, Watches, Alert
    <3> QED
      BY <3>1, TimeFacts DEF Covers
  <2> QED
    BY <1>1, <2>1 DEF AlertInv, Fresh, Covers, Watches, Exists
<1> QED
  BY <1>2, <1>3, <1>4, <1>5 DEF AlertInv

LEMMA LookupsKeep ==
  ASSUME AlertInv, LookupHit \/ LookupMiss \/ ReadSubscribers \/ LookupFails
  PROVE  AlertInv'
<1>1. /\ rows \subseteq Row /\ Sound(rows) /\ now \in Nat /\ calledAt \in Nat \cup {None}
      /\ phase # "idle" => alert.ticker \in Ticker
  BY DEF AlertInv, Shape, Trusted, Alert
<1>2. CASE LookupHit
  <2> DEFINE t == alert.ticker
  <2>1. /\ phase = "lookup" /\ phase' = "deliver" /\ calledAt' = now /\ rows' = cache[t].rows
        /\ cache[t] # None /\ now - cache[t].at < SubTtl
    BY <1>2 DEF LookupHit, Cached
  <2>2. UNCHANGED <<now, dbVars, redisVars, cache, alert, posting, served, webVars, history>>
    BY <1>2 DEF LookupHit
  <2>3. t \in Ticker
    BY <1>1, <2>1
  <2>4. cache[t] \in Entry /\ Sound(cache[t].rows) /\ Covers(cache[t].rows, t, cache[t].at)
    BY <2>1, <2>3 DEF AlertInv, Shape, Trusted, Fresh
  <2>5. rows' \subseteq Row /\ cache[t].at \in Nat
    BY <2>1, <2>4 DEF Entry
  <2>6. Covers(rows', t, calledAt' - SubTtl + 1)
    <3> SUFFICES ASSUME NEW u \in User, Watches(u, t), watch[<<u, t>>] < now - SubTtl + 1
                 PROVE  u \in {r.user : r \in rows'}
      BY <2>1 DEF Covers
    <3>1. watch[<<u, t>>] \in Nat
      BY <2>3 DEF AlertInv, Shape, Watches
    <3>2. watch[<<u, t>>] < cache[t].at
      BY <3>1, <1>1, <2>1, <2>5, TimeFacts
    <3> QED
      BY <3>2, <2>1, <2>4 DEF Covers
  <2>7. Sound(rows') /\ calledAt' \in Nat \cup {None} /\ calledAt' <= now
    BY <1>1, <2>1, <2>4
  <2> QED
    BY <2>1, <2>2, <2>5, <2>6, <2>7, LookupKeeps
<1>3. CASE LookupMiss
  <2>1. /\ phase = "lookup" /\ phase' = "read" /\ calledAt' = now /\ rows' = rows
        /\ UNCHANGED <<now, dbVars, redisVars, cache, alert, posting, served, webVars, history>>
    BY <1>3 DEF LookupMiss
  <2>2. now <= now /\ now # None
    BY <1>1, TimeFacts
  <2> QED
    BY <1>1, <2>1, <2>2, LookupKeeps
<1>4. CASE ReadSubscribers
  <2> DEFINE t == alert.ticker
  <2>1. phase = "read" /\ phase' = "store" /\ rows' = RowsFor(t) /\ calledAt' = calledAt
    BY <1>4 DEF ReadSubscribers
  <2>2. UNCHANGED <<now, dbVars, redisVars, cache, alert, posting, served, webVars, history>>
    BY <1>4 DEF ReadSubscribers
  <2>3. calledAt # None /\ calledAt <= now
    BY <2>1 DEF AlertInv, Fresh
  <2>4. rows' \subseteq Row /\ Covers(rows', t, calledAt')
    BY <2>1, RowsForFacts DEF AlertInv, Covers
  <2>5. Sound(rows')
    BY <2>1, RowsForFacts DEF AlertInv, Trusted, Sound
  <2> QED
    BY <1>1, <2>1, <2>2, <2>3, <2>4, <2>5, LookupKeeps
<1>5. CASE LookupFails
  <2>1. /\ phase = "read" /\ phase' = "deliver" /\ calledAt' = None /\ rows' = rows
        /\ UNCHANGED <<now, dbVars, redisVars, cache, alert, posting, served, webVars, history>>
    BY <1>5 DEF LookupFails
  <2> QED
    BY <1>1, <2>1, LookupKeeps
<1> QED
  BY <1>2, <1>3, <1>4, <1>5

LEMMA StoreKeeps ==
  ASSUME AlertInv, StoreSubscribers
  PROVE  AlertInv'
<1> DEFINE t == alert.ticker
           e == [at |-> calledAt, rows |-> rows]
<1>1. /\ phase = "store" /\ phase' = "deliver" /\ cache' = [cache EXCEPT ![t] = e]
      /\ now' = now /\ users' = users /\ watch' = watch /\ cooldown' = cooldown
      /\ testing' = testing /\ lastLive' = lastLive /\ tested' = tested /\ dead' = dead
      /\ alert' = alert /\ calledAt' = calledAt /\ rows' = rows
      /\ posting' = posting /\ served' = served
  BY DEF StoreSubscribers, StoreWith, dbVars, redisVars, webVars, history, userHistory
<1>2. /\ calledAt # None /\ calledAt \in Nat /\ calledAt <= now /\ Sound(rows)
      /\ Covers(rows, t, calledAt) /\ t \in Ticker /\ rows \subseteq Row
  BY <1>1 DEF AlertInv, Shape, Trusted, Fresh, Alert
<1>3. e \in Entry /\ e.at = calledAt /\ e.rows = rows
  BY <1>2 DEF Entry
<1> HIDE DEF e
<1>4. \A s \in Ticker : cache'[s] = IF s = t THEN e ELSE cache[s]
  BY <1>1 DEF AlertInv, Shape
<1>5. Shape'
  <2>1. cache' \in [Ticker -> Entry \cup {None}]
    BY <1>1, <1>3 DEF AlertInv, Shape
  <2> QED
    BY <1>1, <2>1 DEF AlertInv, Shape, Phase
<1>6. Spaced'
  BY <1>1 DEF AlertInv, Spaced
<1>7. Trusted'
  <2>1. \A s \in Ticker : cache'[s] # None => Sound(cache'[s].rows)
    BY <1>2, <1>3, <1>4 DEF AlertInv, Trusted
  <2> QED
    BY <1>1, <2>1 DEF AlertInv, Trusted, Sound, Fit
<1>8. Fresh'
  <2>1. \A s \in Ticker : cache'[s] # None =>
          cache'[s].at <= now /\ Covers(cache'[s].rows, s, cache'[s].at)
    BY <1>2, <1>3, <1>4 DEF AlertInv, Fresh
  <2>2. LongStandingAreServed'
    <3> SUFFICES ASSUME NEW u \in User, Watches(u, t), watch[<<u, t>>] <= calledAt - SubTtl
                 PROVE  u \in {r.user : r \in rows}
      BY <1>1 DEF LongStandingAreServed, Watches, Exists
    <3>1. watch[<<u, t>>] \in Nat
      BY <1>2 DEF AlertInv, Shape, Watches
    <3>2. watch[<<u, t>>] < calledAt
      BY <3>1, <1>2, TimeFacts
    <3> QED
      BY <3>2, <1>2 DEF Covers
  <2> QED
    BY <1>1, <1>2, <2>1, <2>2 DEF AlertInv, Fresh, Covers, Watches, Exists
<1> QED
  BY <1>5, <1>6, <1>7, <1>8 DEF AlertInv

\* A delivery row is written, or refused because the account has gone.
LEMMA RecordKeeps ==
  ASSUME AlertInv, phase \in {"deliver", "post"}, NEW r \in rows, Record(r),
         UNCHANGED <<now, dbVars, redisVars, cache, webVars, userHistory>>
  PROVE  AlertInv'
<1>1. /\ now' = now /\ users' = users /\ watch' = watch /\ cooldown' = cooldown
      /\ cache' = cache /\ testing' = testing /\ tested' = tested /\ dead' = dead
  BY DEF dbVars, redisVars, webVars, userHistory
<1>0. r.user \in User
  BY DEF AlertInv, Shape, Row
<1>2. CASE EndFanOut(FALSE, r.user)
  BY <1>0, <1>1, <1>2, NothingPruned, EndKeeps DEF dbVars
<1>3. CASE /\ served' = served \cup {r.user} /\ rows' = rows \ {r}
           /\ phase' = "deliver" /\ UNCHANGED <<alert, calledAt, lastLive>>
  <2>1. r.user \in User
    BY <1>0
  <2>2. Shape'
    BY <1>1, <1>3, <2>1 DEF AlertInv, Shape, Phase
  <2>3. Spaced'
    BY <1>1, <1>3 DEF AlertInv, Spaced
  <2>4. Trusted'
    BY <1>1, <1>3 DEF AlertInv, Trusted, Sound, Fit
  <2>5. Fresh'
    <3>1. served \cup {p.user : p \in rows} \subseteq served' \cup {p.user : p \in rows'}
      BY <1>3
    <3> QED
      BY <1>1, <1>3, <3>1 DEF AlertInv, Fresh, Covers, Watches, Exists, LongStandingAreServed
  <2> QED
    BY <2>2, <2>3, <2>4, <2>5 DEF AlertInv
<1> QED
  BY <1>2, <1>3 DEF Record

LEMMA StartPostKeeps ==
  ASSUME AlertInv, NEW r \in rows, StartPost(r)
  PROVE  AlertInv'
<1>1. /\ phase = "deliver" /\ phase' = "post" /\ posting' = r
      /\ r.verified /\ ~ alert.simulated
      /\ now' = now /\ users' = users /\ watch' = watch /\ cooldown' = cooldown
      /\ cache' = cache /\ testing' = testing /\ lastLive' = lastLive /\ tested' = tested
      /\ dead' = dead /\ alert' = alert /\ calledAt' = calledAt /\ rows' = rows
      /\ served' = served
  BY DEF StartPost, Posts, dbVars, redisVars, webVars, history, userHistory
<1>2. Shape'
  BY <1>1 DEF AlertInv, Shape, Phase
<1>3. Spaced'
  BY <1>1 DEF AlertInv, Spaced
<1>4. Trusted'
  BY <1>1 DEF AlertInv, Trusted, Sound, Fit
<1>5. Fresh'
  BY <1>1 DEF AlertInv, Fresh, Covers, Watches, Exists, LongStandingAreServed
<1> QED
  BY <1>2, <1>3, <1>4, <1>5 DEF AlertInv

LEMMA PostFailsKeeps ==
  ASSUME AlertInv, PostFails
  PROVE  AlertInv'
<1> DEFINE u == posting.user
<1>1. /\ phase = "post" /\ Record(posting) /\ dead' = dead \cup {u}
      /\ users' = IF Exists(u) THEN [users EXCEPT ![u].verified = FALSE] ELSE users
      /\ now' = now /\ watch' = watch /\ cooldown' = cooldown
      /\ testing' = testing /\ tested' = tested
  BY DEF PostFails, PostFailsWith, redisVars, webVars
<1>2. \A t \in Ticker : cache'[t] = None
  BY DEF PostFails, PostFailsWith
<1>3. cache' \in [Ticker -> Entry \cup {None}]
  BY <1>2 DEF PostFails, PostFailsWith
<1>4. posting \in rows /\ u \in User /\ posting.verified
  BY <1>1 DEF AlertInv, Shape, Trusted, Row
<1>5. CASE Exists(u)
  <2>1. /\ served' = served \cup {u} /\ rows' = rows \ {posting}
        /\ phase' = "deliver" /\ alert' = alert /\ calledAt' = calledAt
        /\ lastLive' = lastLive
    BY <1>1, <1>5 DEF Record
  <2>2. /\ users' \in [User -> Account \cup {None}] /\ users'[u].verified = FALSE
        /\ users'[u] # None
        /\ \A v \in User \ {u} : users'[v] = users[v]
    <3>1. users' = [users EXCEPT ![u].verified = FALSE] /\ users[u] # None
      BY <1>1, <1>5 DEF Exists
    <3>2. users \in [User -> Account \cup {None}]
      BY DEF AlertInv, Shape
    <3>3. users' \in [User -> Account \cup {None}] /\ users'[u].verified = FALSE
          /\ users'[u] \in Account /\ \A v \in User \ {u} : users'[v] = users[v]
      BY <1>4, <3>1, <3>2, Unverified
    <3> QED
      BY <3>3, TimeFacts
  <2>3. \A v \in User : users'[v] # None => users[v] # None
    BY <1>5, <2>2 DEF Exists
  <2>4. Shape'
    BY <1>1, <1>3, <1>4, <2>1, <2>2 DEF AlertInv, Shape, Phase
  <2>5. Spaced'
    BY <1>1, <2>1 DEF AlertInv, Spaced
  <2>6. Trusted'
    <3>1. \A r \in rows' : r \in rows /\ r.user # u
      BY <1>4, <2>1 DEF AlertInv, Trusted, Sound
    <3>2. Sound(rows)'
      BY <1>1, <3>1 DEF AlertInv, Trusted, Sound, Fit
    <3>3. (\A v \in User : users[v] # None /\ users[v].verified => Fit(v, users[v].hook))'
      BY <1>1, <2>2 DEF AlertInv, Trusted, Fit
    <3> QED
      BY <1>1, <1>2, <2>1, <3>2, <3>3 DEF AlertInv, Trusted
  <2>7. Fresh'
    <3>1. served \cup {p.user : p \in rows} \subseteq served' \cup {p.user : p \in rows'}
      BY <2>1
    <3>2. \A v \in User, t \in Ticker : Watches(v, t)' => Watches(v, t)
      BY <1>1, <2>3 DEF Watches, Exists
    <3>3. LongStandingAreServed'
      <4>1. alert.ticker \in Ticker
        BY <1>1 DEF AlertInv, Shape, Alert
      <4> QED
        BY <1>1, <2>1, <3>1, <3>2, <4>1 DEF AlertInv, Fresh, LongStandingAreServed
    <3> QED
      BY <1>1, <1>2, <2>1, <3>3 DEF AlertInv, Fresh
  <2> QED
    BY <2>4, <2>5, <2>6, <2>7 DEF AlertInv
<1>6. CASE ~ Exists(u)
  <2>0. EndFanOut(FALSE, u)
    BY <1>1, <1>6 DEF Record
  <2>1. /\ phase' = "idle" /\ alert' = None /\ calledAt' = None /\ rows' = {} /\ served' = {}
        /\ lastLive' \in [Ticker -> Ended \cup {None}]
    BY <1>4, <2>0, EndNoted DEF EndFanOut
  <2>2. users' = users /\ users[u] = None
    BY <1>1, <1>6 DEF Exists
  <2>3. Shape'
    BY <1>1, <1>3, <2>1, <2>2 DEF AlertInv, Shape, Phase
  <2>4. Spaced'
    BY <1>1, <1>4, <2>0, EndSpaced
  <2>5. Trusted'
    BY <1>1, <1>2, <2>1, <2>2 DEF AlertInv, Trusted, Sound, Fit
  <2>6. Fresh'
    BY <1>1, <1>2, <2>1 DEF AlertInv, Fresh, LongStandingAreServed
  <2> QED
    BY <2>3, <2>4, <2>5, <2>6 DEF AlertInv
<1> QED
  BY <1>5, <1>6

LEMMA MarkSentKeeps ==
  ASSUME AlertInv, MarkSent
  PROVE  AlertInv'
<1> DEFINE t == alert.ticker
           s == alert.simulated
<1>1. /\ phase = "deliver" /\ cooldown' = [cooldown EXCEPT ![<<t, s>>] = now + Cooldown]
      /\ EndFanOut(TRUE, None) /\ UNCHANGED <<now, dbVars, cache, testing, tested, dead>>
  BY DEF MarkSent, webVars, userHistory
<1>2. /\ phase' = "idle" /\ alert' = None /\ calledAt' = None /\ rows' = {} /\ served' = {}
      /\ now' = now /\ users' = users /\ watch' = watch
      /\ cache' = cache /\ testing' = testing /\ tested' = tested /\ dead' = dead
  BY <1>1 DEF EndFanOut, dbVars
<1>3. /\ t \in Ticker /\ s \in BOOLEAN /\ now \in Nat /\ now + Cooldown \in Nat
      /\ alert.at \in Nat /\ alert.at <= now
  BY <1>1, TimeFacts DEF AlertInv, Shape, Spaced, Alert
<1>4. cooldown' \in [Ticker \X BOOLEAN -> Nat] /\ lastLive' \in [Ticker -> Ended \cup {None}]
  BY <1>1, <1>3, EndNoted DEF AlertInv, Shape
<1>5. Shape'
  BY <1>2, <1>4 DEF AlertInv, Shape, Phase
<1>6. Spaced'
  <2> SUFFICES ASSUME NEW x \in Ticker, lastLive'[x] # None
               PROVE  /\ lastLive'[x].at <= now
                      /\ lastLive'[x].sent =>
                           \A sim \in BOOLEAN : ~ sim =>
                             cooldown'[<<x, sim>>] >= lastLive'[x].at + Cooldown
    BY <1>2 DEF Spaced
  <2>1. \A sim \in BOOLEAN : <<x, sim>> \in DOMAIN cooldown
    BY DEF AlertInv, Shape
  <2>2. \A sim \in BOOLEAN : cooldown'[<<x, sim>>] =
          IF <<x, sim>> = <<t, s>> THEN now + Cooldown ELSE cooldown[<<x, sim>>]
    BY <1>1, <2>1
  <2>3. CASE ~ s /\ x = t /\ lastLive'[x].at = alert.at
    <3>1. \A sim \in BOOLEAN : ~ sim => cooldown'[<<x, sim>>] = now + Cooldown
      BY <1>3, <2>2, <2>3
    <3>2. now + Cooldown >= lastLive'[x].at + Cooldown
      BY <1>3, <2>3, TimeFacts
    <3> QED
      BY <1>3, <2>3, <3>1, <3>2
  <2>4. CASE lastLive'[x] = lastLive[x]
    <3>1. lastLive[x].at \in Nat /\ lastLive[x].at <= now
      BY <2>4 DEF AlertInv, Shape, Spaced, Ended
    <3>2. ASSUME lastLive[x].sent, NEW sim \in BOOLEAN, ~ sim
          PROVE  cooldown'[<<x, sim>>] >= lastLive[x].at + Cooldown
      <4>1. cooldown[<<x, sim>>] >= lastLive[x].at + Cooldown
        BY <2>4, <3>2 DEF AlertInv, Spaced
      <4>2. now + Cooldown >= lastLive[x].at + Cooldown
        BY <1>3, <3>1, TimeFacts
      <4> QED
        BY <2>2, <4>1, <4>2
    <3> QED
      BY <2>4, <3>1, <3>2
  <2> QED
    BY <1>1, <2>3, <2>4, EndNoted
<1>7. Trusted'
  BY <1>2 DEF AlertInv, Trusted, Sound, Fit
<1>8. Fresh'
  BY <1>2 DEF AlertInv, Fresh, Covers, Watches, Exists, LongStandingAreServed
<1> QED
  BY <1>5, <1>6, <1>7, <1>8 DEF AlertInv

LEMMA PipelineEndsKeep ==
  ASSUME AlertInv, PipelineRaises \/ Restart
  PROVE  AlertInv'
<1>1. EndFanOut(FALSE, None) /\ UNCHANGED <<now, dbVars, cooldown, tested, dead>>
  BY DEF PipelineRaises, Restart, redisVars, userHistory
<1>2. CachePruned
  BY NothingPruned DEF PipelineRaises, Restart, CachePruned
<1>3. TestsPruned
  <2>1. testing' = testing \/ testing' = [u \in User |-> None]
    BY DEF PipelineRaises, Restart, webVars
  <2> QED
    BY <2>1, NothingPruned DEF TestsPruned
<1> QED
  BY <1>1, <1>2, <1>3, EndKeeps

LEMMA PipelineStepKeeps ==
  ASSUME AlertInv, PipelineStep
  PROVE  AlertInv'
<1>1. CASE \E t \in Ticker : \E real, sim \in BOOLEAN : Evaluate(t, real, sim)
  BY <1>1, EvaluateKeeps
<1>2. CASE LookupHit \/ LookupMiss \/ ReadSubscribers \/ LookupFails
  BY <1>2, LookupsKeep
<1>3. CASE StoreSubscribers
  BY <1>3, StoreKeeps
<1>4. CASE \E r \in rows : RecordOnly(r)
  BY <1>4, RecordKeeps DEF RecordOnly
<1>5. CASE \E r \in rows : StartPost(r)
  BY <1>5, StartPostKeeps
<1>6. CASE PostSucceeds \/ PostFailsUnnoticed
  <2>1. posting \in rows
    BY <1>6 DEF PostSucceeds, PostFailsUnnoticed, AlertInv, Shape
  <2> QED
    BY <1>6, <2>1, RecordKeeps DEF PostSucceeds, PostFailsUnnoticed
<1>7. CASE PostFails
  BY <1>7, PostFailsKeeps
<1>8. CASE MarkSent
  BY <1>8, MarkSentKeeps
<1> QED
  BY <1>1, <1>2, <1>3, <1>4, <1>5, <1>6, <1>7, <1>8 DEF PipelineStep

-----------------------------------------------------------------------------
\* The requests.

\* Whoever watches after a change and did not before, or not since then, began now.
LEMMA WatchersKeep ==
  ASSUME AlertInv, watch' \in [User \X Ticker -> Nat \cup {None}],
         users' = users,
         \A u \in User, t \in Ticker :
           watch'[<<u, t>>] # None => watch'[<<u, t>>] \in {watch[<<u, t>>], now},
         UNCHANGED <<now, redisVars, cache, pipeVars, testing, history>>
  PROVE  AlertInv'
<1>1. /\ now' = now /\ cooldown' = cooldown
      /\ cache' = cache /\ testing' = testing /\ lastLive' = lastLive /\ tested' = tested
      /\ dead' = dead /\ phase' = phase /\ alert' = alert /\ calledAt' = calledAt
      /\ rows' = rows /\ posting' = posting /\ served' = served
  BY DEF redisVars, pipeVars, history, userHistory
<1>2. Shape'
  BY <1>1 DEF AlertInv, Shape
<1>3. Spaced'
  BY <1>1 DEF AlertInv, Spaced
<1>4. Trusted'
  BY <1>1 DEF AlertInv, Trusted, Sound, Fit
<1>5. \A u \in User, t \in Ticker :
        Watches(u, t)' => \/ Watches(u, t) /\ watch'[<<u, t>>] = watch[<<u, t>>]
                          \/ watch'[<<u, t>>] = now
  BY DEF Watches, Exists
<1>6. now \in Nat /\ \A t \in Ticker : cache[t] # None => cache[t].at \in Nat
  BY DEF AlertInv, Shape, Entry
<1>7. \A t \in Ticker : cache[t] # None => Covers(cache[t].rows, t, cache[t].at)'
  <2> SUFFICES ASSUME NEW t \in Ticker, cache[t] # None, NEW u \in User, Watches(u, t)',
                      watch'[<<u, t>>] < cache[t].at
               PROVE  u \in {r.user : r \in cache[t].rows}
    BY <1>1 DEF Covers
  <2>1. cache[t].at <= now /\ Covers(cache[t].rows, t, cache[t].at)
    BY DEF AlertInv, Fresh
  <2>2. Watches(u, t) /\ watch'[<<u, t>>] = watch[<<u, t>>]
    BY <1>5, <1>6, <2>1
  <2> QED
    BY <2>1, <2>2 DEF Covers
<1>8. CASE phase \in {"store", "deliver", "post"} /\ calledAt # None
  <2>1. calledAt \in Nat /\ calledAt <= now /\ alert.ticker \in Ticker
    BY <1>8 DEF AlertInv, Shape, Fresh, Alert
  <2>2. phase = "store" => Covers(rows, alert.ticker, calledAt)'
    <3> SUFFICES ASSUME phase = "store", NEW u \in User, Watches(u, alert.ticker)',
                        watch'[<<u, alert.ticker>>] < calledAt
                 PROVE  u \in {r.user : r \in rows}
      BY <1>1 DEF Covers
    <3>1. Watches(u, alert.ticker) /\ watch'[<<u, alert.ticker>>] = watch[<<u, alert.ticker>>]
      BY <1>1, <1>5, <1>6, <2>1
    <3> QED
      BY <3>1 DEF AlertInv, Fresh, Covers
  <2>3. LongStandingAreServed'
    <3> SUFFICES ASSUME phase \in {"deliver", "post"}, NEW u \in User, Watches(u, alert.ticker)',
                        watch'[<<u, alert.ticker>>] <= calledAt - SubTtl
                 PROVE  u \in served \cup {r.user : r \in rows}
      BY <1>1 DEF LongStandingAreServed
    <3>1. Watches(u, alert.ticker) /\ watch'[<<u, alert.ticker>>] = watch[<<u, alert.ticker>>]
      BY <1>1, <1>5, <1>6, <2>1, TimeFacts
    <3> QED
      BY <1>8, <3>1 DEF AlertInv, Fresh, LongStandingAreServed
  <2> QED
    BY <1>1, <1>2, <1>3, <1>4, <1>7, <2>2, <2>3 DEF AlertInv, Fresh
<1>9. CASE ~ (phase \in {"store", "deliver", "post"} /\ calledAt # None)
  BY <1>1, <1>2, <1>3, <1>4, <1>7, <1>9 DEF AlertInv, Fresh, LongStandingAreServed
<1> QED
  BY <1>8, <1>9

LEMMA SetWatchlistKeeps ==
  ASSUME AlertInv, NEW u \in User, NEW wanted \in SUBSET Ticker, SetWatchlist(u, wanted)
  PROVE  AlertInv'
<1>1. /\ users' = users /\ UNCHANGED <<now, redisVars, cache, pipeVars, testing, history>>
      /\ watch' = [e \in User \X Ticker |->
                     IF e[1] # u THEN watch[e]
                     ELSE IF e[2] \notin wanted THEN None
                     ELSE IF watch[e] # None THEN watch[e] ELSE now]
  BY DEF SetWatchlist
<1>2. watch \in [User \X Ticker -> Nat \cup {None}] /\ now \in Nat
  BY DEF AlertInv, Shape
<1>3. watch' \in [User \X Ticker -> Nat \cup {None}]
  BY <1>1, <1>2
<1>4. \A v \in User, t \in Ticker :
        watch'[<<v, t>>] # None => watch'[<<v, t>>] \in {watch[<<v, t>>], now}
  <2> SUFFICES ASSUME NEW v \in User, NEW t \in Ticker, watch'[<<v, t>>] # None
               PROVE  watch'[<<v, t>>] \in {watch[<<v, t>>], now}
    OBVIOUS
  <2>1. <<v, t>> \in User \X Ticker
    OBVIOUS
  <2> QED
    BY <1>1, <2>1
<1> QED
  BY <1>1, <1>3, <1>4, WatchersKeep

\* An account changes its hook, or the test of one ends: the lists in the pipeline
\* and in the cache stay as they are.
LEMMA HooksKeep ==
  ASSUME AlertInv, users' \in [User -> Account \cup {None}],
         \A u \in User : users'[u] # None <=> users[u] # None,
         (\A u \in User : users[u] # None /\ users[u].verified => Fit(u, users[u].hook))',
         testing' \in [User -> Test \cup {None}],
         \A u \in User : testing'[u] # None =>
           u \notin Guest /\ (testing'[u].ok => <<u, testing'[u].hook>> \in tested'),
         tested \subseteq tested', dead' \subseteq dead,
         UNCHANGED <<now, watch, redisVars, cache, pipeVars, lastLive>>
  PROVE  AlertInv'
<1>1. /\ now' = now /\ cooldown' = cooldown /\ watch' = watch
      /\ cache' = cache /\ lastLive' = lastLive
      /\ phase' = phase /\ alert' = alert /\ calledAt' = calledAt
      /\ rows' = rows /\ posting' = posting /\ served' = served
  BY DEF redisVars, pipeVars
<1>2. Shape'
  BY <1>1 DEF AlertInv, Shape
<1>3. Spaced'
  BY <1>1 DEF AlertInv, Spaced
<1>4. Trusted'
  <2>1. \A u, hk : Fit(u, hk) => Fit(u, hk)'
    BY DEF Fit
  <2>2. \A some : Sound(some) => Sound(some)'
    BY <2>1 DEF Sound
  <2>3. Sound(rows)' /\ (\A t \in Ticker : cache[t] # None => Sound(cache[t].rows))'
    BY <1>1, <2>2 DEF AlertInv, Trusted, Sound, Fit
  <2> QED
    BY <1>1, <2>3 DEF AlertInv, Trusted
<1>5. Fresh'
  <2>1. \A u \in User, t \in Ticker : Watches(u, t)' => Watches(u, t)
    BY <1>1 DEF Watches, Exists
  <2>2. \A t \in Ticker : cache[t] # None => Covers(cache[t].rows, t, cache[t].at)'
    BY <1>1, <2>1 DEF AlertInv, Fresh, Covers
  <2>3. phase # "idle" => alert.ticker \in Ticker
    BY DEF AlertInv, Shape, Alert
  <2>4. phase = "store" => Covers(rows, alert.ticker, calledAt)'
    BY <1>1, <2>1, <2>3 DEF AlertInv, Fresh, Covers
  <2>5. LongStandingAreServed'
    BY <1>1, <2>1, <2>3 DEF AlertInv, Fresh, LongStandingAreServed
  <2> QED
    BY <1>1, <2>2, <2>4, <2>5 DEF AlertInv, Fresh
<1> QED
  BY <1>2, <1>3, <1>4, <1>5 DEF AlertInv

LEMMA SaveHookKeeps ==
  ASSUME AlertInv, NEW u \in User, NEW h \in Hook \cup {None}, SaveHook(u, h)
  PROVE  AlertInv'
<1>1. /\ users' = [users EXCEPT ![u] = [hook |-> h, verified |-> FALSE]] /\ users[u] # None
      /\ testing' = testing /\ tested' = tested /\ dead' = dead
      /\ UNCHANGED <<now, watch, redisVars, cache, pipeVars, lastLive>>
  BY DEF SaveHook, SaveWith, Begins, Exists, history, userHistory
<1>2. [hook |-> h, verified |-> FALSE] \in Account
  BY DEF Account
<1>3. \A v \in User : users'[v] = IF v = u THEN [hook |-> h, verified |-> FALSE] ELSE users[v]
  BY <1>1 DEF AlertInv, Shape
<1>4. users' \in [User -> Account \cup {None}]
  BY <1>1, <1>2 DEF AlertInv, Shape
<1>5. (\A v \in User : users[v] # None /\ users[v].verified => Fit(v, users[v].hook))'
  BY <1>1, <1>3 DEF AlertInv, Trusted, Fit
<1>6. \A v \in User : users'[v] # None <=> users[v] # None
  BY <1>1, <1>2, <1>3, TimeFacts
<1>7. testing' \in [User -> Test \cup {None}]
  BY <1>1 DEF AlertInv, Shape
<1>8. \A v \in User : testing'[v] # None =>
        v \notin Guest /\ (testing'[v].ok => <<v, testing'[v].hook>> \in tested')
  BY <1>1 DEF AlertInv, Trusted
<1> QED
  BY <1>1, <1>4, <1>5, <1>6, <1>7, <1>8, HooksKeep

LEMMA TestHookKeeps ==
  ASSUME AlertInv, NEW u \in User, TestHook(u)
  PROVE  AlertInv'
<1> DEFINE e == [hook |-> users[u].hook, ok |-> FALSE]
<1>1. /\ u \notin Guest /\ users[u] # None /\ users[u].hook # None
      /\ testing' = [testing EXCEPT ![u] = e]
      /\ users' = users /\ tested' = tested /\ dead' = dead
      /\ UNCHANGED <<now, watch, redisVars, cache, pipeVars, lastLive>>
  BY DEF TestHook, Begins, Exists, dbVars, history, userHistory
<1>2. e \in Test /\ e.ok = FALSE
  BY <1>1 DEF AlertInv, Shape, Account, Test
<1> HIDE DEF e
<1>3. testing' \in [User -> Test \cup {None}] /\
      \A v \in User : testing'[v] = IF v = u THEN e ELSE testing[v]
  BY <1>1, <1>2 DEF AlertInv, Shape
<1>4. \A v \in User : testing'[v] # None =>
        v \notin Guest /\ (testing'[v].ok => <<v, testing'[v].hook>> \in tested')
  BY <1>1, <1>2, <1>3 DEF AlertInv, Trusted
<1>5. (\A v \in User : users[v] # None /\ users[v].verified => Fit(v, users[v].hook))'
  BY <1>1 DEF AlertInv, Trusted, Fit
<1>6. users' \in [User -> Account \cup {None}]
  BY <1>1 DEF AlertInv, Shape
<1> QED
  BY <1>1, <1>3, <1>4, <1>5, <1>6, HooksKeep

LEMMA TestSucceedsKeeps ==
  ASSUME AlertInv, NEW u \in User, TestSucceeds(u)
  PROVE  AlertInv'
<1>1. /\ testing[u] # None /\ testing' = [testing EXCEPT ![u].ok = TRUE]
      /\ tested' = tested \cup {<<u, testing[u].hook>>}
      /\ users' = users /\ dead' = dead
      /\ UNCHANGED <<now, watch, redisVars, cache, pipeVars, lastLive>>
  BY DEF TestSucceeds, dbVars
<1>2. /\ testing' \in [User -> Test \cup {None}] /\ testing'[u].hook = testing[u].hook
      /\ \A v \in User \ {u} : testing'[v] = testing[v]
  BY <1>1, TestPassed DEF AlertInv, Shape
<1>3. \A v \in User : testing'[v] # None =>
        v \notin Guest /\ (testing'[v].ok => <<v, testing'[v].hook>> \in tested')
  BY <1>1, <1>2 DEF AlertInv, Trusted
<1>4. (\A v \in User : users[v] # None /\ users[v].verified => Fit(v, users[v].hook))'
  BY <1>1 DEF AlertInv, Trusted, Fit
<1>5. users' \in [User -> Account \cup {None}]
  BY <1>1 DEF AlertInv, Shape
<1> QED
  BY <1>1, <1>2, <1>3, <1>4, <1>5, HooksKeep

\* The hook that was tested replaces what the account has by now; it is still
\* there, because guests, which alone are purged, do not test.
LEMMA TestWriteKeeps ==
  ASSUME AlertInv, NEW u \in User, TestWrite(u)
  PROVE  AlertInv'
<1> DEFINE a == [hook |-> testing[u].hook, verified |-> TRUE]
<1>1. /\ testing[u] # None /\ testing[u].ok
      /\ users' = [users EXCEPT ![u] = a] /\ testing' = [testing EXCEPT ![u] = None]
      /\ tested' = tested /\ dead' = dead \ {u}
      /\ UNCHANGED <<now, watch, redisVars, cache, pipeVars, lastLive>>
  BY DEF TestWrite
<1>2. /\ testing[u] \in Test /\ <<u, testing[u].hook>> \in tested
      /\ u \notin Guest /\ users[u] # None
  BY <1>1 DEF AlertInv, Shape, Trusted
<1>3. a \in Account /\ a.hook = testing[u].hook
  BY <1>2 DEF Account, Test
<1> HIDE DEF a
<1>4. users' \in [User -> Account \cup {None}] /\
      \A v \in User : users'[v] = IF v = u THEN a ELSE users[v]
  BY <1>1, <1>3 DEF AlertInv, Shape
<1>5. testing' \in [User -> Test \cup {None}] /\
      \A v \in User : testing'[v] = IF v = u THEN None ELSE testing[v]
  BY <1>1 DEF AlertInv, Shape
<1>6. \A v \in User : testing'[v] # None =>
        v \notin Guest /\ (testing'[v].ok => <<v, testing'[v].hook>> \in tested')
  BY <1>1, <1>5 DEF AlertInv, Trusted
<1>7. (\A v \in User : users[v] # None /\ users[v].verified => Fit(v, users[v].hook))'
  BY <1>1, <1>2, <1>3, <1>4 DEF AlertInv, Trusted, Fit
<1>8. \A v \in User : users'[v] # None <=> users[v] # None
  BY <1>2, <1>3, <1>4, TimeFacts
<1> QED
  BY <1>1, <1>4, <1>5, <1>6, <1>7, <1>8, HooksKeep

LEMMA SimulateKeeps ==
  ASSUME AlertInv, NEW t \in Ticker, Simulate(t)
  PROVE  AlertInv'
<1>1. /\ cooldown' = [k \in Ticker \X BOOLEAN |-> IF k \in {<<t, TRUE>>} THEN 0 ELSE cooldown[k]]
      /\ now' = now /\ users' = users /\ watch' = watch
      /\ cache' = cache /\ testing' = testing /\ lastLive' = lastLive /\ tested' = tested
      /\ dead' = dead /\ phase' = phase /\ alert' = alert /\ calledAt' = calledAt
      /\ rows' = rows /\ posting' = posting /\ served' = served
  BY DEF Simulate, SimulateWith, dbVars, pipeVars, webVars, history, userHistory
<1>2. Shape'
  <2>1. cooldown' \in [Ticker \X BOOLEAN -> Nat]
    BY <1>1 DEF AlertInv, Shape
  <2> QED
    BY <1>1, <2>1 DEF AlertInv, Shape
<1>3. Spaced'
  <2>1. \A x \in Ticker, sim \in BOOLEAN : ~ sim => cooldown'[<<x, sim>>] = cooldown[<<x, sim>>]
    <3> SUFFICES ASSUME NEW x \in Ticker, NEW sim \in BOOLEAN, ~ sim
                 PROVE  cooldown'[<<x, sim>>] = cooldown[<<x, sim>>]
      OBVIOUS
    <3>1. <<x, sim>> \in Ticker \X BOOLEAN /\ <<x, sim>> # <<t, TRUE>>
      OBVIOUS
    <3> QED
      BY <1>1, <3>1
  <2>2. phase # "idle" => alert.ticker \in Ticker /\ alert.simulated \in BOOLEAN
    BY DEF AlertInv, Shape, Alert
  <2> QED
    BY <1>1, <2>1, <2>2 DEF AlertInv, Spaced
<1>4. Trusted'
  BY <1>1 DEF AlertInv, Trusted, Sound, Fit
<1>5. Fresh'
  BY <1>1 DEF AlertInv, Fresh, Covers, Watches, Exists, LongStandingAreServed
<1> QED
  BY <1>2, <1>3, <1>4, <1>5 DEF AlertInv

LEMMA PurgeKeeps ==
  ASSUME AlertInv, NEW gone \in SUBSET Guest, PurgeGuests(gone)
  PROVE  AlertInv'
<1>1. /\ users' = [u \in User |-> IF u \in gone THEN None ELSE users[u]]
      /\ watch' = [e \in User \X Ticker |-> IF e[1] \in gone THEN None ELSE watch[e]]
      /\ served' = served \ gone
      /\ now' = now /\ cooldown' = cooldown
      /\ cache' = cache /\ testing' = testing /\ lastLive' = lastLive /\ tested' = tested
      /\ dead' = dead /\ phase' = phase /\ alert' = alert /\ calledAt' = calledAt
      /\ rows' = rows /\ posting' = posting
  BY DEF PurgeGuests, redisVars, webVars, history, userHistory
<1>2. /\ users' \in [User -> Account \cup {None}] /\ watch' \in [User \X Ticker -> Nat \cup {None}]
      /\ \A u \in User : users'[u] # None => u \notin gone /\ users'[u] = users[u]
      /\ \A u \in User \ Guest : users'[u] = users[u]
  BY <1>1 DEF AlertInv, Shape
<1>3. \A u \in User, t \in Ticker :
        Watches(u, t)' => u \notin gone /\ Watches(u, t) /\ watch'[<<u, t>>] = watch[<<u, t>>]
  <2> SUFFICES ASSUME NEW u \in User, NEW t \in Ticker, Watches(u, t)'
               PROVE  u \notin gone /\ Watches(u, t) /\ watch'[<<u, t>>] = watch[<<u, t>>]
    OBVIOUS
  <2>1. <<u, t>> \in User \X Ticker
    OBVIOUS
  <2>2. u \notin gone /\ users[u] # None
    BY <1>2 DEF Watches, Exists
  <2>3. watch'[<<u, t>>] = watch[<<u, t>>]
    BY <1>1, <2>1, <2>2
  <2> QED
    BY <2>2, <2>3 DEF Watches, Exists
<1>4. Shape'
  BY <1>1, <1>2 DEF AlertInv, Shape
<1>5. Spaced'
  BY <1>1 DEF AlertInv, Spaced
<1>6. Trusted'
  BY <1>1, <1>2 DEF AlertInv, Trusted, Sound, Fit
<1>7. Fresh'
  <2>1. \A t \in Ticker : cache[t] # None => Covers(cache[t].rows, t, cache[t].at)'
    BY <1>1, <1>3 DEF AlertInv, Fresh, Covers
  <2>2. phase # "idle" => alert.ticker \in Ticker
    BY DEF AlertInv, Shape, Alert
  <2>3. phase = "store" => Covers(rows, alert.ticker, calledAt)'
    BY <1>1, <1>3, <2>2 DEF AlertInv, Fresh, Covers
  <2>4. LongStandingAreServed'
    BY <1>1, <1>3, <2>2 DEF AlertInv, Fresh, LongStandingAreServed
  <2> QED
    BY <1>1, <2>1, <2>3, <2>4 DEF AlertInv, Fresh
<1> QED
  BY <1>4, <1>5, <1>6, <1>7 DEF AlertInv

\* What a request does to the cache or to its own progress alone.
LEMMA ProgressKeeps ==
  ASSUME AlertInv, NEW u \in User,
         \/ \E t \in Ticker : DropEntry(u, t)
         \/ \E kind \in {"slack", "test"} : ClearCache(u, kind)
         \/ TestFails(u)
  PROVE  AlertInv'
<1>1. UNCHANGED <<now, dbVars, cooldown, phase, alert, calledAt, rows, posting,
                  served, lastLive, tested, dead>>
  BY DEF DropEntry, ClearCache, TestFails, redisVars, pipeVars, history, userHistory
<1>2. CachePruned
  <2>1. cache \in [Ticker -> Entry \cup {None}]
    BY DEF AlertInv, Shape
  <2>2. \/ cache' = cache \/ cache' = [t \in Ticker |-> None]
        \/ \E t \in Ticker : cache' = [cache EXCEPT ![t] = None]
    BY DEF DropEntry, ClearCache, TestFails
  <2> QED
    BY <2>1, <2>2 DEF CachePruned
<1>3. TestsPruned
  <2>1. testing \in [User -> Test \cup {None}]
    BY DEF AlertInv, Shape
  <2>2. testing' = testing \/ testing' = [testing EXCEPT ![u] = None]
    BY DEF DropEntry, ClearCache, TestFails
  <2> QED
    BY <2>1, <2>2 DEF TestsPruned
<1> QED
  BY <1>1, <1>2, <1>3, FrameKeeps

LEMMA RequestKeeps ==
  ASSUME AlertInv, Request
  PROVE  AlertInv'
BY SetWatchlistKeeps, SaveHookKeeps, TestHookKeeps, TestSucceedsKeeps, TestWriteKeeps,
   SimulateKeeps, ProgressKeeps DEF Request

\* The inductive invariant of the alerts and their fan-out.
THEOREM AlertInvariant == Spec => []AlertInv
<1>1. AlertInv /\ [Next]_vars => AlertInv'
  <2>1. ASSUME AlertInv, Next PROVE AlertInv'
    BY <2>1, ElapseKeeps, PipelineStepKeeps, PipelineEndsKeep, RequestKeeps, PurgeKeeps DEF Next
  <2>2. ASSUME AlertInv, UNCHANGED vars PROVE AlertInv'
    BY <2>2, NothingPruned, FrameKeeps DEF vars, redisVars, pipeVars, webVars, history, userHistory
  <2> QED
    BY <2>1, <2>2
<1> QED
  BY <1>1, InitHolds, PTL DEF Spec

-----------------------------------------------------------------------------
\* Nothing is posted but live alerts, to hooks that their owners tested.
THEOREM PostsGoToTestedHooks == Spec => []OnlyTestedHooksArePosted
<1>1. AlertInv => OnlyTestedHooksArePosted
  BY DEF AlertInv, Shape, Trusted, Sound, Fit, OnlyTestedHooksArePosted
<1> QED
  BY <1>1, AlertInvariant, PTL

\* A hook that failed is not posted to again before a test succeeds.
THEOREM FailedHooksRest == Spec => []FailedHookIsLeftAlone
<1>1. AlertInv => FailedHookIsLeftAlone
  BY DEF AlertInv, Shape, Trusted, Sound, Fit, FailedHookIsLeftAlone
<1> QED
  BY <1>1, AlertInvariant, PTL

-----------------------------------------------------------------------------
(* The accounts whose delivery rows are refused.                           *)

\* The account was there at `since`.
Present(u, since) == users[u] # None \/ (goneAt[u] # None /\ goneAt[u] >= since)

\* Whoever is on a list was there when the list was asked for, and the list that a
\* fan-out uses was not asked for a cache lifetime before the alert.
Departures ==
  /\ goneAt \in [User -> Nat \cup {None}]
  /\ \A t \in Ticker : cache[t] # None => \A r \in cache[t].rows : Present(r.user, cache[t].at)
  /\ phase \in {"idle", "lookup", "read"} => rows = {}
  /\ phase \in {"read", "store"} => calledAt >= alert.at
  /\ phase = "store" => \A r \in rows : Present(r.user, calledAt)
  /\ phase # "idle" => \A r \in rows : Present(r.user, alert.at - SubTtl + 1)
  /\ \A t \in Ticker : lastLive[t] # None /\ lastLive[t].gone # None =>
       /\ goneAt[lastLive[t].gone] # None
       /\ goneAt[lastLive[t].gone] > lastLive[t].at - SubTtl

\* Accounts are deleted, at the time that is noted, and never come back.
Deleting ==
  /\ goneAt' \in [User -> Nat \cup {None}]
  /\ \A u \in User : goneAt'[u] = goneAt[u] \/ goneAt'[u] = now
  /\ \A u \in User : users[u] # None => users'[u] # None \/ goneAt'[u] = now

Stays(u, since) == users'[u] # None \/ (goneAt'[u] # None /\ goneAt'[u] >= since)

LEMMA PresentStays ==
  ASSUME AlertInv, Departures, Deleting
  PROVE  \A u \in User, since \in Int : since <= now /\ Present(u, since) => Stays(u, since)
<1>1. now \in Nat /\ now # None
  BY TimeFacts DEF AlertInv, Shape
<1> QED
  BY <1>1 DEF Present, Stays, Deleting, Departures

\* The times that the lists are measured by.
LEMMA ListTimes ==
  ASSUME AlertInv
  PROVE  /\ now \in Nat
         /\ \A t \in Ticker : cache[t] # None =>
              cache[t].at \in Int /\ cache[t].at <= now /\ cache[t].rows \subseteq Row
         /\ phase # "idle" => /\ alert \in Alert /\ alert.at \in Nat /\ alert.at <= now
                              /\ alert.at - SubTtl + 1 \in Int /\ alert.at - SubTtl + 1 <= now
         /\ phase \in {"read", "store"} => calledAt \in Nat /\ calledAt <= now
         /\ \A r \in rows : r.user \in User
         /\ \A t \in Ticker : lastLive[t] # None => lastLive[t].at \in Nat /\ lastLive[t].at <= now
<1>1. now \in Nat
  BY DEF AlertInv, Shape
<1>2. \A t \in Ticker : cache[t] # None =>
        cache[t].at \in Int /\ cache[t].at <= now /\ cache[t].rows \subseteq Row
  BY DEF AlertInv, Shape, Fresh, Entry
<1>3. phase # "idle" => alert \in Alert /\ alert.at \in Nat /\ alert.at <= now
  BY DEF AlertInv, Shape, Spaced, Alert
<1>4. phase # "idle" => alert.at - SubTtl + 1 \in Int /\ alert.at - SubTtl + 1 <= now
  BY <1>1, <1>3, TimeFacts
<1>5. phase \in {"read", "store"} => calledAt \in Nat /\ calledAt <= now
  BY DEF AlertInv, Shape, Fresh
<1>6. \A r \in rows : r.user \in User
  BY DEF AlertInv, Shape, Row
<1>7. \A t \in Ticker : lastLive[t] # None => lastLive[t].at \in Nat /\ lastLive[t].at <= now
  BY DEF AlertInv, Shape, Spaced, Ended
<1> QED
  BY <1>1, <1>2, <1>3, <1>4, <1>5, <1>6, <1>7

\* What has to hold of the lists after a step.
ListsStay ==
  /\ \A t \in Ticker : cache'[t] # None => \A r \in cache'[t].rows : Stays(r.user, cache'[t].at)
  /\ phase' \in {"idle", "lookup", "read"} => rows' = {}
  /\ phase' \in {"read", "store"} => calledAt' >= alert'.at
  /\ phase' = "store" => \A r \in rows' : Stays(r.user, calledAt')
  /\ phase' # "idle" => \A r \in rows' : Stays(r.user, alert'.at - SubTtl + 1)

NotesStay ==
  \A t \in Ticker : lastLive'[t] # None /\ lastLive'[t].gone # None =>
    /\ goneAt'[lastLive'[t].gone] # None
    /\ goneAt'[lastLive'[t].gone] > lastLive'[t].at - SubTtl

LEMMA DeparturesNext ==
  ASSUME Deleting, ListsStay, NotesStay
  PROVE  Departures'
BY DEF Deleting, ListsStay, NotesStay, Departures, Present, Stays

\* What was noted of an earlier alert stays.
LEMMA NoteStays ==
  ASSUME AlertInv, Departures, Deleting, NEW t \in Ticker, lastLive[t] # None,
         lastLive[t].gone # None
  PROVE  /\ goneAt'[lastLive[t].gone] # None
         /\ goneAt'[lastLive[t].gone] > lastLive[t].at - SubTtl
<1>1. lastLive[t].gone \in User /\ lastLive[t].at \in Nat /\ lastLive[t].at <= now /\ now \in Nat
  BY ListTimes DEF AlertInv, Shape, Ended
<1>2. now > lastLive[t].at - SubTtl /\ now # None
  BY <1>1, TimeFacts
<1> QED
  BY <1>1, <1>2 DEF Departures, Deleting

LEMMA SameNotes ==
  ASSUME AlertInv, Departures, Deleting, UNCHANGED lastLive
  PROVE  NotesStay
BY NoteStays DEF NotesStay

\* Cached lists that remain are still of accounts that were there.
LEMMA CachedStay ==
  ASSUME AlertInv, Departures, Deleting, NEW t \in Ticker, cache[t] # None
  PROVE  \A r \in cache[t].rows : Stays(r.user, cache[t].at)
<1> SUFFICES ASSUME NEW r \in cache[t].rows PROVE Stays(r.user, cache[t].at)
  OBVIOUS
<1>1. Present(r.user, cache[t].at) /\ r.user \in User /\ cache[t].at \in Int /\ cache[t].at <= now
  BY ListTimes DEF Departures, Row
<1> QED
  BY <1>1, PresentStays

\* So are the rows of the fan-out.
LEMMA RowsStay ==
  ASSUME AlertInv, Departures, Deleting, phase # "idle", NEW r \in rows
  PROVE  /\ Stays(r.user, alert.at - SubTtl + 1)
         /\ phase = "store" => Stays(r.user, calledAt)
<1>1. /\ Present(r.user, alert.at - SubTtl + 1) /\ r.user \in User
      /\ alert.at - SubTtl + 1 \in Int /\ alert.at - SubTtl + 1 <= now
  BY ListTimes DEF Departures
<1>2. phase = "store" => Present(r.user, calledAt) /\ calledAt \in Int /\ calledAt <= now
  BY ListTimes DEF Departures
<1> QED
  BY <1>1, <1>2, PresentStays

\* The cache loses entries, and the pipeline stays where it was or goes on with
\* fewer rows.
LEMMA SameFanOut ==
  ASSUME AlertInv, Departures, Deleting,
         \A t \in Ticker : cache'[t] # None => cache'[t] = cache[t],
         rows' \subseteq rows,
         \/ phase' = phase
         \/ phase \in {"deliver", "post"} /\ phase' \in {"deliver", "post"},
         UNCHANGED <<alert, calledAt, lastLive>>
  PROVE  Departures'
<1>1. /\ phase' \in {"idle", "lookup", "read"} => rows' = {}
      /\ phase' \in {"read", "store"} => calledAt' >= alert'.at
  BY DEF Departures
<1>2. /\ phase' = "store" => \A r \in rows' : Stays(r.user, calledAt')
      /\ phase' # "idle" => \A r \in rows' : Stays(r.user, alert'.at - SubTtl + 1)
  BY RowsStay
<1>3. \A t \in Ticker : cache'[t] # None =>
        \A r \in cache'[t].rows : Stays(r.user, cache'[t].at)
  <2> SUFFICES ASSUME NEW t \in Ticker, cache'[t] # None
               PROVE  \A r \in cache'[t].rows : Stays(r.user, cache'[t].at)
    OBVIOUS
  <2>1. cache'[t] = cache[t] /\ cache[t] # None
    OBVIOUS
  <2>2. \A r \in cache[t].rows : Stays(r.user, cache[t].at)
    BY <2>1, CachedStay
  <2> QED
    BY <2>1, <2>2
<1> QED
  BY <1>1, <1>2, <1>3, SameNotes, DeparturesNext DEF ListsStay

\* A fan-out ends: the account that ended it, if one did, had gone.
LEMMA FanOutEnds ==
  ASSUME AlertInv, Departures, Deleting,
         \A t \in Ticker : cache'[t] # None => cache'[t] = cache[t],
         NEW sent \in BOOLEAN, NEW gone \in User \cup {None}, EndFanOut(sent, gone),
         gone # None => /\ phase # "idle" /\ users'[gone] = None
                        /\ Stays(gone, alert.at - SubTtl + 1)
  PROVE  Departures'
<1>1. phase' = "idle" /\ rows' = {}
  BY DEF EndFanOut
<1>2. \A t \in Ticker : cache'[t] # None =>
        \A r \in cache'[t].rows : Stays(r.user, cache'[t].at)
  <2> SUFFICES ASSUME NEW t \in Ticker, cache'[t] # None
               PROVE  \A r \in cache'[t].rows : Stays(r.user, cache'[t].at)
    OBVIOUS
  <2>1. cache'[t] = cache[t] /\ cache[t] # None
    OBVIOUS
  <2>2. \A r \in cache[t].rows : Stays(r.user, cache[t].at)
    BY <2>1, CachedStay
  <2> QED
    BY <2>1, <2>2
<1>3. NotesStay
  <2> SUFFICES ASSUME NEW t \in Ticker, lastLive'[t] # None, lastLive'[t].gone # None
               PROVE  /\ goneAt'[lastLive'[t].gone] # None
                      /\ goneAt'[lastLive'[t].gone] > lastLive'[t].at - SubTtl
    BY DEF NotesStay
  <2>1. CASE lastLive'[t] = lastLive[t]
    BY <2>1, NoteStays
  <2>2. CASE lastLive'[t].at = alert.at /\ lastLive'[t].gone = gone
    <3>1. phase # "idle" /\ goneAt'[gone] # None /\ goneAt'[gone] >= alert.at - SubTtl + 1
      BY <2>2 DEF Stays
    <3>2. gone \in User /\ goneAt'[gone] \in Nat /\ alert.at \in Nat
      BY <2>2, <3>1, ListTimes DEF Deleting
    <3> QED
      BY <2>2, <3>1, <3>2, TimeFacts
  <2> QED
    BY <2>1, <2>2, EndNoted
<1> QED
  BY <1>1, <1>2, <1>3, DeparturesNext DEF ListsStay

\* Only the purge deletes accounts; other steps may change their hooks.
LEMMA AccountsRemain ==
  ASSUME AlertInv, Departures, \A u \in User : users[u] # None => users'[u] # None,
         UNCHANGED goneAt
  PROVE  Deleting
BY DEF Departures, Deleting

LEMMA PipelineDeletes ==
  ASSUME AlertInv, Departures, PipelineStep \/ PipelineRaises \/ Restart
  PROVE  Deleting
<1>1. CASE PostFails
  <2> DEFINE u == posting.user
  <2>1. /\ users' = IF Exists(u) THEN [users EXCEPT ![u].verified = FALSE] ELSE users
        /\ goneAt' = goneAt
    BY <1>1 DEF PostFails, PostFailsWith
  <2>2. u \in User /\ users \in [User -> Account \cup {None}]
    BY <1>1 DEF PostFails, PostFailsWith, AlertInv, Shape, Row
  <2>3. \A v \in User : users[v] # None => users'[v] # None
    <3>1. CASE Exists(u)
      <4>1. users'[u] \in Account /\ \A v \in User \ {u} : users'[v] = users[v]
        BY <2>1, <2>2, <3>1, Unverified DEF Exists
      <4> QED
        BY <4>1, TimeFacts
    <3>2. CASE ~ Exists(u)
      BY <2>1, <3>2
    <3> QED
      BY <3>1, <3>2
  <2> QED
    BY <2>1, <2>3, AccountsRemain
<1>2. CASE UNCHANGED <<users, goneAt>>
  BY <1>2, AccountsRemain
<1>3. PostFails \/ UNCHANGED <<users, goneAt>>
  BY DEF PipelineStep, PipelineRaises, Restart, Evaluate, LookupHit, LookupMiss, ReadSubscribers,
         LookupFails, StoreSubscribers, StoreWith, RecordOnly, StartPost, PostSucceeds,
         PostFailsUnnoticed, MarkSent, dbVars, history, userHistory
<1> QED
  BY <1>1, <1>2, <1>3

LEMMA RequestDeletes ==
  ASSUME AlertInv, Departures, Request
  PROVE  Deleting
<1>1. CASE \E u \in User : \E h \in Hook \cup {None} : SaveHook(u, h)
  <2>1. PICK u \in User, h \in Hook \cup {None} : SaveHook(u, h)
    BY <1>1
  <2>2. /\ users' = [users EXCEPT ![u] = [hook |-> h, verified |-> FALSE]] /\ goneAt' = goneAt
        /\ [hook |-> h, verified |-> FALSE] \in Account
    BY <2>1 DEF SaveHook, SaveWith, history, userHistory, Account
  <2>3. \A v \in User : users[v] # None => users'[v] # None
    BY <2>2, TimeFacts DEF AlertInv, Shape
  <2> QED
    BY <2>2, <2>3, AccountsRemain
<1>2. CASE \E u \in User : TestWrite(u)
  <2>1. PICK u \in User : TestWrite(u)
    BY <1>2
  <2>2. /\ users' = [users EXCEPT ![u] = [hook |-> testing[u].hook, verified |-> TRUE]]
        /\ goneAt' = goneAt /\ testing[u] # None
    BY <2>1 DEF TestWrite
  <2>3. [hook |-> testing[u].hook, verified |-> TRUE] \in Account
    BY <2>2 DEF AlertInv, Shape, Test, Account
  <2>4. \A v \in User : users[v] # None => users'[v] # None
    BY <2>2, <2>3, TimeFacts DEF AlertInv, Shape
  <2> QED
    BY <2>2, <2>4, AccountsRemain
<1>3. CASE UNCHANGED <<users, goneAt>>
  BY <1>3, AccountsRemain
<1>4. \/ \E u \in User : \E h \in Hook \cup {None} : SaveHook(u, h)
      \/ \E u \in User : TestWrite(u)
      \/ UNCHANGED <<users, goneAt>>
  BY DEF Request, SetWatchlist, DropEntry, TestHook, TestFails, TestSucceeds, ClearCache, Simulate,
         SimulateWith, dbVars, history, userHistory
<1> QED
  BY <1>1, <1>2, <1>3, <1>4

LEMMA PurgeDeletes ==
  ASSUME AlertInv, Departures, NEW gone \in SUBSET Guest, PurgeGuests(gone)
  PROVE  Deleting
<1>1. /\ users' = [u \in User |-> IF u \in gone THEN None ELSE users[u]]
      /\ goneAt' = [u \in User |-> IF u \in gone THEN now ELSE goneAt[u]]
  BY DEF PurgeGuests
<1>2. now \in Nat /\ goneAt \in [User -> Nat \cup {None}]
  BY DEF AlertInv, Shape, Departures
<1> QED
  BY <1>1, <1>2 DEF Deleting

\* The lookups: a cached list is younger than its lifetime, and one that is read is
\* of accounts that are there.
LEMMA LookupDepartures ==
  ASSUME AlertInv, Departures, Deleting, LookupHit \/ LookupMiss \/ ReadSubscribers \/ LookupFails
  PROVE  Departures'
<1>1. cache' = cache /\ alert' = alert /\ lastLive' = lastLive /\ now' = now
  BY DEF LookupHit, LookupMiss, ReadSubscribers, LookupFails, history
<1>2. \A t \in Ticker : cache'[t] # None =>
        \A r \in cache'[t].rows : Stays(r.user, cache'[t].at)
  BY <1>1, CachedStay
<1>3. /\ phase \in {"lookup", "read"} /\ alert.at \in Nat /\ alert.at <= now /\ now \in Nat
      /\ alert.ticker \in Ticker /\ rows = {}
  <2>1. phase \in {"lookup", "read"}
    BY DEF LookupHit, LookupMiss, ReadSubscribers, LookupFails
  <2> QED
    BY <2>1, ListTimes DEF Departures, Alert
<1>4. CASE LookupHit
  <2> DEFINE t == alert.ticker
  <2>1. /\ phase' = "deliver" /\ rows' = cache[t].rows /\ cache[t] # None
        /\ now - cache[t].at < SubTtl
    BY <1>4 DEF LookupHit, Cached
  <2>2. cache[t].at \in Int /\ cache[t].at >= alert.at - SubTtl + 1
    BY <1>3, <2>1, ListTimes, TimeFacts
  <2>3. \A r \in rows' : Stays(r.user, cache[t].at) /\ r.user \in User
    BY <1>3, <2>1, CachedStay, ListTimes DEF Row
  <2>4. \A r \in rows' : Stays(r.user, alert.at - SubTtl + 1)
    <3> SUFFICES ASSUME NEW r \in rows' PROVE Stays(r.user, alert.at - SubTtl + 1)
      OBVIOUS
    <3>1. goneAt'[r.user] \in Nat \cup {None} /\ Stays(r.user, cache[t].at)
      BY <2>3 DEF Deleting
    <3> QED
      BY <1>3, <2>2, <3>1, TimeFacts DEF Stays
  <2>5. ListsStay
    BY <1>1, <1>2, <2>1, <2>4 DEF ListsStay
  <2> QED
    BY <1>1, <2>5, SameNotes, DeparturesNext
<1>5. CASE LookupMiss
  <2>1. phase' = "read" /\ rows' = {} /\ calledAt' = now
    BY <1>3, <1>5 DEF LookupMiss
  <2>2. ListsStay
    BY <1>1, <1>2, <1>3, <2>1 DEF ListsStay
  <2> QED
    BY <1>1, <2>2, SameNotes, DeparturesNext
<1>6. CASE ReadSubscribers
  <2>1. /\ phase = "read" /\ phase' = "store" /\ rows' = RowsFor(alert.ticker)
        /\ calledAt' = calledAt /\ users' = users
    BY <1>6 DEF ReadSubscribers, dbVars
  <2>2. \A r \in rows' : users'[r.user] # None
    BY <2>1, RowsForFacts DEF AlertInv
  <2>3. calledAt >= alert.at
    BY <2>1 DEF Departures
  <2>4. ListsStay
    BY <1>1, <1>2, <2>1, <2>2, <2>3 DEF ListsStay, Stays
  <2> QED
    BY <1>1, <2>4, SameNotes, DeparturesNext
<1>7. CASE LookupFails
  <2>1. phase' = "deliver" /\ rows' = {}
    BY <1>3, <1>7 DEF LookupFails
  <2>2. ListsStay
    BY <1>1, <1>2, <2>1 DEF ListsStay
  <2> QED
    BY <1>1, <2>2, SameNotes, DeparturesNext
<1> QED
  BY <1>4, <1>5, <1>6, <1>7

LEMMA StoreDepartures ==
  ASSUME AlertInv, Departures, Deleting, StoreSubscribers
  PROVE  Departures'
<1> DEFINE t == alert.ticker
           e == [at |-> calledAt, rows |-> rows]
<1>1. /\ phase = "store" /\ phase' = "deliver" /\ cache' = [cache EXCEPT ![t] = e]
      /\ alert' = alert /\ calledAt' = calledAt /\ rows' = rows /\ lastLive' = lastLive
  BY DEF StoreSubscribers, StoreWith, history
<1>2. e.at = calledAt /\ e.rows = rows
  OBVIOUS
<1> HIDE DEF e
<1>3. \A s \in Ticker : cache'[s] = IF s = t THEN e ELSE cache[s]
  BY <1>1 DEF AlertInv, Shape
<1>4. \A r \in rows : Stays(r.user, calledAt) /\ Stays(r.user, alert.at - SubTtl + 1)
  BY <1>1, RowsStay
<1>5. \A s \in Ticker : cache'[s] # None =>
        \A r \in cache'[s].rows : Stays(r.user, cache'[s].at)
  <2> SUFFICES ASSUME NEW s \in Ticker, cache'[s] # None
               PROVE  \A r \in cache'[s].rows : Stays(r.user, cache'[s].at)
    OBVIOUS
  <2>1. CASE s = t
    BY <1>2, <1>3, <1>4, <2>1
  <2>2. CASE s # t
    <3>1. cache'[s] = cache[s] /\ cache[s] # None
      BY <1>3, <2>2
    <3>2. \A r \in cache[s].rows : Stays(r.user, cache[s].at)
      BY <3>1, CachedStay
    <3> QED
      BY <3>1, <3>2
  <2> QED
    BY <2>1, <2>2
<1>6. ListsStay
  BY <1>1, <1>4, <1>5 DEF ListsStay
<1> QED
  BY <1>1, <1>6, SameNotes, DeparturesNext

\* A refused delivery row: its account had gone.
LEMMA RecordDepartures ==
  ASSUME AlertInv, Departures, Deleting, phase \in {"deliver", "post"}, NEW r \in rows, Record(r),
         users[r.user] = None => users'[r.user] = None,
         \A t \in Ticker : cache'[t] # None => cache'[t] = cache[t]
  PROVE  Departures'
<1>1. r.user \in User /\ Stays(r.user, alert.at - SubTtl + 1)
  BY ListTimes, RowsStay
<1>2. CASE Exists(r.user)
  BY <1>2, SameFanOut DEF Record
<1>3. CASE ~ Exists(r.user)
  BY <1>1, <1>3, FanOutEnds DEF Record, Exists
<1> QED
  BY <1>2, <1>3

LEMMA PipelineDepartures ==
  ASSUME AlertInv, Departures, PipelineStep
  PROVE  Departures'
<1>0. Deleting
  BY PipelineDeletes
<1>1. ASSUME NEW t \in Ticker, NEW real \in BOOLEAN, NEW sim \in BOOLEAN, Evaluate(t, real, sim)
      PROVE  Departures'
  <2>1. cache' = cache /\ lastLive' = lastLive
    BY <1>1 DEF Evaluate
  <2>2. CASE UNCHANGED pipeVars
    BY <1>0, <2>1, <2>2, SameFanOut DEF pipeVars
  <2>3. CASE phase = "idle" /\ phase' = "lookup" /\ UNCHANGED rows
    <3>1. rows' = {}
      BY <2>3 DEF Departures
    <3>2. \A x \in Ticker : cache'[x] # None =>
            \A r \in cache'[x].rows : Stays(r.user, cache'[x].at)
      BY <1>0, <2>1, CachedStay
    <3>3. ListsStay
      BY <2>3, <3>1, <3>2 DEF ListsStay
    <3> QED
      BY <1>0, <2>1, <3>3, SameNotes, DeparturesNext
  <2> QED
    BY <1>1, <2>2, <2>3 DEF Evaluate
<1>2. CASE LookupHit \/ LookupMiss \/ ReadSubscribers \/ LookupFails
  BY <1>0, <1>2, LookupDepartures
<1>3. CASE StoreSubscribers
  BY <1>0, <1>3, StoreDepartures
<1>4. ASSUME NEW r \in rows, RecordOnly(r) PROVE Departures'
  BY <1>0, <1>4, RecordDepartures DEF RecordOnly, dbVars
<1>5. ASSUME NEW r \in rows, StartPost(r) PROVE Departures'
  BY <1>0, <1>5, SameFanOut DEF StartPost, history
<1>6. CASE PostSucceeds \/ PostFailsUnnoticed \/ PostFails
  <2>1. /\ phase = "post" /\ posting \in rows /\ Record(posting)
        /\ users[posting.user] = None => users'[posting.user] = None
        /\ \A t \in Ticker : cache'[t] # None => cache'[t] = cache[t]
    BY <1>6 DEF PostSucceeds, PostFailsUnnoticed, PostFails, PostFailsWith, Exists, dbVars, AlertInv, Shape
  <2> QED
    BY <1>0, <2>1, RecordDepartures
<1>7. CASE MarkSent
  <2>1. EndFanOut(TRUE, None) /\ cache' = cache
    BY <1>7 DEF MarkSent
  <2> QED
    BY <1>0, <2>1, FanOutEnds
<1> QED
  BY <1>1, <1>2, <1>3, <1>4, <1>5, <1>6, <1>7 DEF PipelineStep

\* The steps of everybody else leave the fan-out alone, or end it.
LEMMA DeparturesStep ==
  ASSUME AlertInv, Departures, [Next]_vars
  PROVE  Departures'
<1>1. CASE PipelineStep
  BY <1>1, PipelineDepartures
<1>2. CASE PipelineRaises \/ Restart
  <2>1. EndFanOut(FALSE, None) /\ \A t \in Ticker : cache'[t] # None => cache'[t] = cache[t]
    BY <1>2 DEF PipelineRaises, Restart
  <2> QED
    BY <1>2, <2>1, PipelineDeletes, FanOutEnds
<1>3. CASE Request
  <2>1. /\ \A t \in Ticker : cache'[t] # None => cache'[t] = cache[t]
        /\ UNCHANGED <<phase, alert, calledAt, rows, lastLive>>
    BY <1>3 DEF Request, SetWatchlist, DropEntry, SaveHook, SaveWith, TestHook, TestFails,
                TestSucceeds, TestWrite, ClearCache, Simulate, SimulateWith, pipeVars, history,
                AlertInv, Shape
  <2> QED
    BY <1>3, <2>1, RequestDeletes, SameFanOut
<1>4. ASSUME NEW gone \in SUBSET Guest, PurgeGuests(gone) PROVE Departures'
  BY <1>4, PurgeDeletes, SameFanOut DEF PurgeGuests
<1>5. CASE Elapse \/ UNCHANGED vars
  <2>1. UNCHANGED <<users, goneAt, cache, phase, alert, calledAt, rows, lastLive>>
    BY <1>5 DEF Elapse, vars, dbVars, pipeVars, history, userHistory
  <2> QED
    BY <2>1, AccountsRemain, SameFanOut
<1> QED
  BY <1>1, <1>2, <1>3, <1>4, <1>5 DEF Next

\* The live alerts of a company are a cooldown apart, but for those whose fan-out
\* an exception ended, and a missing account ends one only soon after it has gone.
THEOREM LiveAlertsKeepApart == Spec => []LiveAlertsAreSpaced
<1>1. Init => Departures
  BY DEF Init, Departures
<1>2. AlertInv /\ Departures /\ [Next]_vars => Departures'
  BY DeparturesStep
<1>3. AlertInv /\ Departures => LiveAlertsAreSpaced
  <2> SUFFICES ASSUME AlertInv, Departures PROVE LiveAlertsAreSpaced
    OBVIOUS
  <2>1. ASSUME alert # None, ~ alert.simulated, lastLive[alert.ticker] # None,
               lastLive[alert.ticker].sent
        PROVE  alert.at >= lastLive[alert.ticker].at + Cooldown
    <3> DEFINE t == alert.ticker
    <3>1. phase # "idle" /\ t \in Ticker /\ alert.simulated \in BOOLEAN /\ alert.at \in Nat
      BY <2>1 DEF AlertInv, Shape, Alert
    <3>2. /\ alert.at >= cooldown[<<t, alert.simulated>>]
          /\ cooldown[<<t, alert.simulated>>] >= lastLive[t].at + Cooldown
      BY <2>1, <3>1 DEF AlertInv, Spaced
    <3>3. cooldown[<<t, alert.simulated>>] \in Nat
      BY <3>1, CooldownType DEF AlertInv
    <3>4. lastLive[t].at + Cooldown \in Nat
      BY <2>1, <3>1, ListTimes, TimeFacts
    <3> QED
      BY <3>1, <3>2, <3>3, <3>4
  <2>2. \A t \in Ticker : lastLive[t] # None /\ lastLive[t].gone # None =>
          goneAt[lastLive[t].gone] > lastLive[t].at - SubTtl
    BY DEF Departures
  <2> QED
    BY <2>1, <2>2 DEF LiveAlertsAreSpaced
<1> QED
  BY <1>1, <1>2, <1>3, AlertInvariant, PTL DEF Spec

\* No one who has long been watching is left out of a fan-out.
THEOREM LongStandingSubscribersAreServed == Spec => []LongStandingAreServed
<1>1. AlertInv => LongStandingAreServed
  BY DEF AlertInv, Fresh
<1> QED
  BY <1>1, AlertInvariant, PTL
=============================================================================
