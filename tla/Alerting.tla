------------------------------ MODULE Alerting ------------------------------
(***************************************************************************)
(* Alerts and their fan-out (riskcore.alerting, evaluate_and_alert in      *)
(* riskcore.stages), with the requests of the web application that change  *)
(* what the fan-out reads: watchlists, Slack hooks, simulations, the purge *)
(* of old guests.                                                          *)
(*                                                                         *)
(* One pipeline thread evaluates windows one after the other.  Requests    *)
(* run concurrently with it and with each other, one database transaction, *)
(* cache operation or Slack call at a time.                                *)
(***************************************************************************)
EXTENDS Integers, FiniteSets

CONSTANTS
  User, Guest,   \* accounts, and those of them that are guests
  Ticker, Hook,  \* companies; Slack webhook URLs
  None,
  SubTtl,        \* lifetime of a cached subscriber list (_SUB_TTL)
  Cooldown,      \* ALERT_COOLDOWN_MINUTES
  SharedCache,   \* the pipeline runs in the web application's process
  MaxTime,       \* bound: clock ticks of a behaviour
  MaxAlerts,     \* bound: alerts
  MaxRequests,   \* bound: requests that change something
  MaxFaults      \* bound: exceptions and restarts of the pipeline

Account == [hook : Hook \cup {None}, verified : BOOLEAN]

ASSUME AccountAssumption ==
  /\ Guest \subseteq User
  /\ None \notin Hook /\ None \notin Int /\ None \notin Account /\ None \notin User
ASSUME TimeAssumption == SubTtl \in Nat \ {0} /\ Cooldown \in Nat \ {0} /\ SharedCache \in BOOLEAN
ASSUME BoundAssumption ==
  MaxTime \in Nat /\ MaxAlerts \in Nat /\ MaxRequests \in Nat /\ MaxFaults \in Nat

VARIABLES
  now,
  users,       \* table users: the hook of every account, or None when deleted
  watch,       \* table watchlists: added_at of every entry, or None
  cooldown,    \* alert:last_sent: when the key of a ticker, live or simulated, lapses
  cache,       \* _sub_cache of the pipeline's process
  phase,       \* the pipeline: "idle", "lookup", "read", "store", "deliver" or "post"
  alert,       \* the alert being fanned out
  calledAt,    \* when subscribers_for was called, None when it failed
  rows,        \* subscribers not yet served
  posting,     \* the subscriber whose hook is being posted to
  owed,        \* tickers a request has yet to drop from the cache
  testing,     \* the Slack test of a user under way, or None
  simulated,   \* tickers with simulated articles in their windows
  count,       \* alerts, requests and faults so far
  served,      \* table deliveries: who has a row for the current alert
  skipped,     \* history: subscribers a fan-out that raised left without a row
  missed,      \* history: tickers whose real news should have alerted and did not
  lastLive,    \* history: how the fan-out of the last live alert of a ticker ended
  goneAt,      \* history: when an account was deleted
  tested,      \* history: hooks a user tested successfully
  dead         \* history: users un-verified by a failed post and not tested successfully since

dbVars == <<users, watch>>
redisVars == <<cooldown, simulated>>
pipeVars == <<phase, alert, calledAt, rows, posting, served>>
webVars == <<owed, testing>>
userHistory == <<goneAt, tested, dead>>
history == <<skipped, missed, lastLive, userHistory>>
vars == <<now, dbVars, redisVars, cache, pipeVars, webVars, count, history>>

-----------------------------------------------------------------------------
Row == [user : User, hook : Hook \cup {None}, verified : BOOLEAN]
Alert == [ticker : Ticker, simulated : BOOLEAN, at : Nat]
Requests == {"watchlist", "slack", "test"}
Counter == {"alerts", "requests", "faults"}

Exists(u) == users[u] # None
Watches(u, t) == Exists(u) /\ watch[<<u, t>>] # None

Counted(c, max) == count[c] < max /\ count' = [count EXCEPT ![c] = @ + 1]

\* The join of users and watchlists that subscribers_for reads.
RowsFor(t) ==
  {[user |-> u, hook |-> users[u].hook, verified |-> users[u].verified] :
     u \in {v \in User : Watches(v, t)}}

Init ==
  /\ now = 0
  /\ users = [u \in User |-> [hook |-> None, verified |-> FALSE]]
  /\ watch = [e \in User \X Ticker |-> None]
  /\ cooldown = [k \in Ticker \X BOOLEAN |-> 0]
  /\ cache = [t \in Ticker |-> None]
  /\ phase = "idle" /\ alert = None /\ calledAt = None
  /\ rows = {} /\ posting = None /\ served = {}
  /\ owed = [r \in User \X Requests |-> {}] /\ testing = [u \in User |-> None]
  /\ simulated = {} /\ count = [c \in Counter |-> 0]
  /\ skipped = {} /\ missed = {} /\ lastLive = [t \in Ticker |-> None]
  /\ goneAt = [u \in User |-> None] /\ tested = {} /\ dead = {}

Elapse ==
  /\ now < MaxTime /\ now' = now + 1
  /\ UNCHANGED <<dbVars, redisVars, cache, pipeVars, webVars, count, history>>

-----------------------------------------------------------------------------
\* The pipeline.

InCooldown(t, sim) == now < cooldown[<<t, sim>>]

\* evaluate_and_alert on a window over its baseline.  One simulated article makes
\* the whole window simulated; "real" says that its real news alone is over the
\* baseline.  Outside the cooldown the alert is written and its fan-out begins.
Evaluate(t, real, sim) ==
  /\ phase = "idle"
  /\ real \/ sim
  /\ sim => t \in simulated
  /\ missed' = IF real /\ sim /\ ~ InCooldown(t, FALSE) THEN missed \cup {t} ELSE missed
  /\ IF InCooldown(t, sim)
     THEN UNCHANGED <<count, pipeVars>>
     ELSE /\ Counted("alerts", MaxAlerts)
          /\ alert' = [ticker |-> t, simulated |-> sim, at |-> now]
          /\ phase' = "lookup" /\ served' = {}
          /\ UNCHANGED <<calledAt, rows, posting>>
  /\ UNCHANGED <<now, dbVars, redisVars, cache, webVars, skipped, lastLive, userHistory>>

\* An entry younger than its lifetime answers the lookup.
Cached(t) == cache[t] # None /\ now - cache[t].at < SubTtl

\* subscribers_for, served from the cache.
LookupHit ==
  /\ phase = "lookup"
  /\ Cached(alert.ticker)
  /\ rows' = cache[alert.ticker].rows
  /\ calledAt' = now /\ phase' = "deliver"
  /\ UNCHANGED <<now, dbVars, redisVars, cache, alert, posting, served, webVars, count, history>>

\* On a miss the clock has been read before the transaction begins.
LookupMiss ==
  /\ phase = "lookup"
  /\ ~ Cached(alert.ticker)
  /\ calledAt' = now /\ phase' = "read"
  /\ UNCHANGED <<now, dbVars, redisVars, cache, alert, rows, posting, served, webVars, count, history>>

ReadSubscribers ==
  /\ phase = "read"
  /\ rows' = RowsFor(alert.ticker) /\ phase' = "store"
  /\ UNCHANGED <<now, dbVars, redisVars, cache, alert, calledAt, posting, served, webVars, count, history>>

\* The transaction fails: nobody is told, and the alert goes on.
LookupFails ==
  /\ phase = "read" /\ Counted("faults", MaxFaults)
  /\ calledAt' = None /\ phase' = "deliver"
  /\ UNCHANGED <<now, dbVars, redisVars, cache, alert, rows, posting, served, webVars, history>>

StoreWith(at) ==
  /\ phase = "store"
  /\ cache' = [cache EXCEPT ![alert.ticker] = [at |-> at, rows |-> rows]]
  /\ phase' = "deliver"
  /\ UNCHANGED <<now, dbVars, redisVars, alert, calledAt, rows, posting, served, webVars, count, history>>

\* Mutant of StoreSubscribers: the entry is stamped when it is stored.
StoreStampedLate == StoreWith(now)

\* The cache entry carries the time of the call, not of the read.
StoreSubscribers == StoreWith(calledAt)

\* evaluate_and_alert is left, by its end or by an exception the engine logs: of a
\* live alert the history keeps whether it was marked sent and, when the delivery
\* row of an account that is gone ended it, which account that was.
EndFanOut(sent, gone) ==
  /\ phase' = "idle" /\ alert' = None /\ calledAt' = None
  /\ rows' = {} /\ posting' = None /\ served' = {}
  /\ lastLive' = IF alert = None \/ alert.simulated THEN lastLive
                 ELSE [lastLive EXCEPT ![alert.ticker] =
                         [at |-> alert.at, sent |-> sent, gone |-> gone]]

\* record_delivery: its foreign key refuses a row for an account that is gone.
Record(r) ==
  IF Exists(r.user)
  THEN /\ served' = served \cup {r.user}
       /\ rows' = rows \ {r}
       /\ phase' = "deliver" /\ posting' = None
       /\ UNCHANGED <<alert, calledAt, skipped, lastLive>>
  ELSE /\ skipped' = skipped \cup {q.user : q \in {p \in rows : Exists(p.user)}}
       /\ EndFanOut(FALSE, r.user)

\* Only a live alert to a verified hook leaves the server.
Posts(r) == r.hook # None /\ ~ alert.simulated /\ r.verified

RecordOnly(r) ==
  /\ phase = "deliver" /\ r \in rows
  /\ ~ Posts(r)
  /\ Record(r)
  /\ UNCHANGED <<now, dbVars, redisVars, cache, webVars, count, missed, userHistory>>

\* send_to_slack: from here to PostSucceeds or PostFails are its retries.
StartPost(r) ==
  /\ phase = "deliver" /\ r \in rows
  /\ Posts(r)
  /\ phase' = "post" /\ posting' = r
  /\ UNCHANGED <<now, dbVars, redisVars, cache, alert, calledAt, rows, served, webVars, count, history>>

PostSucceeds ==
  /\ phase = "post"
  /\ Record(posting)
  /\ UNCHANGED <<now, dbVars, redisVars, cache, webVars, count, missed, userHistory>>

PostFailsWith(dropped) ==
  /\ phase = "post"
  /\ users' = IF Exists(posting.user)
              THEN [users EXCEPT ![posting.user].verified = FALSE] ELSE users
  /\ cache' = [t \in Ticker |-> IF t \in dropped THEN None ELSE cache[t]]
  /\ dead' = dead \cup {posting.user}
  /\ Record(posting)
  /\ UNCHANGED <<now, watch, redisVars, webVars, count, missed, goneAt, tested>>

\* Mutant of PostFails: the cache keeps the hook that was just unverified.
PostFailsCached == PostFailsWith({})

\* unverify_webhook looks at the account, not at the hook that failed, and clears
\* the cache of its own process.
PostFails == PostFailsWith(Ticker)

\* The transaction of unverify_webhook fails: logged, and the hook stays verified.
PostFailsUnnoticed ==
  /\ phase = "post" /\ Counted("faults", MaxFaults)
  /\ Record(posting)
  /\ UNCHANGED <<now, dbVars, redisVars, cache, webVars, missed, userHistory>>

\* mark_sent, once the fan-out has returned.
MarkSent ==
  /\ phase = "deliver" /\ rows = {}
  /\ cooldown' = [cooldown EXCEPT ![<<alert.ticker, alert.simulated>>] = now + Cooldown]
  /\ EndFanOut(TRUE, None)
  /\ UNCHANGED <<now, dbVars, simulated, cache, webVars, count, skipped, missed, userHistory>>

\* The database, Redis or the formatting of the alert raises.
PipelineRaises ==
  /\ phase # "idle" /\ Counted("faults", MaxFaults)
  /\ EndFanOut(FALSE, None)
  /\ skipped' = skipped \cup {q.user : q \in {p \in rows : Exists(p.user)}}
  /\ UNCHANGED <<now, dbVars, redisVars, cache, webVars, missed, userHistory>>

\* The process ends and starts again with an empty cache; in the standalone node
\* the requests end with it.
Restart ==
  /\ Counted("faults", MaxFaults)
  /\ EndFanOut(FALSE, None)
  /\ cache' = [t \in Ticker |-> None]
  /\ IF SharedCache
     THEN owed' = [r \in User \X Requests |-> {}] /\ testing' = [u \in User |-> None]
     ELSE UNCHANGED webVars
  /\ skipped' = skipped \cup {q.user : q \in {p \in rows : Exists(p.user)}}
  /\ UNCHANGED <<now, dbVars, redisVars, missed, userHistory>>

-----------------------------------------------------------------------------
\* Requests of the web application, one of a kind and account at a time.

Begins(u, kind) ==
  /\ Exists(u) /\ owed[<<u, kind>>] = {}
  /\ Counted("requests", MaxRequests)

\* set_watchlist replaces the list in one transaction: entries that stay keep
\* their added_at.
SetWatchlist(u, wanted) ==
  /\ Begins(u, "watchlist")
  /\ watch' = [e \in User \X Ticker |->
                 IF e[1] # u THEN watch[e]
                 ELSE IF e[2] \notin wanted THEN None
                 ELSE IF watch[e] # None THEN watch[e] ELSE now]
  /\ owed' = [owed EXCEPT ![<<u, "watchlist">>] =
                {t \in Ticker : (t \in wanted) # Watches(u, t)}]
  /\ UNCHANGED <<now, users, redisVars, cache, pipeVars, testing, history>>

\* One entry after the other is dropped.
DropEntry(u, t) ==
  /\ t \in owed[<<u, "watchlist">>]
  /\ owed' = [owed EXCEPT ![<<u, "watchlist">>] = @ \ {t}]
  /\ cache' = IF SharedCache THEN [cache EXCEPT ![t] = None] ELSE cache
  /\ UNCHANGED <<now, dbVars, redisVars, pipeVars, testing, count, history>>

SaveWith(u, h, verified) ==
  /\ u \notin Guest
  /\ Begins(u, "slack")
  /\ users' = [users EXCEPT ![u] = [hook |-> h, verified |-> verified]]
  /\ owed' = [owed EXCEPT ![<<u, "slack">>] = Ticker]
  /\ UNCHANGED <<now, watch, redisVars, cache, pipeVars, testing, history>>

\* Mutant of SaveHook: a hook that replaces a verified one stays verified.
SaveVerified(u, h) == SaveWith(u, h, users[u].verified)

\* api_slack saves a hook, or none, as not verified.
SaveHook(u, h) == SaveWith(u, h, FALSE)

\* api_slack_test has read the account and posts to the hook it found there.
TestHook(u) ==
  /\ u \notin Guest
  /\ Begins(u, "test")
  /\ testing[u] = None /\ users[u].hook # None
  /\ testing' = [testing EXCEPT ![u] = [hook |-> users[u].hook, ok |-> FALSE]]
  /\ UNCHANGED <<now, dbVars, redisVars, cache, pipeVars, owed, history>>

TestFails(u) ==
  /\ testing[u] # None /\ ~ testing[u].ok
  /\ testing' = [testing EXCEPT ![u] = None]
  /\ UNCHANGED <<now, dbVars, redisVars, cache, pipeVars, owed, count, history>>

TestSucceeds(u) ==
  /\ testing[u] # None /\ ~ testing[u].ok
  /\ testing' = [testing EXCEPT ![u].ok = TRUE]
  /\ tested' = tested \cup {<<u, testing[u].hook>>}
  /\ UNCHANGED <<now, dbVars, redisVars, cache, pipeVars, owed, count, skipped, missed, lastLive, goneAt, dead>>

\* The hook that was tested is written back, verified.
TestWrite(u) ==
  /\ testing[u] # None /\ testing[u].ok
  /\ users' = [users EXCEPT ![u] = [hook |-> testing[u].hook, verified |-> TRUE]]
  /\ testing' = [testing EXCEPT ![u] = None]
  /\ owed' = [owed EXCEPT ![<<u, "test">>] = Ticker]
  /\ dead' = dead \ {u}
  /\ UNCHANGED <<now, watch, redisVars, cache, pipeVars, count, skipped, missed, lastLive, goneAt, tested>>

\* After a hook was saved or tested the whole cache is dropped.
ClearCache(u, kind) ==
  /\ owed[<<u, kind>>] # {}
  /\ owed' = [owed EXCEPT ![<<u, kind>>] = {}]
  /\ cache' = IF SharedCache THEN [t \in Ticker |-> None] ELSE cache
  /\ UNCHANGED <<now, dbVars, redisVars, pipeVars, testing, count, history>>

\* The filler that moves the watermark is about some other company.
FillerTickers(t) == IF Ticker = {t} THEN {t} ELSE Ticker \ {t}

SimulateWith(t, cleared) ==
  /\ \E u \in User : Watches(u, t)
  /\ Counted("requests", MaxRequests)
  /\ cooldown' = [k \in Ticker \X BOOLEAN |-> IF k \in cleared THEN 0 ELSE cooldown[k]]
  /\ \E filler \in FillerTickers(t) : simulated' = simulated \cup {t, filler}
  /\ UNCHANGED <<now, dbVars, cache, pipeVars, webVars, history>>

\* Mutant of Simulate: the cooldown of real alerts is cleared too.
SimulateClearsAll(t) == SimulateWith(t, {t} \X BOOLEAN)

\* A simulation clears the cooldown of simulated alerts and publishes its articles
\* and its filler, all of them simulated.
Simulate(t) == SimulateWith(t, {<<t, TRUE>>})

\* Guests past their age are deleted; watchlists and deliveries cascade.
PurgeGuests(gone) ==
  /\ gone # {} /\ \A g \in gone : Exists(g)
  /\ users' = [u \in User |-> IF u \in gone THEN None ELSE users[u]]
  /\ watch' = [e \in User \X Ticker |-> IF e[1] \in gone THEN None ELSE watch[e]]
  /\ served' = served \ gone
  /\ goneAt' = [u \in User |-> IF u \in gone THEN now ELSE goneAt[u]]
  /\ UNCHANGED <<now, redisVars, cache, phase, alert, calledAt, rows, posting, webVars, count>>
  /\ UNCHANGED <<skipped, missed, lastLive, tested, dead>>

-----------------------------------------------------------------------------
PipelineStep ==
  \/ \E t \in Ticker : \E real, sim \in BOOLEAN : Evaluate(t, real, sim)
  \/ LookupHit \/ LookupMiss \/ ReadSubscribers \/ LookupFails \/ StoreSubscribers
  \/ \E r \in rows : RecordOnly(r) \/ StartPost(r)
  \/ PostSucceeds \/ PostFails \/ PostFailsUnnoticed \/ MarkSent

Request ==
  \/ \E u \in User : \E wanted \in SUBSET Ticker : SetWatchlist(u, wanted)
  \/ \E u \in User : \E t \in Ticker : DropEntry(u, t)
  \/ \E u \in User : \E h \in Hook \cup {None} : SaveHook(u, h)
  \/ \E u \in User : TestHook(u) \/ TestFails(u) \/ TestSucceeds(u) \/ TestWrite(u)
  \/ \E u \in User : \E kind \in {"slack", "test"} : ClearCache(u, kind)
  \/ \E t \in Ticker : Simulate(t)

Next ==
  \/ Elapse \/ PipelineStep \/ PipelineRaises \/ Restart \/ Request
  \/ \E gone \in SUBSET Guest : PurgeGuests(gone)

Spec == Init /\ [][Next]_vars

-----------------------------------------------------------------------------
\* Every variable keeps its type.
TypeOK ==
  /\ now \in 0..MaxTime
  /\ users \in [User -> Account \cup {None}]
  /\ watch \in [User \X Ticker -> Nat \cup {None}]
  /\ cooldown \in [Ticker \X BOOLEAN -> Nat]
  /\ \A t \in Ticker : cache[t] # None => cache[t].at \in Nat /\ cache[t].rows \subseteq Row
  /\ phase \in {"idle", "lookup", "read", "store", "deliver", "post"}
  /\ phase = "idle" <=> alert = None
  /\ alert \in Alert \cup {None}
  /\ calledAt \in Nat \cup {None}
  /\ rows \subseteq Row /\ served \subseteq User
  /\ IF phase = "post" THEN posting \in rows ELSE posting = None

\* What leaves the server goes to a hook its owner tested successfully, never to
\* a guest's and never for a simulated alert, whatever was saved, tested and
\* cached in between (fan_out's docstring).
OnlyTestedHooksArePosted ==
  phase = "post" =>
    /\ <<posting.user, posting.hook>> \in tested
    /\ posting.user \notin Guest /\ ~ alert.simulated

\* A hook that failed, and could be un-verified, is left alone until a successful
\* test of its owner is written back, be it one that began before the failure: the
\* cache does not bring it back.
FailedHookIsLeftAlone == phase = "post" => posting.user \notin dead

\* A live alert comes Cooldown after the last one of its ticker, whatever a
\* simulation cleared in between, unless an exception ended the fan-out of that one
\* before mark_sent.  Was it the delivery row of an account that is gone, the
\* account was deleted during the fan-out or less than a cache lifetime before it.
LiveAlertsAreSpaced ==
  /\ alert # None /\ ~ alert.simulated /\ lastLive[alert.ticker] # None =>
       \/ alert.at >= lastLive[alert.ticker].at + Cooldown
       \/ ~ lastLive[alert.ticker].sent
  /\ \A t \in Ticker : lastLive[t] # None /\ lastLive[t].gone # None =>
       goneAt[lastLive[t].gone] > lastLive[t].at - SubTtl

\* Not so: each live alert comes Cooldown after the last one.
EveryLiveAlertIsSpaced ==
  alert # None /\ ~ alert.simulated /\ lastLive[alert.ticker] # None =>
    alert.at >= lastLive[alert.ticker].at + Cooldown

\* Whoever has been watching for the lifetime of a cache entry gets a delivery
\* row, whatever the cache holds: a stale list is never staler than that.
LongStandingAreServed ==
  phase \in {"deliver", "post"} /\ calledAt # None =>
    \A u \in User :
      Watches(u, alert.ticker) /\ watch[<<u, alert.ticker>>] <= calledAt - SubTtl =>
        u \in served \cup {r.user : r \in rows}

\* fan_out delivers "to each subscriber": none that still has an account is left
\* out.
EachSubscriberIsServed == skipped = {}

\* A simulation must not suppress a real alert: real news over the baseline,
\* outside the cooldown of live alerts, is alerted as live.
RealNewsIsAlerted == missed = {}
=============================================================================
