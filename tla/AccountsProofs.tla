--------------------------- MODULE AccountsProofs ---------------------------
(***************************************************************************)
(* What the abuse controls promise, for every number of threads, addresses *)
(* and emails, all limits and windows, and any faults.                     *)
(***************************************************************************)
EXTENDS Accounts, TLAPS, FiniteSetTheorems

-----------------------------------------------------------------------------
(* The limits a request has still to pass.                                 *)

Rest ==
  [signup   |-> {<<"signup_ip", "accounts_day">>, <<"accounts_day">>, <<>>},
   login    |-> {<<"login_ip", "login_email">>, <<"login_email">>},
   demo     |-> {<<"guest_ip", "guests_day">>, <<"guests_day">>, <<>>},
   simulate |-> {<<"api_ip", "sim_slot", "sim_ip", "sim_global">>,
                 <<"sim_slot", "sim_ip", "sim_global">>,
                 <<"sim_ip", "sim_global">>, <<"sim_global">>, <<>>}]

LimitsOf ==
  [signup   |-> {"signup_ip", "accounts_day"},
   login    |-> {"login_ip", "login_email"},
   demo     |-> {"guest_ip", "guests_day"},
   simulate |-> {"api_ip", "sim_slot", "sim_ip", "sim_global"}]

LEMMA Kinds == Kind = {"signup", "login", "demo", "simulate"}
BY DEF Kind, SimulatePlan, Plan

LEMMA Limits == Limit = UNION {LimitsOf[kind] : kind \in Kind}
<1>1. \A kind \in Kind : {Plan[kind][i] : i \in DOMAIN Plan[kind]} = LimitsOf[kind]
  <2>1. /\ DOMAIN Plan["signup"] = {1, 2} /\ DOMAIN Plan["login"] = {1, 2}
        /\ DOMAIN Plan["demo"] = {1, 2} /\ DOMAIN Plan["simulate"] = {1, 2, 3, 4}
    BY DEF SimulatePlan, Plan
  <2>2. {Plan["signup"][i] : i \in {1, 2}} = LimitsOf["signup"]
    BY DEF SimulatePlan, Plan, LimitsOf
  <2>3. {Plan["login"][i] : i \in {1, 2}} = LimitsOf["login"]
    BY DEF SimulatePlan, Plan, LimitsOf
  <2>4. {Plan["demo"][i] : i \in {1, 2}} = LimitsOf["demo"]
    BY DEF SimulatePlan, Plan, LimitsOf
  <2>5. {Plan["simulate"][i] : i \in {1, 2, 3, 4}} = LimitsOf["simulate"]
    BY DEF SimulatePlan, Plan, LimitsOf
  <2> QED
    BY <2>1, <2>2, <2>3, <2>4, <2>5, Kinds
<1> QED
  BY <1>1 DEF Limit

\* What is left of a plan starts with one of its limits, and leaves a rest again;
\* only a login ends with its last limit.
LEMMA RestFacts ==
  ASSUME NEW kind \in Kind, NEW left \in Rest[kind]
  PROVE  /\ left \in Seq(Limit)
         /\ left # <<>> => Head(left) \in LimitsOf[kind] /\ Head(left) \in Limit
         /\ left # <<>> /\ ~ (kind = "login" /\ Len(left) = 1) => Tail(left) \in Rest[kind]
<1>1. \A lim \in LimitsOf[kind] : lim \in Limit
  BY Limits
<1> HIDE DEF Limit
<1>2. CASE kind = "signup"
  <2>1. "signup_ip" \in Limit /\ "accounts_day" \in Limit
    BY <1>1, <1>2 DEF LimitsOf
  <2>2. Rest[kind] = {<<"signup_ip", "accounts_day">>, <<"accounts_day">>, <<>>}
    BY <1>2 DEF Rest
  <2>3. LimitsOf[kind] = {"signup_ip", "accounts_day"}
    BY <1>2 DEF LimitsOf
  <2>4. CASE left = <<"signup_ip", "accounts_day">>
    BY <2>1, <2>2, <2>3, <2>4
  <2>5. CASE left = <<"accounts_day">>
    BY <2>1, <2>2, <2>3, <2>5
  <2>6. CASE left = <<>>
    BY <2>1, <2>2, <2>3, <2>6
  <2> QED
    BY <2>2, <2>4, <2>5, <2>6
<1>3. CASE kind = "login"
  <2>1. "login_ip" \in Limit /\ "login_email" \in Limit
    BY <1>1, <1>3 DEF LimitsOf
  <2>2. Rest[kind] = {<<"login_ip", "login_email">>, <<"login_email">>}
    BY <1>3 DEF Rest
  <2>3. LimitsOf[kind] = {"login_ip", "login_email"}
    BY <1>3 DEF LimitsOf
  <2>4. CASE left = <<"login_ip", "login_email">>
    BY <2>1, <2>2, <2>3, <2>4, <1>3
  <2>5. CASE left = <<"login_email">>
    BY <2>1, <2>2, <2>3, <2>5, <1>3
  <2> QED
    BY <2>2, <2>4, <2>5
<1>4. CASE kind = "demo"
  <2>1. "guest_ip" \in Limit /\ "guests_day" \in Limit
    BY <1>1, <1>4 DEF LimitsOf
  <2>2. Rest[kind] = {<<"guest_ip", "guests_day">>, <<"guests_day">>, <<>>}
    BY <1>4 DEF Rest
  <2>3. LimitsOf[kind] = {"guest_ip", "guests_day"}
    BY <1>4 DEF LimitsOf
  <2>4. CASE left = <<"guest_ip", "guests_day">>
    BY <2>1, <2>2, <2>3, <2>4
  <2>5. CASE left = <<"guests_day">>
    BY <2>1, <2>2, <2>3, <2>5
  <2>6. CASE left = <<>>
    BY <2>1, <2>2, <2>3, <2>6
  <2> QED
    BY <2>2, <2>4, <2>5, <2>6
<1>5. CASE kind = "simulate"
  <2>1. "api_ip" \in Limit /\ "sim_slot" \in Limit /\ "sim_ip" \in Limit /\ "sim_global" \in Limit
    BY <1>1, <1>5 DEF LimitsOf
  <2>2. Rest[kind] = {<<"api_ip", "sim_slot", "sim_ip", "sim_global">>, <<"sim_slot", "sim_ip", "sim_global">>, <<"sim_ip", "sim_global">>, <<"sim_global">>, <<>>}
    BY <1>5 DEF Rest
  <2>3. LimitsOf[kind] = {"api_ip", "sim_slot", "sim_ip", "sim_global"}
    BY <1>5 DEF LimitsOf
  <2>4. CASE left = <<"api_ip", "sim_slot", "sim_ip", "sim_global">>
    BY <2>1, <2>2, <2>3, <2>4
  <2>5. CASE left = <<"sim_slot", "sim_ip", "sim_global">>
    BY <2>1, <2>2, <2>3, <2>5
  <2>6. CASE left = <<"sim_ip", "sim_global">>
    BY <2>1, <2>2, <2>3, <2>6
  <2>7. CASE left = <<"sim_global">>
    BY <2>1, <2>2, <2>3, <2>7
  <2>8. CASE left = <<>>
    BY <2>1, <2>2, <2>3, <2>8
  <2> QED
    BY <2>2, <2>4, <2>5, <2>6, <2>7, <2>8
<1> QED
  BY <1>2, <1>3, <1>4, <1>5, Kinds

LEMMA PlanFacts == \A kind \in Kind : Plan[kind] \in Rest[kind]
BY Kinds DEF SimulatePlan, Plan, Rest

-----------------------------------------------------------------------------
(* Types, and what a request under way looks like.                         *)

\* A request r at time t: under way for at most MaxDelay, with the rest of its plan
\* to do; only a demo that passed its limits has a guest, made meanwhile.
Fine(r, t) ==
  /\ r.left \in Rest[r.kind]
  /\ r.at <= t /\ t <= r.at + MaxDelay
  /\ r.kind # "demo" => r.who \in Email
  /\ r.guest # None =>
       /\ r.kind = "demo" /\ r.left = <<>> /\ r.guest.ip = r.ip
       /\ r.at <= r.guest.at /\ r.guest.at <= t

Orderly ==
  /\ IsFiniteSet(minted)
  /\ \A th \in Thread : Busy(th) => Fine(doing[th], now)
  /\ \A g \in minted : g.at <= now

Base == TypeOK /\ Orderly

LEMMA Numbers ==
  /\ \A lim \in Limit : CountOf[lim] \in Nat \ {0} /\ WindowOf[lim] \in Nat \ {0}
  /\ MaxDelay \in Nat /\ GuestAge \in Nat \ {0}
BY LimitAssumption

LEMMA KeyFacts ==
  ASSUME NEW r \in RequestRecord, NEW lim \in Limit
  PROVE  /\ KeyOf(lim, r) \in Key /\ KeyOf(lim, r).limit = lim
         /\ lim \in PerAddress => KeyOf(lim, r).ip = r.ip
<1>1. r.ip \in Ip /\ r.who \in Email \cup {None}
  BY DEF RequestRecord
<1> HIDE DEF Limit, PerAddress, PerAccount
<1> QED
  BY <1>1 DEF KeyOf, Key

LEMMA EntryFacts ==
  ASSUME Base, NEW k \in Key
  PROVE  /\ Entry(k).count \in Nat
         /\ Entry(k).until \in (now + 1)..(now + WindowOf[k.limit])
         /\ Entry(k).by \in [Kind \X Ip -> Nat]
<1>1. WindowOf[k.limit] \in Nat \ {0}
  BY Numbers DEF Key
<1>2. now \in Nat
  BY BoundAssumption DEF Base, TypeOK
<1>3. Nobody \in [Kind \X Ip -> Nat]
  BY DEF Nobody
<1>4. CASE k \in DOMAIN counter
  BY <1>4 DEF Base, TypeOK, Entry
<1>5. CASE k \notin DOMAIN counter
  BY <1>1, <1>2, <1>3, <1>5 DEF Entry
<1> QED
  BY <1>4, <1>5

\* A key is counted up, the others are left alone.
LEMMA IncrementFacts ==
  ASSUME Base, NEW r \in RequestRecord, NEW k \in Key, Increment(k, r)
  PROVE  /\ DOMAIN counter' = DOMAIN counter \cup {k}
         /\ \A x \in DOMAIN counter : x # k => counter'[x] = counter[x]
         /\ counter'[k].count = Entry(k).count + 1
         /\ counter'[k].until = Entry(k).until
         /\ counter'[k].by = [Entry(k).by EXCEPT ![<<r.kind, r.ip>>] = @ + 1]
         /\ counter'[k].by \in [Kind \X Ip -> Nat]
<1>1. <<r.kind, r.ip>> \in Kind \X Ip
  BY DEF RequestRecord
<1> DEFINE by == [Entry(k).by EXCEPT ![<<r.kind, r.ip>>] = @ + 1]
<1>2. by \in [Kind \X Ip -> Nat]
  BY <1>1, EntryFacts
<1> DEFINE one == [count |-> Entry(k).count + 1, until |-> Entry(k).until, by |-> by]
<1>3. counter' = [x \in DOMAIN counter \cup {k} |-> IF x = k THEN one ELSE counter[x]]
  BY DEF Increment
<1>4. one.count = Entry(k).count + 1 /\ one.until = Entry(k).until /\ one.by = by
  OBVIOUS
<1> HIDE DEF one, by
<1>5. counter'[k] = one /\ DOMAIN counter' = DOMAIN counter \cup {k}
  BY <1>3
<1> QED
  BY <1>2, <1>3, <1>4, <1>5 DEF by

\* What the types say of the counters, as a part of its own.
Counters ==
  /\ DOMAIN counter \subseteq Key
  /\ \A k \in DOMAIN counter :
       /\ counter[k].count \in Nat \ {0}
       /\ counter[k].until \in (now + 1)..(now + WindowOf[k.limit])
       /\ counter[k].by \in [Kind \X Ip -> Nat]

LEMMA IncrementTypes ==
  ASSUME Base, NEW r \in RequestRecord, NEW k \in Key, Increment(k, r), now' = now
  PROVE  Counters'
<1>1. Counters
  BY DEF Base, TypeOK, Counters
<1>2. /\ Entry(k).count \in Nat
      /\ Entry(k).until \in (now + 1)..(now + WindowOf[k.limit])
  BY EntryFacts
<1>3. /\ counter'[k].count = Entry(k).count + 1
      /\ counter'[k].until = Entry(k).until
      /\ counter'[k].by \in [Kind \X Ip -> Nat]
      /\ DOMAIN counter' = DOMAIN counter \cup {k}
      /\ \A x \in DOMAIN counter : x # k => counter'[x] = counter[x]
  BY IncrementFacts
<1>4. counter'[k].count \in Nat \ {0}
  BY <1>2, <1>3
<1> HIDE DEF Key
<1>5. ASSUME NEW x \in DOMAIN counter'
      PROVE  /\ counter'[x].count \in Nat \ {0}
             /\ counter'[x].until \in (now' + 1)..(now' + WindowOf[x.limit])
             /\ counter'[x].by \in [Kind \X Ip -> Nat]
  BY <1>1, <1>2, <1>3, <1>4, <1>5 DEF Counters
<1> QED
  BY <1>1, <1>3, <1>5 DEF Counters

\* One request moves on to v, the other threads and the clock stay.
Turn(th, v) ==
  /\ doing' = [doing EXCEPT ![th] = v] /\ now' = now
  /\ v = None \/ (v \in RequestRecord /\ Fine(v, now))

LEMMA TurnKeeps ==
  ASSUME Base, NEW th \in Thread, NEW v, Turn(th, v)
  PROVE  /\ doing' \in [Thread -> RequestRecord \cup {None}]
         /\ \A o \in Thread : (doing[o] # None => Fine(doing[o], now))' 
         /\ doing'[th] = v
         /\ \A o \in Thread : o # th => doing'[o] = doing[o]
<1>1. doing \in [Thread -> RequestRecord \cup {None}]
  BY DEF Base, TypeOK
<1>2. /\ doing' \in [Thread -> RequestRecord \cup {None}] /\ doing'[th] = v
      /\ \A o \in Thread : o # th => doing'[o] = doing[o]
  BY <1>1 DEF Turn
<1> HIDE DEF RequestRecord
<1>3. \A o \in Thread : doing[o] # None => Fine(doing[o], now)
  BY DEF Base, Orderly, Busy
<1>4. ASSUME NEW o \in Thread, doing'[o] # None PROVE Fine(doing'[o], now')
  BY <1>2, <1>3, <1>4 DEF Turn
<1> QED
  BY <1>2, <1>4

\* The next request record of a step that passes or ends.
LEMMA PassTurns ==
  ASSUME Base, NEW th \in Thread, Busy(th), doing[th].left # <<>>, Passes(th), now' = now
  PROVE  \E v : /\ Turn(th, v)
                /\ v # None => v = [doing[th] EXCEPT !.left = Tail(@)]
                               /\ v.left = Tail(doing[th].left) /\ v.left \in Rest[v.kind]
                /\ v = None => doing[th].kind = "login" /\ Len(doing[th].left) = 1
<1> DEFINE r == doing[th]
<1>1. r \in RequestRecord /\ Fine(r, now)
  BY DEF Base, TypeOK, Orderly, Busy
<1>2. CASE r.kind = "login" /\ Len(r.left) = 1
  BY <1>2 DEF Passes, Ends, Turn
<1>3. CASE ~ (r.kind = "login" /\ Len(r.left) = 1)
  <2> DEFINE v == [doing[th] EXCEPT !.left = Tail(@)]
  <2>1. Tail(r.left) \in Rest[r.kind] /\ Tail(r.left) \in Seq(Limit)
    BY <1>1, <1>3, RestFacts DEF RequestRecord, Fine
  <2>2. /\ v \in RequestRecord /\ v.left = Tail(r.left)
         /\ v.kind = r.kind /\ v.at = r.at /\ v.guest = r.guest /\ v.who = r.who
    BY <1>1, <2>1 DEF RequestRecord
  <2>3. Fine(v, now)
    BY <1>1, <2>1, <2>2 DEF Fine
  <2>4. doing' = [doing EXCEPT ![th] = v]
    BY <1>3 DEF Passes
  <2>5. v # None
    BY <2>2, AccountAssumption
  <2> QED
    BY <2>1, <2>2, <2>3, <2>4, <2>5 DEF Turn
<1> QED
  BY <1>2, <1>3

LEMMA EndTurns ==
  ASSUME NEW th \in Thread, Ends(th), now' = now
  PROVE  Turn(th, None)
BY DEF Ends, Turn

LEMMA BeginTurns ==
  ASSUME Base, NEW th \in Thread, NEW kind \in Kind, NEW ip \in Ip, NEW who \in Email \cup {None},
         kind # "demo" => who \in Email, Begin(th, kind, ip, who)
  PROVE  LET v == [kind |-> kind, ip |-> ip, who |-> who, at |-> now, left |-> Plan[kind], guest |-> None]
         IN  Turn(th, v) /\ v \in RequestRecord
<1> DEFINE v == [kind |-> kind, ip |-> ip, who |-> who, at |-> now, left |-> Plan[kind], guest |-> None]
<1>1. now \in Nat
  BY BoundAssumption DEF Base, TypeOK
<1>2. Plan[kind] \in Rest[kind] /\ Plan[kind] \in Seq(Limit)
  BY PlanFacts, RestFacts
<1>3. v \in RequestRecord
  BY <1>1, <1>2 DEF RequestRecord
<1>4. Fine(v, now)
  BY <1>1, <1>2, Numbers DEF Fine
<1> QED
  BY <1>3, <1>4 DEF Begin, BeginWith, Turn

Passing(th, v) ==
  v # None => /\ v = [doing[th] EXCEPT !.left = Tail(@)]
              /\ v.left = Tail(doing[th].left) /\ v.left \in Rest[v.kind]

\* A rate limit that was hit: the key, the verdict, the next record.
LEMMA HitTurns ==
  ASSUME Base, NEW th \in Thread, HitLimit(th)
  PROVE  LET r == doing[th]
             k == KeyOf(Head(r.left), r)
         IN  /\ r \in RequestRecord /\ Fine(r, now) /\ r.left # <<>>
             /\ Head(r.left) \in LimitsOf[r.kind] \ Slot /\ Head(r.left) \in Limit
             /\ k \in Key /\ k.limit = Head(r.left) /\ Increment(k, r)
             /\ \E v : /\ Turn(th, v) /\ Passing(th, v)
                       /\ (v = None => Entry(k).count + 1 > CountOf[k.limit] \/ r.kind = "login")
                       /\ (v # None => Entry(k).count + 1 <= CountOf[k.limit])
<1> DEFINE r == doing[th]
           k == KeyOf(Head(r.left), r)
<1>1. r \in RequestRecord /\ Fine(r, now) /\ r.left # <<>>
  BY DEF Base, TypeOK, Orderly, Busy, HitLimit
<1>2. r.kind \in Kind /\ r.left \in Rest[r.kind]
  BY <1>1 DEF RequestRecord, Fine
<1>3. Head(r.left) \in LimitsOf[r.kind] /\ Head(r.left) \in Limit
  BY <1>1, <1>2, RestFacts
<1>4. k \in Key /\ k.limit = Head(r.left)
  BY <1>1, <1>3, KeyFacts
<1>5. Head(r.left) \notin Slot /\ Increment(k, r) /\ now' = now
  BY DEF HitLimit
<1>6. PICK round \in {0, 1} :
        IF Refuses(Head(r.left), Entry(k).count + 1, Entry(k).until - now - round)
        THEN Ends(th) ELSE Passes(th)
  BY DEF HitLimit
<1>7. Entry(k).count \in Nat /\ Entry(k).until \in Int /\ now \in Nat /\ CountOf[k.limit] \in Nat
  <2>1. now \in Nat
    BY BoundAssumption DEF Base, TypeOK
  <2>2. k.limit \in Limit
    BY <1>3, <1>4
  <2>3. CountOf[k.limit] \in Nat /\ WindowOf[k.limit] \in Nat
    BY <2>2, Numbers
  <2>4. Entry(k).count \in Nat /\ Entry(k).until \in (now + 1)..(now + WindowOf[k.limit])
    BY <1>4, EntryFacts
  <2> HIDE DEF k
  <2> QED
    BY <2>1, <2>3, <2>4
<1>8. Refuses(Head(r.left), Entry(k).count + 1, Entry(k).until - now - round)
        <=> Entry(k).count + 1 > CountOf[k.limit]
  BY <1>4, <1>7 DEF Refuses, RetryAfter
<1>9. CASE Entry(k).count + 1 > CountOf[k.limit]
  <2>1. Turn(th, None)
    BY <1>5, <1>6, <1>8, <1>9, EndTurns
  <2> QED
    BY <1>1, <1>3, <1>4, <1>5, <1>9, <2>1 DEF Passing
<1>10. CASE ~ (Entry(k).count + 1 > CountOf[k.limit])
  <2>1. Passes(th)
    BY <1>6, <1>8, <1>10
  <2>2. PICK v : /\ Turn(th, v)
                 /\ v # None => v = [doing[th] EXCEPT !.left = Tail(@)]
                                /\ v.left = Tail(doing[th].left) /\ v.left \in Rest[v.kind]
                 /\ v = None => doing[th].kind = "login" /\ Len(doing[th].left) = 1
    BY <1>1, <1>5, <2>1, PassTurns DEF HitLimit
  <2>3. Passing(th, v) /\ (v = None => r.kind = "login") /\ Entry(k).count + 1 <= CountOf[k.limit]
    BY <1>7, <1>10, <2>2 DEF Passing
  <2> QED
    BY <1>1, <1>3, <1>4, <1>5, <2>2, <2>3
<1> QED
  BY <1>9, <1>10

\* A slot asked for: refused, or free and taken.
LEMMA SlotTurns ==
  ASSUME Base, NEW th \in Thread, TakeSlot(th)
  PROVE  LET r == doing[th]
             k == KeyOf(Head(r.left), r)
         IN  /\ r \in RequestRecord /\ Fine(r, now) /\ r.left # <<>>
             /\ Head(r.left) \in LimitsOf[r.kind] \cap Slot
             /\ k \in Key /\ k.limit = Head(r.left)
             /\ \/ k \in DOMAIN counter /\ UNCHANGED counter /\ Turn(th, None)
                \/ /\ k \notin DOMAIN counter /\ Increment(k, r)
                   /\ \E v : Turn(th, v) /\ Passing(th, v) /\ (v = None => r.kind = "login")
<1> DEFINE r == doing[th]
           k == KeyOf(Head(r.left), r)
<1>1. r \in RequestRecord /\ Fine(r, now) /\ r.left # <<>>
  BY DEF Base, TypeOK, Orderly, Busy, TakeSlot
<1>2. r.kind \in Kind /\ r.left \in Rest[r.kind]
  BY <1>1 DEF RequestRecord, Fine
<1>3. Head(r.left) \in LimitsOf[r.kind] /\ Head(r.left) \in Limit
  BY <1>1, <1>2, RestFacts
<1>4. k \in Key /\ k.limit = Head(r.left)
  BY <1>1, <1>3, KeyFacts
<1>5. k.limit \in Slot /\ now' = now
  BY DEF TakeSlot
<1>6. CASE k \in DOMAIN counter
  <2>1. Ends(th) /\ UNCHANGED counter
    BY <1>6 DEF TakeSlot
  <2> QED
    BY <1>1, <1>3, <1>4, <1>5, <1>6, <2>1, EndTurns
<1>7. CASE k \notin DOMAIN counter
  <2>1. Passes(th) /\ Increment(k, r)
    BY <1>7 DEF TakeSlot
  <2>2. PICK v : /\ Turn(th, v)
                 /\ v # None => v = [doing[th] EXCEPT !.left = Tail(@)]
                                /\ v.left = Tail(doing[th].left) /\ v.left \in Rest[v.kind]
                 /\ v = None => doing[th].kind = "login" /\ Len(doing[th].left) = 1
    BY <1>1, <1>5, <2>1, PassTurns DEF TakeSlot
  <2>3. Passing(th, v) /\ (v = None => r.kind = "login")
    BY <2>2 DEF Passing
  <2> QED
    BY <1>1, <1>3, <1>4, <1>5, <1>7, <2>1, <2>2, <2>3
<1> QED
  BY <1>6, <1>7

LEMMA OpenTurns ==
  ASSUME Base, NEW th \in Thread, FailOpen(th)
  PROVE  /\ doing[th] \in RequestRecord /\ Fine(doing[th], now) /\ doing[th].left # <<>>
         /\ Head(doing[th].left) \in LimitsOf[doing[th].kind] \ Slot
         /\ \E v : Turn(th, v) /\ Passing(th, v) /\ (v = None => doing[th].kind = "login")
<1>1. doing[th] \in RequestRecord /\ Fine(doing[th], now) /\ doing[th].left # <<>>
  BY DEF Base, TypeOK, Orderly, Busy, FailOpen
<1>2. Head(doing[th].left) \in LimitsOf[doing[th].kind] \ Slot
  BY <1>1, RestFacts DEF RequestRecord, Fine, FailOpen
<1> QED
  BY <1>1, <1>2, PassTurns DEF FailOpen, Passing

-----------------------------------------------------------------------------
(* Type correctness.                                                       *)

Requests ==
  /\ doing \in [Thread -> RequestRecord \cup {None}]
  /\ \A th \in Thread : doing[th] # None => Fine(doing[th], now)

Tables ==
  /\ users \subseteq Email /\ guests \subseteq minted /\ minted \subseteq Guest
  /\ IsFiniteSet(minted) /\ \A g \in minted : g.at <= now

Memories ==
  /\ guestOf \in [Ip -> Memory \cup {None}]
  /\ \A ip \in Ip : guestOf[ip] # None => guestOf[ip].until > now

Tally ==
  /\ count \in [requests : 0..MaxRequests, faults : 0..MaxFaults]
  /\ runs \in Seq(Nat)

LEMMA BaseParts ==
  Base <=> now \in 0..MaxTime /\ Counters /\ Requests /\ Tables /\ Memories /\ Tally
BY DEF Base, TypeOK, Orderly, Busy, Counters, Requests, Tables, Memories, Tally

LEMMA BasePartsNext ==
  ASSUME (now \in 0..MaxTime)', Counters', Requests', Tables', Memories', Tally'
  PROVE  Base'
BY DEF Base, TypeOK, Orderly, Busy, Counters, Requests, Tables, Memories, Tally

LEMMA BaseThen ==
  ASSUME Base'
  PROVE  (now \in 0..MaxTime)' /\ Counters' /\ Requests' /\ Tables' /\ Memories' /\ Tally'
BY DEF Base, TypeOK, Orderly, Busy, Counters, Requests, Tables, Memories, Tally

LEMMA BaseTurn ==
  ASSUME Base, NEW th \in Thread, NEW v, Turn(th, v), Counters', Tables', Memories', Tally'
  PROVE  Base'
<1>1. now' \in 0..MaxTime
  BY BaseParts DEF Turn
<1>2. Requests'
  BY TurnKeeps DEF Requests
<1> QED
  BY <1>1, <1>2, BasePartsNext

\* What stays as it is keeps its type while the clock does.
LEMMA SameCounters ==
  ASSUME Base, counter' = counter, now' = now PROVE Counters'
BY BaseParts DEF Counters

LEMMA SameTables ==
  ASSUME Base, UNCHANGED <<tables, minted>>, now' = now PROVE Tables'
BY BaseParts DEF Tables, tables

LEMMA SameMemories ==
  ASSUME Base, guestOf' = guestOf, now' = now PROVE Memories'
BY BaseParts DEF Memories

LEMMA SameTally ==
  ASSUME Base, count' = count, runs' = runs PROVE Tally'
BY BaseParts DEF Tally

\* The tally after a request or a fault.
LEMMA TallyFacts ==
  ASSUME Base
  PROVE  /\ count.requests \in 0..MaxRequests /\ count.faults \in 0..MaxFaults
         /\ count = [requests |-> count.requests, faults |-> count.faults]
BY BaseParts DEF Tally

LEMMA RequestTally ==
  ASSUME Base, NEW f \in {0, 1}, CountRequest(f), count.requests < MaxRequests, runs' = runs,
         f = 0 \/ count.faults < MaxFaults
  PROVE  Tally' /\ count'.faults = count.faults + f
BY BaseParts, BoundAssumption DEF Tally, CountRequest

LEMMA FaultTally ==
  ASSUME Base, Counted("faults", MaxFaults), runs' = runs
  PROVE  Tally' /\ count'.faults = count.faults + 1
<1>1. /\ count \in [requests : 0..MaxRequests, faults : 0..MaxFaults] /\ runs \in Seq(Nat)
      /\ count.faults < MaxFaults /\ count' = [count EXCEPT !["faults"] = @ + 1]
  BY BaseParts DEF Tally, Counted
<1>2. count.faults + 1 \in 0..MaxFaults
  BY <1>1, BoundAssumption
<1>3. count' \in [requests : 0..MaxRequests, faults : 0..MaxFaults] /\ count'.faults = count.faults + 1
  BY <1>1, <1>2
<1> QED
  BY <1>1, <1>3 DEF Tally

LEMMA InitBase == Init => Base
<1> SUFFICES ASSUME Init PROVE Base
  OBVIOUS
<1> USE DEF Init
<1>1. now \in 0..MaxTime
  BY BoundAssumption
<1>2. Counters
  BY DEF Counters
<1>3. Requests
  BY DEF Requests
<1>4. Tables
  BY AccountAssumption, FS_EmptySet DEF Tables
<1>5. Memories
  BY DEF Memories
<1>6. Tally
  BY BoundAssumption DEF Tally
<1> QED
  BY <1>1, <1>2, <1>3, <1>4, <1>5, <1>6, BaseParts

LEMMA ElapseBase ==
  ASSUME Base, Elapse PROVE Base'
<1> USE DEF Elapse
<1>1. now \in 0..MaxTime /\ now < MaxTime /\ now' = now + 1 /\ now' \in 0..MaxTime
  BY BaseParts, BoundAssumption
<1>2. Counters'
  <2>1. DOMAIN counter' \subseteq DOMAIN counter
    OBVIOUS
  <2>2. ASSUME NEW k \in DOMAIN counter'
        PROVE  counter'[k] = counter[k] /\ counter[k].until > now'
    BY <2>2
  <2>3. ASSUME NEW k \in DOMAIN counter'
        PROVE  /\ counter'[k].count \in Nat \ {0}
               /\ counter'[k].until \in (now' + 1)..(now' + WindowOf[k.limit])
               /\ counter'[k].by \in [Kind \X Ip -> Nat]
    <3>1. /\ k \in Key /\ counter[k].count \in Nat \ {0}
          /\ counter[k].until \in (now + 1)..(now + WindowOf[k.limit])
          /\ counter[k].by \in [Kind \X Ip -> Nat]
      BY <2>1, <2>3, BaseParts DEF Counters
    <3>2. WindowOf[k.limit] \in Nat
      BY <3>1, Numbers DEF Key
    <3> QED
      BY <1>1, <2>2, <2>3, <3>1, <3>2
  <2> QED
    BY <2>1, <2>3, BaseParts DEF Counters
<1>3. Requests'
  <2>1. doing' = doing
    OBVIOUS
  <2>2. ASSUME NEW th \in Thread, doing[th] # None PROVE Fine(doing[th], now')
    <3>1. /\ Fine(doing[th], now) /\ now < doing[th].at + MaxDelay
          /\ doing[th] \in RequestRecord
      BY <2>2, BaseParts DEF Requests, Busy
    <3>2. /\ doing[th].at \in Nat
          /\ doing[th].guest # None => doing[th].guest \in Guest
      BY <3>1 DEF RequestRecord
    <3>3. doing[th].guest # None => doing[th].guest.at \in Nat
      BY <3>2 DEF Guest
    <3> QED
      BY <1>1, <3>1, <3>2, <3>3, Numbers DEF Fine
  <2> QED
    BY <2>1, <2>2, BaseParts DEF Requests
<1>4. Tables'
  <2>1. UNCHANGED <<users, guests, minted>>
    BY DEF tables, history
  <2>2. ASSUME NEW g \in minted PROVE g.at <= now'
    <3>1. g \in Guest /\ g.at <= now
      BY BaseParts DEF Tables
    <3> QED
      BY <1>1, <3>1 DEF Guest
  <2> QED
    BY <2>1, <2>2, BaseParts DEF Tables
<1>5. Memories'
  BY BaseParts DEF Memories
<1>6. Tally'
  BY SameTally DEF history
<1> QED
  BY <1>1, <1>2, <1>3, <1>4, <1>5, <1>6, BasePartsNext

LEMMA RestartBase ==
  ASSUME Base, Restart PROVE Base'
<1>1. Counters' /\ Memories' /\ Tally' /\ now' \in 0..MaxTime
  BY SameCounters, SameMemories, FaultTally, BaseParts DEF Restart, history
<1>2. Requests'
  BY DEF Restart, Requests
<1>3. Tables'
  BY BaseParts DEF Restart, Tables, history
<1> QED
  BY <1>1, <1>2, <1>3, BasePartsNext

\* A click without a usable guest may be a failed lookup: a fault then.
LEMMA BeginBase ==
  ASSUME Base, NEW th \in Thread, NEW kind \in Kind, NEW ip \in Ip, NEW who \in Email \cup {None},
         kind # "demo" => who \in Email, Begin(th, kind, ip, who), NEW f \in {0, 1}, CountRequest(f), f = 0 \/ count.faults < MaxFaults
  PROVE  Base' /\ count'.faults = count.faults + f
<1>1. Counters' /\ Tables' /\ Memories'
  BY SameCounters, SameTables, SameMemories DEF Begin, BeginWith, history
<1>2. Tally' /\ count'.faults = count.faults + f
  BY RequestTally DEF Begin, BeginWith, history
<1>3. PICK v : Turn(th, v)
  BY BeginTurns
<1> QED
  BY <1>1, <1>2, <1>3, BaseTurn

\* The three ways a request begins.
LEMMA Beginnings ==
  ASSUME Base, NEW th \in Thread,
         \/ \E kind \in {"signup", "login"}, ip \in Ip, email \in Email : SubmitForm(th, kind, ip, email)
         \/ \E ip \in Ip, email \in Email : RequestSimulation(th, ip, email)
         \/ \E ip \in Ip : ClickDemo(th, ip)
  PROVE  \E kind \in Kind, ip \in Ip, who \in Email \cup {None}, f \in {0, 1} :
           /\ Begin(th, kind, ip, who) /\ CountRequest(f)
           /\ kind # "demo" => who \in Email
           /\ f = 0 \/ count.faults < MaxFaults
           /\ kind = "demo" => IF Reusable(ip) THEN f = 1 ELSE f = 0
<1>1. CASE \E kind \in {"signup", "login"}, ip \in Ip, email \in Email : SubmitForm(th, kind, ip, email)
  BY <1>1, Kinds DEF SubmitForm
<1>2. CASE \E ip \in Ip, email \in Email : RequestSimulation(th, ip, email)
  BY <1>2, Kinds DEF RequestSimulation
<1>3. CASE \E ip \in Ip : ClickDemo(th, ip)
  BY <1>3, Kinds DEF ClickDemo
<1> QED
  BY <1>1, <1>2, <1>3

LEMMA HitBase ==
  ASSUME Base, NEW th \in Thread, HitLimit(th) PROVE Base'
<1>1. UNCHANGED <<now, tables, guestOf, count, minted, runs>>
  BY DEF HitLimit, history
<1>2. PICK v : Turn(th, v)
  BY HitTurns
<1>3. Counters'
  BY <1>1, HitTurns, IncrementTypes
<1> QED
  BY <1>1, <1>2, <1>3, BaseTurn, SameTables, SameMemories, SameTally

LEMMA SlotBase ==
  ASSUME Base, NEW th \in Thread, TakeSlot(th) PROVE Base'
<1>1. UNCHANGED <<now, tables, guestOf, count, minted, runs>>
  BY DEF TakeSlot, history
<1>2. PICK v : Turn(th, v)
  BY SlotTurns
<1>3. Counters'
  BY <1>1, SlotTurns, IncrementTypes, SameCounters
<1> QED
  BY <1>1, <1>2, <1>3, BaseTurn, SameTables, SameMemories, SameTally

LEMMA OpenBase ==
  ASSUME Base, NEW th \in Thread, FailOpen(th) PROVE Base' /\ count'.faults = count.faults + 1
<1>1. UNCHANGED <<now, counter, tables, guestOf, minted, runs>>
  BY DEF FailOpen, history
<1>2. PICK v : Turn(th, v)
  BY OpenTurns
<1>3. Tally' /\ count'.faults = count.faults + 1
  BY <1>1, FaultTally DEF FailOpen
<1> QED
  BY <1>1, <1>2, <1>3, BaseTurn, SameTables, SameMemories, SameCounters

LEMMA FailBase ==
  ASSUME Base, NEW th \in Thread, RequestFails(th) PROVE Base' /\ count'.faults = count.faults + 1
<1>1. UNCHANGED <<now, counter, tables, guestOf, minted, runs>>
  BY DEF RequestFails, history
<1>2. Turn(th, None)
  BY <1>1, EndTurns DEF RequestFails
<1>3. Tally' /\ count'.faults = count.faults + 1
  BY <1>1, FaultTally DEF RequestFails
<1> QED
  BY <1>1, <1>2, <1>3, BaseTurn, SameTables, SameMemories, SameCounters

\* An admitted request is one of the plan's kind with nothing left to pass.
LEMMA AdmittedFacts ==
  ASSUME Base, NEW th \in Thread, NEW kind, Admitted(th, kind)
  PROVE  /\ doing[th] \in RequestRecord /\ Fine(doing[th], now)
         /\ doing[th].kind = kind /\ doing[th].left = <<>> /\ kind \in Kind /\ kind # "login"
<1>1. doing[th] \in RequestRecord /\ Fine(doing[th], now) /\ doing[th].kind = kind /\ doing[th].left = <<>>
  BY BaseParts DEF Requests, Admitted, Busy
<1>2. kind \in Kind
  BY <1>1 DEF RequestRecord
<1>3. <<>> \in Rest[kind]
  BY <1>1 DEF Fine
<1>4. <<>> \notin Rest["login"]
  BY DEF Rest
<1> QED
  BY <1>1, <1>2, <1>3, <1>4

LEMMA AccountBase ==
  ASSUME Base, NEW th \in Thread, CreateAccount(th) PROVE Base' /\ doing[th].who \in Email
<1>1. UNCHANGED <<now, counter, guests, guestOf, count, minted, runs>>
  BY DEF CreateAccount, history
<1>2. Turn(th, None)
  BY <1>1, EndTurns DEF CreateAccount
<1>3. doing[th].who \in Email
  BY AdmittedFacts DEF CreateAccount, Fine
<1>4. Tables'
  BY <1>1, <1>3, BaseParts DEF Tables, CreateAccount
<1> QED
  BY <1>1, <1>2, <1>3, <1>4, BaseTurn, SameTally, SameMemories, SameCounters

LEMMA RememberBase ==
  ASSUME Base, NEW th \in Thread, RememberGuest(th) PROVE Base'
<1>1. UNCHANGED <<now, counter, tables, count, minted, runs>>
  BY DEF RememberGuest, RememberFor, history
<1>2. Turn(th, None)
  BY <1>1, EndTurns DEF RememberGuest, RememberFor
<1>3. doing[th] \in RequestRecord /\ doing[th].guest # None
  BY AdmittedFacts DEF RememberGuest, RememberFor
<1>4. doing[th].ip \in Ip /\ doing[th].guest \in Guest /\ now \in Nat
  BY <1>3, BaseParts, BoundAssumption DEF RequestRecord
<1> DEFINE m == [guest |-> doing[th].guest, until |-> now + GuestAge]
<1>5. m \in Memory /\ m.until > now
  BY <1>4, Numbers DEF Memory
<1>6. guestOf' = [guestOf EXCEPT ![doing[th].ip] = m]
  BY DEF RememberGuest, RememberFor
<1> HIDE DEF m
<1>7. Memories'
  BY <1>1, <1>4, <1>5, <1>6, BaseParts DEF Memories
<1> QED
  BY <1>1, <1>2, <1>7, BaseTurn, SameTally, SameTables, SameCounters

LEMMA PublishBase ==
  ASSUME Base, NEW th \in Thread, PublishSimulation(th)
  PROVE  Base' /\ now \in Nat /\ runs' = Append(runs, now)
<1>1. UNCHANGED <<now, counter, tables, guestOf, count, minted>> /\ runs' = Append(runs, now)
  BY DEF PublishSimulation
<1>2. Turn(th, None)
  BY <1>1, EndTurns DEF PublishSimulation
<1>3. now \in Nat
  BY BaseParts, BoundAssumption
<1>4. Tally'
  BY <1>1, <1>3, BaseParts DEF Tally
<1> QED
  BY <1>1, <1>2, <1>3, <1>4, BaseTurn, SameMemories, SameTables, SameCounters

\* The guest a demo makes, and the request that carries it.
Made(th) == [ip |-> doing[th].ip, at |-> now, n |-> Cardinality(minted)]

LEMMA GuestFacts ==
  ASSUME Base, NEW th \in Thread, CreateGuest(th)
  PROVE  /\ Base' /\ Made(th) \in Guest /\ Made(th).ip = doing[th].ip /\ Made(th).at = now
         /\ minted' = minted \cup {Made(th)}
         /\ doing[th] \in RequestRecord /\ Fine(doing[th], now)
         /\ LET v == [doing[th] EXCEPT !.guest = Made(th)]
            IN  /\ Turn(th, v) /\ v # None /\ v.guest = Made(th) /\ v.guest # None
                /\ v.kind = "demo" /\ v.left = <<>> /\ v.ip = doing[th].ip /\ v.at = doing[th].at
<1> DEFINE v == [doing[th] EXCEPT !.guest = Made(th)]
<1>1. /\ UNCHANGED <<now, counter, users, guestOf, count, runs>>
      /\ minted' = minted \cup {Made(th)} /\ guests' = guests \cup {Made(th)}
      /\ doing' = [doing EXCEPT ![th] = v]
  BY DEF CreateGuest, Made
<1>2. /\ doing[th] \in RequestRecord /\ Fine(doing[th], now) /\ doing[th].kind = "demo"
      /\ doing[th].left = <<>> /\ doing[th].ip \in Ip
  BY AdmittedFacts DEF CreateGuest, RequestRecord
<1>3. now \in Nat /\ IsFiniteSet(minted)
  BY BaseParts, BoundAssumption DEF Tables
<1>4. Made(th) \in Guest /\ Made(th).ip = doing[th].ip /\ Made(th).at = now
  BY <1>2, <1>3, FS_CardinalityType DEF Made, Guest
<1>5. Made(th) # None
  BY <1>4, AccountAssumption
<1>6. /\ v \in RequestRecord /\ v.guest = Made(th) /\ v.kind = "demo" /\ v.left = <<>>
      /\ v.ip = doing[th].ip /\ v.at = doing[th].at
  BY <1>2, <1>4 DEF RequestRecord
<1>7. Fine(v, now) /\ v # None
  BY <1>2, <1>3, <1>4, <1>6, AccountAssumption DEF Fine
<1>8. Turn(th, v)
  BY <1>1, <1>6, <1>7 DEF Turn
<1>9. Tables'
  <2>1. IsFiniteSet(minted')
    BY <1>1, <1>3, FS_AddElement
  <2> QED
    BY <1>1, <1>3, <1>4, <2>1, BaseParts DEF Tables
<1>10. Base'
  BY <1>1, <1>8, <1>9, BaseTurn, SameMemories, SameTally, SameCounters
<1> QED
  BY <1>1, <1>2, <1>4, <1>5, <1>6, <1>7, <1>8, <1>10

LEMMA StutterBase ==
  ASSUME Base, UNCHANGED vars PROVE Base'
BY DEF Base, TypeOK, Orderly, Busy, Fine, vars, tables, history

LEMMA BaseStep == Base /\ [Next]_vars => Base'
<1> SUFFICES ASSUME Base, [Next]_vars PROVE Base'
  OBVIOUS
<1>1. CASE Elapse
  BY <1>1, ElapseBase
<1>2. CASE Restart
  BY <1>2, RestartBase
<1>3. ASSUME NEW th \in Thread, Request(th) PROVE Base'
  BY <1>3, Beginnings, BeginBase, HitBase, SlotBase, OpenBase, FailBase, AccountBase, GuestFacts,
     RememberBase, PublishBase DEF Request
<1>4. CASE UNCHANGED vars
  BY <1>4, StutterBase
<1> QED
  BY <1>1, <1>2, <1>3, <1>4 DEF Next

LEMMA AlwaysBase == Spec => []Base
BY InitBase, BaseStep, PTL DEF Spec

\* Every variable keeps its type, and every key that counts requests lapses within
\* its limit's window (guard.hit's SET NX EX), whatever the threads do.
THEOREM TypeCorrect == Spec => []TypeOK
<1>1. Base => TypeOK
  BY DEF Base
<1> QED
  BY <1>1, AlwaysBase, PTL

-----------------------------------------------------------------------------
(* Nobody is refused for what others did.                                  *)

\* A key only holds requests of the kinds that are limited by it, and of its address.
ByWhom ==
  \A k \in DOMAIN counter : \A kind \in Kind, ip \in Ip :
    counter[k].by[<<kind, ip>>] > 0 =>
      k.limit \in LimitsOf[kind] /\ (k.limit \in PerAddress => ip = k.ip)

\* What a step does to the counters: the clock drops some, a request counts one up.
LEMMA Counting ==
  ASSUME Base, [Next]_vars
  PROVE  \/ Elapse
         \/ counter' = counter /\ now' = now
         \/ now' = now /\ \E th \in Thread :
              LET r == doing[th] IN
              \E k \in Key : /\ r \in RequestRecord /\ k.limit \in LimitsOf[r.kind] /\ k = KeyOf(k.limit, r)
                             /\ k.limit \in PerAddress => k.ip = r.ip
                             /\ Increment(k, r)
<1>1. CASE Restart \/ UNCHANGED vars
  BY <1>1 DEF Restart, vars
<1>2. ASSUME NEW th \in Thread, Request(th) PROVE now' = now
  BY <1>2 DEF Request, SubmitForm, RequestSimulation, ClickDemo, Begin, BeginWith, HitLimit, TakeSlot,
     FailOpen, RequestFails, CreateAccount, CreateGuest, RememberGuest, RememberFor, PublishSimulation
<1>3. ASSUME NEW th \in Thread, Request(th), counter' # counter
      PROVE  LET r == doing[th] IN
              \E k \in Key : /\ r \in RequestRecord /\ k.limit \in LimitsOf[r.kind] /\ k = KeyOf(k.limit, r)
                             /\ k.limit \in PerAddress => k.ip = r.ip
                             /\ Increment(k, r)
  <2>1. CASE HitLimit(th)
    <3>1. /\ doing[th] \in RequestRecord /\ Head(doing[th].left) \in LimitsOf[doing[th].kind]
          /\ Head(doing[th].left) \in Limit
          /\ Increment(KeyOf(Head(doing[th].left), doing[th]), doing[th])
      BY <2>1, HitTurns
    <3> QED
      BY <3>1, KeyFacts
  <2>2. CASE TakeSlot(th)
    <3>1. /\ doing[th] \in RequestRecord /\ Head(doing[th].left) \in LimitsOf[doing[th].kind]
          /\ doing[th].kind \in Kind
          /\ Increment(KeyOf(Head(doing[th].left), doing[th]), doing[th])
      BY <1>3, <2>2, SlotTurns DEF RequestRecord
    <3>2. Head(doing[th].left) \in Limit
      BY <3>1, Limits
    <3> QED
      BY <3>1, <3>2, KeyFacts
  <2>3. CASE FailOpen(th) \/ RequestFails(th) \/ CreateAccount(th) \/ CreateGuest(th)
             \/ RememberGuest(th) \/ PublishSimulation(th)
    BY <1>3, <2>3 DEF FailOpen, RequestFails, CreateAccount, CreateGuest, RememberGuest,
                      RememberFor, PublishSimulation
  <2>4. CASE \/ \E kind \in {"signup", "login"}, ip \in Ip, email \in Email : SubmitForm(th, kind, ip, email)
             \/ \E ip \in Ip, email \in Email : RequestSimulation(th, ip, email)
             \/ \E ip \in Ip : ClickDemo(th, ip)
    BY <1>3, <2>4 DEF SubmitForm, RequestSimulation, ClickDemo, Begin, BeginWith
  <2> QED
    BY <1>3, <2>1, <2>2, <2>3, <2>4 DEF Request
<1> QED
  BY <1>1, <1>2, <1>3 DEF Next

LEMMA ByWhomStep == Base /\ ByWhom /\ [Next]_vars => ByWhom'
<1> SUFFICES ASSUME Base, ByWhom, [Next]_vars,
                    NEW x \in DOMAIN counter', NEW kind \in Kind, NEW ip \in Ip,
                    counter'[x].by[<<kind, ip>>] > 0
             PROVE  x.limit \in LimitsOf[kind] /\ (x.limit \in PerAddress => ip = x.ip)
  BY DEF ByWhom
<1> HIDE DEF PerAddress, Kind
<1>1. CASE x \in DOMAIN counter /\ counter'[x] = counter[x]
  BY <1>1 DEF ByWhom
<1>2. ASSUME ~ (x \in DOMAIN counter /\ counter'[x] = counter[x])
      PROVE  x.limit \in LimitsOf[kind] /\ (x.limit \in PerAddress => ip = x.ip)
  <2>1. PICK th \in Thread : \E k \in Key :
          /\ doing[th] \in RequestRecord /\ k.limit \in LimitsOf[doing[th].kind]
          /\ k.limit \in PerAddress => k.ip = doing[th].ip
          /\ Increment(k, doing[th])
    <3>1. ~ Elapse /\ counter' # counter
      BY <1>2 DEF Elapse
    <3> QED
      BY <3>1, Counting
  <2> DEFINE r == doing[th]
  <2>2. PICK k \in Key :
          /\ r \in RequestRecord /\ k.limit \in LimitsOf[r.kind]
          /\ k.limit \in PerAddress => k.ip = r.ip
          /\ Increment(k, r)
    BY <2>1
  <2> HIDE DEF r
  <2>3. /\ DOMAIN counter' = DOMAIN counter \cup {k}
        /\ \A y \in DOMAIN counter : y # k => counter'[y] = counter[y]
        /\ counter'[k].by = [Entry(k).by EXCEPT ![<<r.kind, r.ip>>] = @ + 1]
    BY <2>2, IncrementFacts
  <2>4. x = k
    BY <1>2, <2>3
  <2>5. Entry(k).by \in [Kind \X Ip -> Nat]
    BY EntryFacts
  <2>6. CASE kind = r.kind /\ ip = r.ip
    BY <2>2, <2>4, <2>6
  <2>7. CASE ~ (kind = r.kind /\ ip = r.ip)
    <3>1. <<kind, ip>> # <<r.kind, r.ip>> /\ <<kind, ip>> \in Kind \X Ip
      BY <2>7
    <3>2. counter'[k].by[<<kind, ip>>] = Entry(k).by[<<kind, ip>>]
      BY <2>3, <2>5, <3>1
    <3>3. Entry(k).by[<<kind, ip>>] > 0
      BY <2>4, <3>2
    <3>4. k \in DOMAIN counter
      BY <3>1, <3>3 DEF Entry, Nobody
    <3> QED
      BY <2>4, <3>3, <3>4 DEF Entry, ByWhom
  <2> QED
    BY <2>6, <2>7
<1> QED
  BY <1>1, <1>2

\* Nobody is refused for what others did: what fills an address's limit came from
\* that address, what fills a site-wide budget are requests of its own kind.
THEOREM RefusedForOwnRequests == Spec => []RefusalsAreDeserved
<1>1. Init => ByWhom
  BY DEF Init, ByWhom
<1>2. ByWhom => RefusalsAreDeserved
  <2> SUFFICES ASSUME ByWhom, NEW k \in DOMAIN counter, NEW kind \in Kind, NEW ip \in Ip,
                      counter[k].by[<<kind, ip>>] > 0
               PROVE  /\ k.limit \in PerAddress => ip = k.ip
                      /\ \A b \in SiteBudgets : k.limit = b[2] => kind = b[1]
    BY DEF RefusalsAreDeserved
  <2>1. k.limit \in LimitsOf[kind] /\ (k.limit \in PerAddress => ip = k.ip)
    BY DEF ByWhom
  <2>2. "accounts_day" \in LimitsOf[kind] => kind = "signup"
    BY Kinds DEF LimitsOf
  <2>3. "guests_day" \in LimitsOf[kind] => kind = "demo"
    BY Kinds DEF LimitsOf
  <2>4. \A b \in SiteBudgets : k.limit = b[2] => kind = b[1]
    BY <2>1, <2>2, <2>3 DEF SiteBudgets
  <2> QED
    BY <2>1, <2>4
<1> QED
  BY <1>1, <1>2, ByWhomStep, AlwaysBase, PTL DEF Spec

-----------------------------------------------------------------------------
(* How a request moves on.                                                 *)

\* The thread's request passes its next limit.
Advance(th) ==
  /\ doing[th] \in RequestRecord /\ Fine(doing[th], now) /\ doing[th] # None
  /\ doing[th].left # <<>> /\ doing'[th].left = Tail(doing[th].left)
  /\ doing'[th].kind = doing[th].kind /\ doing'[th].ip = doing[th].ip
  /\ doing'[th].at = doing[th].at /\ doing'[th].guest = doing[th].guest

LEMMA AdvanceFacts ==
  ASSUME Base, NEW th \in Thread, NEW v, Turn(th, v), Passing(th, v), v # None,
         doing[th] # None, doing[th].left # <<>>
  PROVE  Advance(th)
<1>1. doing[th] \in RequestRecord /\ Fine(doing[th], now)
  BY BaseParts DEF Requests
<1>2. doing'[th] = [doing[th] EXCEPT !.left = Tail(@)]
  BY TurnKeeps DEF Passing
<1> QED
  BY <1>1, <1>2 DEF Advance, RequestRecord

Begins(th) ==
  \E kind \in Kind, ip \in Ip, who \in Email \cup {None}, f \in {0, 1} :
    /\ Begin(th, kind, ip, who) /\ CountRequest(f)
    /\ kind # "demo" => who \in Email
    /\ f = 0 \/ count.faults < MaxFaults
    /\ kind = "demo" => IF Reusable(ip) THEN f = 1 ELSE f = 0

\* What a thread can be doing after a step of its own.
LEMMA Moves ==
  ASSUME Base, NEW th \in Thread, Request(th), doing'[th] # None
  PROVE  \/ Begins(th) /\ doing[th] = None
         \/ /\ HitLimit(th) /\ Advance(th)
            /\ Increment(KeyOf(Head(doing[th].left), doing[th]), doing[th])
            /\ Entry(KeyOf(Head(doing[th].left), doing[th])).count + 1 <= CountOf[Head(doing[th].left)]
            /\ Head(doing[th].left) \notin Slot
         \/ /\ TakeSlot(th) /\ Advance(th)
            /\ Increment(KeyOf(Head(doing[th].left), doing[th]), doing[th])
            /\ KeyOf(Head(doing[th].left), doing[th]) \notin DOMAIN counter
            /\ Head(doing[th].left) \in Slot
         \/ FailOpen(th) /\ Advance(th) /\ Head(doing[th].left) \notin Slot
         \/ CreateGuest(th)
<1>1. CASE \/ \E kind \in {"signup", "login"}, ip \in Ip, email \in Email : SubmitForm(th, kind, ip, email)
           \/ \E ip \in Ip, email \in Email : RequestSimulation(th, ip, email)
           \/ \E ip \in Ip : ClickDemo(th, ip)
  <2>1. Begins(th)
    BY <1>1, Beginnings DEF Begins
  <2> QED
    BY <2>1 DEF Begins, Begin, BeginWith, Busy
<1>2. CASE HitLimit(th)
  <2> DEFINE k == KeyOf(Head(doing[th].left), doing[th])
  <2>1. PICK v : /\ Turn(th, v) /\ Passing(th, v)
                 /\ v # None => Entry(k).count + 1 <= CountOf[k.limit]
    BY <1>2, HitTurns
  <2>2. /\ doing[th] # None /\ doing[th].left # <<>> /\ Head(doing[th].left) \notin Slot
        /\ k.limit = Head(doing[th].left) /\ Increment(k, doing[th])
    BY <1>2, HitTurns DEF HitLimit, Busy
  <2>3. v # None
    BY <2>1, TurnKeeps
  <2> QED
    BY <1>2, <2>1, <2>2, <2>3, AdvanceFacts
<1>3. CASE TakeSlot(th)
  <2> DEFINE k == KeyOf(Head(doing[th].left), doing[th])
  <2>1. doing[th] # None /\ doing[th].left # <<>> /\ Head(doing[th].left) \in Slot
    BY <1>3, SlotTurns DEF TakeSlot, Busy
  <2>2. ~ Turn(th, None)
    BY TurnKeeps
  <2>3. k \notin DOMAIN counter /\ Increment(k, doing[th])
    BY <1>3, <2>2, SlotTurns
  <2>4. PICK v : Turn(th, v) /\ Passing(th, v)
    BY <1>3, <2>2, SlotTurns
  <2>5. v # None
    BY <2>2, <2>4
  <2> QED
    BY <1>3, <2>1, <2>3, <2>4, <2>5, AdvanceFacts
<1>4. CASE FailOpen(th)
  <2>1. doing[th] # None /\ doing[th].left # <<>> /\ Head(doing[th].left) \notin Slot
    BY <1>4 DEF FailOpen, Busy
  <2>2. PICK v : Turn(th, v) /\ Passing(th, v)
    BY <1>4, OpenTurns
  <2>3. v # None
    BY <2>2, TurnKeeps
  <2> QED
    BY <1>4, <2>1, <2>2, <2>3, AdvanceFacts
<1>5. CASE RequestFails(th) \/ CreateAccount(th) \/ RememberGuest(th) \/ PublishSimulation(th)
  <2>1. Ends(th)
    BY <1>5 DEF RequestFails, CreateAccount, RememberGuest, RememberFor, PublishSimulation
  <2> QED
    BY <2>1, BaseParts DEF Ends, Requests
<1> QED
  BY <1>1, <1>2, <1>3, <1>4, <1>5 DEF Request

\* The other threads stay as they are.
LEMMA Others ==
  ASSUME Base, NEW th \in Thread, Request(th)
  PROVE  /\ now' = now /\ DOMAIN doing' = Thread
         /\ \A o \in Thread : o # th => doing'[o] = doing[o]
<1>1. now' = now
  BY DEF Request, SubmitForm, RequestSimulation, ClickDemo, Begin, BeginWith, HitLimit, TakeSlot,
     FailOpen, RequestFails, CreateAccount, CreateGuest, RememberGuest, RememberFor, PublishSimulation
<1>2. \E v : doing' = [doing EXCEPT ![th] = v]
  BY Zenon DEF Request, SubmitForm, RequestSimulation, ClickDemo, Begin, BeginWith, HitLimit, TakeSlot,
     FailOpen, RequestFails, CreateAccount, CreateGuest, RememberGuest, RememberFor, PublishSimulation,
     Passes, Ends
<1>3. DOMAIN doing = Thread
  BY BaseParts DEF Requests
<1> QED
  BY <1>1, <1>2, <1>3

\* The last limit of a kind, and the one before it.
LEMMA LastLimit ==
  ASSUME NEW kind \in Kind, NEW left \in Rest[kind], left # <<>>
  PROVE  /\ kind = "signup" /\ Tail(left) = <<>> => left = <<"accounts_day">>
         /\ kind = "demo" /\ Tail(left) = <<>> => left = <<"guests_day">>
         /\ kind = "simulate" /\ Tail(left) = <<>> => left = <<"sim_global">>
         /\ kind = "signup" /\ Tail(left) = <<"accounts_day">> => Head(left) = "signup_ip"
         /\ kind = "demo" /\ Tail(left) = <<"guests_day">> => Head(left) = "guest_ip"
<1>1. CASE kind = "signup"
  <2>1. left = <<"signup_ip", "accounts_day">> \/ left = <<"accounts_day">>
    BY <1>1 DEF Rest
  <2>2. CASE left = <<"signup_ip", "accounts_day">>
    BY <1>1, <2>2
  <2>3. CASE left = <<"accounts_day">>
    BY <1>1, <2>3
  <2> QED
    BY <2>1, <2>2, <2>3
<1>2. CASE kind = "demo"
  <2>1. left = <<"guest_ip", "guests_day">> \/ left = <<"guests_day">>
    BY <1>2 DEF Rest
  <2>2. CASE left = <<"guest_ip", "guests_day">>
    BY <1>2, <2>2
  <2>3. CASE left = <<"guests_day">>
    BY <1>2, <2>3
  <2> QED
    BY <2>1, <2>2, <2>3
<1>3. CASE kind = "simulate"
  <2>1. \/ left = <<"api_ip", "sim_slot", "sim_ip", "sim_global">>
        \/ left = <<"sim_slot", "sim_ip", "sim_global">>
        \/ left = <<"sim_ip", "sim_global">> \/ left = <<"sim_global">>
    BY <1>3 DEF Rest
  <2>2. CASE left = <<"api_ip", "sim_slot", "sim_ip", "sim_global">>
    BY <1>3, <2>2
  <2>3. CASE left = <<"sim_slot", "sim_ip", "sim_global">>
    BY <1>3, <2>3
  <2>4. CASE left = <<"sim_ip", "sim_global">>
    BY <1>3, <2>4
  <2> QED
    BY <1>3, <2>1, <2>2, <2>3, <2>4
<1> QED
  BY <1>1, <1>2, <1>3

\* The key of a site-wide limit, and an address's own.
SiteKey(site) == [limit |-> site, ip |-> None, who |-> None]
OwnKey(own, ip) == [limit |-> own, ip |-> ip, who |-> None]

LEMMA SiteKeys ==
  ASSUME NEW site \in {"accounts_day", "guests_day", "sim_global"}
  PROVE  /\ SiteKey(site) \in Key /\ SiteKey(site).limit = site /\ site \in Limit
         /\ \A r \in RequestRecord : KeyOf(site, r) = SiteKey(site)
<1>1. site \in Limit
  <2>1. \E kind \in Kind : site \in LimitsOf[kind]
    BY Kinds DEF LimitsOf
  <2> QED
    BY <2>1, Limits
<1>2. site \notin PerAddress /\ site \notin PerAccount
  BY DEF PerAddress, PerAccount
<1> HIDE DEF Limit, PerAddress, PerAccount
<1> QED
  BY <1>1, <1>2 DEF SiteKey, KeyOf, Key

LEMMA OwnKeys ==
  ASSUME NEW own \in {"signup_ip", "guest_ip"}, NEW ip \in Ip
  PROVE  /\ OwnKey(own, ip) \in Key /\ OwnKey(own, ip).limit = own /\ own \in Limit
         /\ \A r \in RequestRecord : r.ip = ip => KeyOf(own, r) = OwnKey(own, ip)
<1>1. own \in Limit
  <2>1. \E kind \in Kind : own \in LimitsOf[kind]
    BY Kinds DEF LimitsOf
  <2> QED
    BY <2>1, Limits
<1>2. own \in PerAddress /\ own \notin PerAccount
  BY DEF PerAddress, PerAccount
<1> HIDE DEF Limit, PerAddress, PerAccount
<1> QED
  BY <1>1, <1>2 DEF OwnKey, KeyOf, Key

-----------------------------------------------------------------------------
(* Simulations keep their distance.                                        *)

Global == SiteKey("sim_global")
Gap == WindowOf["sim_global"]

\* The slot that was taken at t or later is still taken, or its time has passed.
Shut(t) ==
  \/ now >= t + Gap
  \/ Global \in DOMAIN counter /\ counter[Global].until >= t + Gap

ShutNext(t) ==
  \/ now' >= t + Gap
  \/ Global \in DOMAIN counter' /\ counter'[Global].until >= t + Gap

\* Every published simulation, and every one that is about to be, took the slot at
\* most MaxDelay before; two are about to be only when the slot lapsed in between.
Spaced ==
  /\ SimulationsAreSpaced
  /\ \A i \in DOMAIN runs : Shut(runs[i] - MaxDelay)
  /\ \A th \in Thread : Admitted(th, "simulate") =>
       /\ Shut(doing[th].at)
       /\ \A i \in DOMAIN runs : now >= runs[i] - MaxDelay + Gap
       /\ \A o \in Thread : o # th /\ Admitted(o, "simulate") => Gap <= MaxDelay

LEMMA GapFacts == Gap \in Nat \ {0} /\ Global \in Key /\ Global.limit = "sim_global"
BY SiteKeys, Numbers DEF Gap, Global

LEMMA ShutStays ==
  ASSUME Base, [Next]_vars, NEW t \in Int, Shut(t)
  PROVE  ShutNext(t)
<1>1. now \in Nat
  BY BaseParts, BoundAssumption
<1>2. ASSUME Global \in DOMAIN counter
      PROVE  counter[Global].until \in Int /\ counter[Global].until > now
  <2>1. counter[Global].until \in (now + 1)..(now + WindowOf[Global.limit]) /\ WindowOf[Global.limit] \in Nat
    BY <1>2, BaseParts, Numbers, SiteKeys DEF Counters, Global
  <2> QED
    BY <1>1, <2>1
<1>3. CASE Elapse
  <2>1. now' = now + 1
    BY <1>3 DEF Elapse
  <2>2. \A k \in DOMAIN counter : counter[k].until > now' => k \in DOMAIN counter' /\ counter'[k] = counter[k]
    BY <1>3 DEF Elapse
  <2> QED
    BY <1>1, <1>2, <2>1, <2>2, GapFacts DEF Shut, ShutNext
<1>4. CASE counter' = counter /\ now' = now
  BY <1>4 DEF Shut, ShutNext
<1>5. ASSUME NEW r \in RequestRecord, NEW k \in Key, Increment(k, r), now' = now
      PROVE  ShutNext(t)
  <2>1. /\ DOMAIN counter' = DOMAIN counter \cup {k}
        /\ \A x \in DOMAIN counter : x # k => counter'[x] = counter[x]
        /\ counter'[k].until = Entry(k).until
    BY <1>5, IncrementFacts
  <2>2. Global \in DOMAIN counter => counter'[Global].until = counter[Global].until
    BY <2>1 DEF Entry
  <2> QED
    BY <1>5, <2>1, <2>2 DEF Shut, ShutNext
<1> QED
  BY <1>3, <1>4, <1>5, Counting

\* A simulation that is admitted was so before, or has just taken the slot.
LEMMA SlotTaken ==
  ASSUME Base, [Next]_vars, NEW th \in Thread, Admitted(th, "simulate")'
  PROVE  \/ Admitted(th, "simulate") /\ doing'[th] = doing[th]
         \/ /\ now' = now /\ Global \notin DOMAIN counter /\ runs' = runs
            /\ Global \in DOMAIN counter' /\ counter'[Global].until = now + Gap
            /\ doing[th] \in RequestRecord /\ Fine(doing[th], now) /\ doing'[th].at = doing[th].at
            /\ \A o \in Thread : o # th => doing'[o] = doing[o]
<1>1. doing'[th] # None /\ doing'[th].kind = "simulate" /\ doing'[th].left = <<>>
  BY DEF Admitted, Busy
<1>2. CASE doing'[th] = doing[th]
  BY <1>1, <1>2 DEF Admitted, Busy
<1>3. ASSUME doing'[th] # doing[th]
      PROVE  /\ now' = now /\ Global \notin DOMAIN counter /\ runs' = runs
             /\ Global \in DOMAIN counter' /\ counter'[Global].until = now + Gap
             /\ doing[th] \in RequestRecord /\ Fine(doing[th], now) /\ doing'[th].at = doing[th].at
             /\ \A o \in Thread : o # th => doing'[o] = doing[o]
  <2>1. ~ Elapse /\ ~ UNCHANGED vars
    BY <1>3 DEF Elapse, vars
  <2>2. ~ Restart
    BY <1>1 DEF Restart
  <2>3. PICK o \in Thread : Request(o)
    BY <2>1, <2>2 DEF Next
  <2>4. o = th
    BY <1>3, <2>3, Others
  <2>5. Request(th)
    BY <2>3, <2>4
  <2>6. ~ Begins(th)
    <3> SUFFICES ASSUME NEW kind \in Kind, NEW ip \in Ip, NEW who, Begin(th, kind, ip, who)
                 PROVE  FALSE
      BY DEF Begins
    <3>1. doing'[th].kind = kind /\ doing'[th].left = Plan[kind]
      BY BaseParts DEF Begin, BeginWith, Requests
    <3> QED
      BY <1>1, <3>1 DEF SimulatePlan, Plan
  <2>7. ~ CreateGuest(th)
    BY <1>1, GuestFacts, TurnKeeps
  <2>8. Advance(th)
    BY <1>1, <2>5, <2>6, <2>7, Moves
  <2>9. doing[th].left = <<"sim_global">>
    <3>1. doing[th].kind = "simulate" /\ doing[th].kind \in Kind /\ doing[th].left \in Rest[doing[th].kind]
      BY <1>1, <2>8 DEF Advance, Fine, RequestRecord
    <3> QED
      BY <1>1, <2>8, <3>1, LastLimit DEF Advance
  <2>10. Head(doing[th].left) = "sim_global" /\ "sim_global" \in Slot
    BY <2>9 DEF Slot
  <2>11. /\ TakeSlot(th) /\ Increment(Global, doing[th]) /\ Global \notin DOMAIN counter
         /\ doing[th] \in RequestRecord
    <3>1. doing[th] \in RequestRecord
      BY <2>8 DEF Advance
    <3>2. KeyOf("sim_global", doing[th]) = Global
      BY <3>1, SiteKeys DEF Global
    <3> QED
      BY <1>1, <2>5, <2>6, <2>7, <2>10, <3>1, <3>2, Moves
  <2>12. counter'[Global].until = now + Gap /\ Global \in DOMAIN counter'
    <3>1. counter'[Global].until = Entry(Global).until /\ DOMAIN counter' = DOMAIN counter \cup {Global}
      BY <2>11, GapFacts, IncrementFacts
    <3>2. Entry(Global).until = now + WindowOf[Global.limit]
      BY <2>11 DEF Entry
    <3> QED
      BY <3>1, <3>2, GapFacts DEF Gap
  <2> QED
    BY <2>5, <2>8, <2>11, <2>12, Others DEF Advance, TakeSlot, history
<1> QED
  BY <1>2, <1>3

\* The simulations that are published, one after the other.
LEMMA Publications ==
  ASSUME Base, [Next]_vars
  PROVE  \/ runs' = runs
         \/ \E th \in Thread : /\ Admitted(th, "simulate") /\ now' = now /\ runs' = Append(runs, now)
                               /\ counter' = counter /\ doing'[th] = None
                               /\ \A o \in Thread : o # th => doing'[o] = doing[o]
<1>1. CASE Elapse \/ Restart \/ UNCHANGED vars
  BY <1>1 DEF Elapse, Restart, vars, history
<1>2. ASSUME NEW th \in Thread, Request(th), ~ PublishSimulation(th)
      PROVE  runs' = runs
  BY <1>2 DEF Request, SubmitForm, RequestSimulation, ClickDemo, Begin, BeginWith, HitLimit, TakeSlot,
     FailOpen, RequestFails, CreateAccount, CreateGuest, RememberGuest, RememberFor, history
<1>3. ASSUME NEW th \in Thread, PublishSimulation(th)
      PROVE  /\ Admitted(th, "simulate") /\ now' = now /\ runs' = Append(runs, now)
             /\ counter' = counter /\ doing'[th] = None
             /\ \A o \in Thread : o # th => doing'[o] = doing[o]
  BY <1>3, BaseParts DEF PublishSimulation, Ends, Requests
<1> QED
  BY <1>1, <1>2, <1>3 DEF Next

LEMMA SpacedStep == Base /\ Spaced /\ [Next]_vars => Spaced'
<1> SUFFICES ASSUME Base, Spaced, [Next]_vars PROVE Spaced'
  OBVIOUS
<1>1. Base' /\ now \in Nat /\ now' \in Nat /\ now <= now' /\ runs \in Seq(Nat) /\ MaxDelay \in Nat /\ Gap \in Nat
  <2>1. now' = now \/ now' = now + 1
    BY Counting DEF Elapse
  <2>2. now \in Nat
    BY BaseParts, BoundAssumption
  <2> QED
    BY <2>1, <2>2, BaseStep, BaseParts, GapFacts, Numbers DEF Tally
<1>2. \A i \in DOMAIN runs : runs[i] \in Nat /\ Shut(runs[i] - MaxDelay)
  BY <1>1 DEF Spaced
<1>3. \A th \in Thread : Admitted(th, "simulate") =>
        /\ doing[th] \in RequestRecord /\ Fine(doing[th], now) /\ doing[th].at \in Nat
        /\ Shut(doing[th].at)
        /\ \A i \in DOMAIN runs : now >= runs[i] - MaxDelay + Gap
        /\ \A o \in Thread : o # th /\ Admitted(o, "simulate") => Gap <= MaxDelay
  BY AdmittedFacts DEF Spaced, RequestRecord
\* The runs, once the step's own is among them.
<1>4. ASSUME NEW i \in DOMAIN runs'
      PROVE  runs'[i] \in Nat /\ ShutNext(runs'[i] - MaxDelay)
  <2>1. CASE runs' = runs
    BY <1>1, <1>2, <1>4, <2>1, ShutStays
  <2>2. ASSUME NEW th \in Thread, Admitted(th, "simulate"), now' = now, runs' = Append(runs, now)
        PROVE  runs'[i] \in Nat /\ ShutNext(runs'[i] - MaxDelay)
    <3>1. runs'[i] = now \/ (i \in DOMAIN runs /\ runs'[i] = runs[i])
      BY <1>1, <1>4, <2>2
    <3>2. CASE i \in DOMAIN runs /\ runs'[i] = runs[i]
      BY <1>1, <1>2, <3>2, ShutStays
    <3>3. CASE runs'[i] = now
      <4>1. doing[th].at >= now - MaxDelay /\ Shut(doing[th].at) /\ doing[th].at \in Nat
        BY <1>1, <1>3, <2>2 DEF Fine
      <4>2. Global \in DOMAIN counter => counter[Global].until \in Int
        BY BaseParts, BoundAssumption, Numbers, GapFacts DEF Counters
      <4>3. Shut(now - MaxDelay)
        BY <1>1, <4>1, <4>2 DEF Shut
      <4> QED
        BY <1>1, <3>3, <4>3, ShutStays
    <3> QED
      BY <3>1, <3>2, <3>3
  <2> QED
    BY <2>1, <2>2, Publications
<1>5. SimulationsAreSpaced'
  <2>1. CASE runs' = runs
    BY <2>1 DEF Spaced, SimulationsAreSpaced
  <2>2. ASSUME NEW th \in Thread, Admitted(th, "simulate"), runs' = Append(runs, now),
               NEW i \in DOMAIN runs', NEW j \in DOMAIN runs', i < j
        PROVE  runs'[j] - runs'[i] >= Gap - MaxDelay
    <3>1. i \in DOMAIN runs /\ runs'[i] = runs[i]
      BY <1>1, <2>2
    <3>2. runs'[j] = now \/ (j \in DOMAIN runs /\ runs'[j] = runs[j])
      BY <1>1, <2>2
    <3>3. CASE runs'[j] = now
      BY <1>1, <1>2, <1>3, <2>2, <3>1, <3>3
    <3>4. CASE j \in DOMAIN runs /\ runs'[j] = runs[j]
      BY <2>2, <3>1, <3>4 DEF Spaced, SimulationsAreSpaced, Gap
    <3> QED
      BY <3>2, <3>3, <3>4
  <2> QED
    BY <2>1, <2>2, Publications DEF SimulationsAreSpaced, Gap
<1>6. ASSUME NEW th \in Thread, Admitted(th, "simulate")'
      PROVE  /\ ShutNext(doing'[th].at)
             /\ \A i \in DOMAIN runs' : now' >= runs'[i] - MaxDelay + Gap
             /\ \A o \in Thread : o # th /\ Admitted(o, "simulate")' => Gap <= MaxDelay
  \* It was admitted before: another one is, or was, or has found the slot free.
  <2>1. CASE Admitted(th, "simulate") /\ doing'[th] = doing[th]
    <3>1. ShutNext(doing'[th].at)
      BY <1>3, <2>1, ShutStays
    <3>2. \A o \in Thread : o # th /\ Admitted(o, "simulate") => Gap <= MaxDelay
      BY <1>3, <2>1
    <3>3. ASSUME NEW o \in Thread, o # th, Admitted(o, "simulate")' PROVE Gap <= MaxDelay
      <4>1. CASE Admitted(o, "simulate")
        BY <3>2, <3>3, <4>1
      <4>2. CASE ~ Admitted(o, "simulate")
        <5>1. Global \notin DOMAIN counter
          BY <3>3, <4>2, SlotTaken
        <5>2. now >= doing[th].at + Gap
          BY <1>3, <2>1, <5>1 DEF Shut
        <5> QED
          BY <1>1, <1>3, <2>1, <5>2 DEF Fine
      <4> QED
        BY <4>1, <4>2
    <3>4. ASSUME NEW i \in DOMAIN runs' PROVE now' >= runs'[i] - MaxDelay + Gap
      <4>1. CASE runs' = runs
        BY <1>1, <1>2, <1>3, <2>1, <3>4, <4>1
      <4>2. ASSUME NEW p \in Thread, Admitted(p, "simulate"), now' = now, runs' = Append(runs, now),
                   doing'[p] = None
            PROVE  now' >= runs'[i] - MaxDelay + Gap
        <5>1. p # th
          BY <1>6, <4>2 DEF Admitted, Busy
        <5>2. Gap <= MaxDelay
          BY <3>2, <4>2, <5>1
        <5>3. runs'[i] = now \/ (i \in DOMAIN runs /\ runs'[i] = runs[i])
          BY <1>1, <3>4, <4>2
        <5> QED
          BY <1>1, <1>2, <1>3, <2>1, <4>2, <5>2, <5>3
      <4> QED
        BY <4>1, <4>2, Publications
    <3> QED
      BY <3>1, <3>3, <3>4
  \* It has just taken the slot: nothing keeps it shut, so the others' time has passed.
  <2>2. CASE /\ now' = now /\ Global \notin DOMAIN counter /\ runs' = runs
             /\ Global \in DOMAIN counter' /\ counter'[Global].until = now + Gap
             /\ doing[th] \in RequestRecord /\ Fine(doing[th], now) /\ doing'[th].at = doing[th].at
             /\ \A o \in Thread : o # th => doing'[o] = doing[o]
    <3>1. doing[th].at \in Nat /\ doing[th].at <= now
      BY <2>2 DEF Fine, RequestRecord
    <3>2. ShutNext(doing'[th].at)
      BY <1>1, <2>2, <3>1 DEF ShutNext
    <3>3. \A i \in DOMAIN runs' : now' >= runs'[i] - MaxDelay + Gap
      BY <1>1, <1>2, <2>2 DEF Shut
    <3>4. ASSUME NEW o \in Thread, o # th, Admitted(o, "simulate")' PROVE Gap <= MaxDelay
      <4>1. Admitted(o, "simulate")
        BY <2>2, <3>4 DEF Admitted, Busy
      <4>2. now >= doing[o].at + Gap
        BY <1>3, <2>2, <4>1 DEF Shut
      <4> QED
        BY <1>1, <1>3, <4>1, <4>2 DEF Fine
    <3> QED
      BY <3>2, <3>3, <3>4
  <2> QED
    BY <1>6, <2>1, <2>2, SlotTaken
<1> QED
  BY <1>4, <1>5, <1>6 DEF Spaced, Shut, ShutNext

\* Simulations leave each other's windows time to close, however late the first one
\* is published after it took the site-wide slot (api_simulate's SET NX EX).
THEOREM SimulationsKeepDistance == Spec => []SimulationsAreSpaced
<1>1. Init => Spaced
  BY DEF Init, Spaced, SimulationsAreSpaced, Admitted, Busy
<1>2. Spaced => SimulationsAreSpaced
  BY DEF Spaced
<1> QED
  BY <1>1, <1>2, SpacedStep, AlwaysBase, PTL DEF Spec

-----------------------------------------------------------------------------
(* Repeat clicks reuse the address's guest.                                *)

\* A guest's address is remembered for as long as the guest counts as its, or that
\* time has passed.
Remembered(g) ==
  \/ now >= g.at + GuestAge
  \/ guestOf[g.ip] # None /\ guestOf[g.ip].until >= g.at + GuestAge

\* A demo of the address that is still to make a guest was clicked while the one
\* that made g was under way, or after g's lifetime.
Apart(g) ==
  \A th \in Thread :
    doing[th] # None /\ doing[th].kind = "demo" /\ doing[th].guest = None /\ doing[th].ip = g.ip =>
      doing[th].at <= g.at + MaxDelay \/ doing[th].at >= g.at + GuestAge

Carried(g) == \E th \in Thread : doing[th] # None /\ doing[th].guest = g

Reuse ==
  /\ \A ip \in Ip : guestOf[ip] # None => guestOf[ip].guest \in minted
  /\ \A th \in Thread : doing[th] # None /\ doing[th].guest # None => doing[th].guest \in minted
  /\ count.faults = 0 =>
       /\ guests = minted /\ RepeatClicksReuse
       /\ \A g \in minted : Apart(g) /\ (Remembered(g) \/ Carried(g))

LEMMA MintedFacts ==
  ASSUME Base, NEW g \in minted
  PROVE  g \in Guest /\ g # None /\ g.ip \in Ip /\ g.at \in Nat /\ g.at <= now /\ now \in Nat
BY BaseParts, BoundAssumption, AccountAssumption DEF Tables, Guest

\* Only RememberGuest writes what an address remembers, and CreateGuest what there is.
LEMMA Remembering ==
  ASSUME Base, NEW th \in Thread, Request(th)
  PROVE  /\ guestOf' = guestOf \/ RememberGuest(th)
         /\ UNCHANGED <<guests, minted>> \/ CreateGuest(th)
BY DEF Request, SubmitForm, RequestSimulation, ClickDemo, Begin, BeginWith, HitLimit, TakeSlot,
   FailOpen, RequestFails, CreateAccount, CreateGuest, RememberGuest, RememberFor, PublishSimulation,
   tables, history

LEMMA FaultsGrow ==
  ASSUME Base, [Next]_vars
  PROVE  count.faults \in Nat /\ count'.faults \in Nat /\ count'.faults >= count.faults
<1>1. count.faults \in Nat
  BY TallyFacts, BoundAssumption
<1>2. CASE Elapse \/ UNCHANGED vars
  BY <1>1, <1>2 DEF Elapse, vars
<1>3. CASE Restart
  BY <1>1, <1>3, FaultTally DEF Restart, history
<1>4. ASSUME NEW th \in Thread, Request(th)
      PROVE  count'.faults \in Nat /\ count'.faults >= count.faults
  <2>1. CASE FailOpen(th) \/ RequestFails(th)
    BY <1>1, <2>1, OpenBase, FailBase
  <2>2. CASE HitLimit(th) \/ TakeSlot(th) \/ CreateAccount(th) \/ CreateGuest(th) \/ RememberGuest(th)
             \/ PublishSimulation(th)
    BY <1>1, <2>2 DEF HitLimit, TakeSlot, CreateAccount, CreateGuest, RememberGuest, RememberFor,
                      PublishSimulation
  <2>3. CASE \/ \E kind \in {"signup", "login"}, ip \in Ip, email \in Email : SubmitForm(th, kind, ip, email)
             \/ \E ip \in Ip, email \in Email : RequestSimulation(th, ip, email)
             \/ \E ip \in Ip : ClickDemo(th, ip)
    <3>1. PICK f \in {0, 1} : CountRequest(f)
      BY <2>3, Beginnings
    <3> QED
      BY <1>1, <3>1 DEF CountRequest
  <2> QED
    BY <1>4, <2>1, <2>2, <2>3 DEF Request
<1> QED
  BY <1>1, <1>2, <1>3, <1>4 DEF Next

\* What is remembered stays so until its time has passed.
LEMMA RememberedStays ==
  ASSUME Base, [Next]_vars, NEW g \in minted, Remembered(g)
  PROVE  Remembered(g)'
<1>1. g.ip \in Ip /\ g.at \in Nat /\ g.at <= now /\ now \in Nat /\ GuestAge \in Nat
  BY MintedFacts, Numbers
<1>2. guestOf[g.ip] # None => guestOf[g.ip].until \in Nat /\ guestOf[g.ip].until > now
  BY <1>1, BaseParts DEF Memories, Memory
<1>3. CASE Elapse
  BY <1>1, <1>2, <1>3 DEF Elapse, Remembered
<1>4. CASE now' = now /\ guestOf' = guestOf
  BY <1>4 DEF Remembered
<1>5. ASSUME NEW th \in Thread, RememberGuest(th)
      PROVE  Remembered(g)'
  <2>1. now' = now /\ guestOf' = [guestOf EXCEPT ![doing[th].ip] = [guest |-> doing[th].guest, until |-> now + GuestAge]]
    BY <1>5 DEF RememberGuest, RememberFor
  <2>2. guestOf \in [Ip -> Memory \cup {None}]
    BY BaseParts DEF Memories
  <2>3. [guest |-> doing[th].guest, until |-> now + GuestAge] # None
    <3>1. doing[th] \in RequestRecord /\ doing[th].guest # None
      BY <1>5, AdmittedFacts DEF RememberGuest, RememberFor
    <3>2. [guest |-> doing[th].guest, until |-> now + GuestAge] \in Memory
      BY <1>1, <3>1 DEF RequestRecord, Memory
    <3> QED
      BY <3>2, AccountAssumption
  <2> QED
    BY <1>1, <2>1, <2>2, <2>3 DEF Remembered
<1>6. CASE Restart \/ UNCHANGED vars
  BY <1>4, <1>6 DEF Restart, vars
<1>7. ASSUME NEW th \in Thread, Request(th) PROVE Remembered(g)'
  BY <1>4, <1>5, <1>7, Remembering, Others
<1> QED
  BY <1>3, <1>6, <1>7 DEF Next

\* A request that begins carries no guest yet.
LEMMA BeginFacts ==
  ASSUME Base, NEW th \in Thread, NEW kind \in Kind, NEW ip \in Ip, NEW who,
         Begin(th, kind, ip, who)
  PROVE  /\ doing'[th].kind = kind /\ doing'[th].ip = ip /\ doing'[th].at = now
         /\ doing'[th].left = Plan[kind] /\ doing'[th].guest = None
         /\ UNCHANGED <<now, counter, guests, users, guestOf, minted, runs>> /\ doing[th] = None
BY BaseParts DEF Begin, BeginWith, Requests, tables, history, Busy

LEMMA CarriedKnown ==
  ASSUME Base, Reuse, [Next]_vars
  PROVE  /\ \A ip \in Ip : guestOf'[ip] # None => guestOf'[ip].guest \in minted'
         /\ \A th \in Thread : doing'[th] # None /\ doing'[th].guest # None => doing'[th].guest \in minted'
<1>1. /\ \A ip \in Ip : guestOf[ip] # None => guestOf[ip].guest \in minted
      /\ \A th \in Thread : doing[th] # None /\ doing[th].guest # None => doing[th].guest \in minted
  BY DEF Reuse
<1>2. CASE Elapse
  BY <1>1, <1>2 DEF Elapse, history
<1>3. CASE Restart \/ UNCHANGED vars
  BY <1>1, <1>3 DEF Restart, vars, history
<1>4. ASSUME NEW th \in Thread, Request(th)
      PROVE  /\ \A ip \in Ip : guestOf'[ip] # None => guestOf'[ip].guest \in minted'
             /\ \A o \in Thread : doing'[o] # None /\ doing'[o].guest # None => doing'[o].guest \in minted'
  <2>1. minted \subseteq minted'
    BY <1>4, Remembering, GuestFacts
  <2>2. ASSUME NEW ip \in Ip, guestOf'[ip] # None PROVE guestOf'[ip].guest \in minted'
    <3>1. CASE guestOf' = guestOf
      BY <1>1, <2>1, <2>2, <3>1
    <3>2. CASE RememberGuest(th)
      <4>1. guestOf' = [guestOf EXCEPT ![doing[th].ip] = [guest |-> doing[th].guest, until |-> now + GuestAge]]
        BY <3>2 DEF RememberGuest, RememberFor
      <4>2. doing[th] # None /\ doing[th].guest # None
        BY <3>2 DEF RememberGuest, RememberFor, Admitted, Busy
      <4>3. guestOf \in [Ip -> Memory \cup {None}]
        BY BaseParts DEF Memories
      <4> QED
        BY <1>1, <2>1, <2>2, <4>1, <4>2, <4>3
    <3> QED
      BY <1>4, <3>1, <3>2, Remembering
  <2>3. ASSUME NEW o \in Thread, doing'[o] # None, doing'[o].guest # None
        PROVE  doing'[o].guest \in minted'
    <3>1. CASE o # th
      BY <1>1, <1>4, <2>1, <2>3, <3>1, Others
    <3>2. CASE o = th
      <4>1. CASE Begins(th)
        BY <2>3, <3>2, <4>1, BeginFacts DEF Begins
      <4>2. CASE Advance(th)
        BY <1>1, <2>1, <2>3, <3>2, <4>2 DEF Advance
      <4>3. CASE CreateGuest(th)
        <5> DEFINE v == [doing[th] EXCEPT !.guest = Made(th)]
        <5>1. Turn(th, v) /\ v.guest = Made(th) /\ minted' = minted \cup {Made(th)}
          BY <4>3, GuestFacts
        <5> HIDE DEF v
        <5>2. doing'[th] = v
          BY <5>1, TurnKeeps
        <5> QED
          BY <3>2, <5>1, <5>2
      <4>4. doing'[th] # None
        BY <2>3, <3>2
      <4>5. Begins(th) \/ Advance(th) \/ CreateGuest(th)
        BY <1>4, <4>4, Moves
      <4> QED
        BY <4>1, <4>2, <4>3, <4>5
    <3> QED
      BY <3>1, <3>2
  <2> QED
    BY <2>2, <2>3
<1> QED
  BY <1>1, <1>2, <1>3, <1>4 DEF Next

ApartNext(g) ==
  \A th \in Thread :
    doing'[th] # None /\ doing'[th].kind = "demo" /\ doing'[th].guest = None /\ doing'[th].ip = g.ip =>
      doing'[th].at <= g.at + MaxDelay \/ doing'[th].at >= g.at + GuestAge

CarriedNext(g) == \E th \in Thread : doing'[th] # None /\ doing'[th].guest = g

\* Without faults a demo only begins where no guest of the address is remembered.
LEMMA ApartStays ==
  ASSUME Base, Reuse, [Next]_vars, count'.faults = 0, NEW g \in minted
  PROVE  ApartNext(g)
<1>1. count.faults = 0
  BY FaultsGrow
<1>2. guests = minted /\ Apart(g) /\ (Remembered(g) \/ Carried(g))
  BY <1>1 DEF Reuse
<1>3. g.ip \in Ip /\ g.at \in Nat /\ g.at <= now /\ now \in Nat /\ GuestAge \in Nat /\ MaxDelay \in Nat
  BY MintedFacts, Numbers
<1> SUFFICES ASSUME NEW o \in Thread, doing'[o] # None, doing'[o].kind = "demo", doing'[o].guest = None,
                    doing'[o].ip = g.ip
             PROVE  doing'[o].at <= g.at + MaxDelay \/ doing'[o].at >= g.at + GuestAge
  BY DEF ApartNext
<1>4. CASE doing'[o] = doing[o]
  BY <1>2, <1>4 DEF Apart
<1>5. ASSUME NEW th \in Thread, Request(th), doing'[o] # doing[o]
      PROVE  doing'[o].at <= g.at + MaxDelay \/ doing'[o].at >= g.at + GuestAge
  <2>1. o = th
    BY <1>5, Others
  <2>2. CASE Begins(th)
    <3>1. PICK kind \in Kind, ip \in Ip, who \in Email \cup {None}, f \in {0, 1} :
            /\ Begin(th, kind, ip, who) /\ CountRequest(f)
            /\ kind = "demo" => IF Reusable(ip) THEN f = 1 ELSE f = 0
      BY <2>2 DEF Begins
    <3>2. kind = "demo" /\ ip = g.ip /\ doing'[th].at = now
      <4>1. doing'[th].kind = kind /\ doing'[th].ip = ip /\ doing'[th].at = now
        BY <3>1, BeginFacts
      <4> QED
        BY <2>1, <4>1
    <3>3. f = 0
      <4>1. count'.faults = count.faults + f
        BY <3>1 DEF CountRequest
      <4> QED
        BY <1>1, <4>1
    <3>4. ~ Reusable(g.ip)
      BY <3>1, <3>2, <3>3
    <3>5. guestOf[g.ip] = None
      BY <1>2, <1>3, <3>4 DEF Reusable, Reuse
    <3>6. CASE Carried(g)
      <4>1. PICK p \in Thread : doing[p] # None /\ doing[p].guest = g
        BY <3>6 DEF Carried
      <4>2. doing[p] \in RequestRecord /\ Fine(doing[p], now) /\ doing[p].guest # None
        BY <4>1, BaseParts, MintedFacts DEF Requests
      <4>3. doing[p].at \in Nat /\ doing[p].at <= g.at /\ now <= doing[p].at + MaxDelay
        BY <4>1, <4>2 DEF Fine, RequestRecord
      <4> QED
        BY <1>3, <2>1, <3>2, <4>3
    <3>7. CASE Remembered(g)
      BY <1>3, <2>1, <3>2, <3>5, <3>7 DEF Remembered
    <3> QED
      BY <1>2, <3>6, <3>7
  <2>3. CASE Advance(th)
    BY <1>2, <2>1, <2>3 DEF Apart, Advance
  <2>4. CASE CreateGuest(th)
    BY <2>1, <2>4, GuestFacts, TurnKeeps
  <2> QED
    BY <1>5, <2>1, <2>2, <2>3, <2>4, Moves
<1>6. CASE Elapse \/ UNCHANGED vars
  BY <1>4, <1>6 DEF Elapse, vars
<1>7. CASE Restart
  BY <1>7 DEF Restart
<1> QED
  BY <1>4, <1>5, <1>6, <1>7 DEF Next

\* A guest is carried until its address remembers it.
LEMMA CarriedStays ==
  ASSUME Base, Reuse, [Next]_vars, count'.faults = 0, NEW g \in minted, Carried(g)
  PROVE  Remembered(g)' \/ CarriedNext(g)
<1>1. PICK p \in Thread : doing[p] # None /\ doing[p].guest = g
  BY DEF Carried
<1>2. g \in Guest /\ g # None /\ g.ip \in Ip /\ g.at \in Nat /\ g.at <= now /\ now \in Nat /\ GuestAge \in Nat
  BY MintedFacts, Numbers
<1>3. CASE doing'[p] = doing[p]
  BY <1>1, <1>3 DEF CarriedNext
<1>4. ASSUME NEW th \in Thread, Request(th), doing'[p] # doing[p]
      PROVE  Remembered(g)' \/ CarriedNext(g)
  <2>1. p = th
    BY <1>4, Others
  <2>2. /\ doing[th] \in RequestRecord /\ Fine(doing[th], now)
        /\ doing[th].kind = "demo" /\ doing[th].left = <<>> /\ doing[th].ip = g.ip
    BY <1>1, <1>2, <2>1, BaseParts DEF Requests, Fine
  <2>3. CASE RememberGuest(th)
    <3>1. now' = now /\ guestOf' = [guestOf EXCEPT ![doing[th].ip] = [guest |-> doing[th].guest, until |-> now + GuestAge]]
      BY <2>3 DEF RememberGuest, RememberFor
    <3>2. guestOf \in [Ip -> Memory \cup {None}]
      BY BaseParts DEF Memories
    <3>3. [guest |-> doing[th].guest, until |-> now + GuestAge] \in Memory
      BY <1>1, <1>2, <2>1 DEF Memory
    <3>4. [guest |-> doing[th].guest, until |-> now + GuestAge] # None
      BY <3>3, AccountAssumption
    <3>5. guestOf'[g.ip] = [guest |-> doing[th].guest, until |-> now + GuestAge]
      BY <1>2, <2>2, <3>1, <3>2
    <3>6. guestOf'[g.ip] # None /\ guestOf'[g.ip].until = now + GuestAge
      BY <3>4, <3>5
    <3> QED
      BY <1>2, <3>6 DEF Remembered
  <2>4. CASE RequestFails(th)
    BY <2>4, FailBase, FaultsGrow, TallyFacts
  <2>5. CASE CreateAccount(th) \/ PublishSimulation(th)
    BY <2>2, <2>5 DEF CreateAccount, PublishSimulation, Admitted
  <2>6. CASE HitLimit(th) \/ TakeSlot(th) \/ FailOpen(th)
    BY <2>2, <2>6 DEF HitLimit, TakeSlot, FailOpen
  <2>7. CASE CreateGuest(th)
    BY <1>1, <1>2, <2>1, <2>7 DEF CreateGuest
  <2>8. CASE \/ \E kind \in {"signup", "login"}, ip \in Ip, email \in Email : SubmitForm(th, kind, ip, email)
             \/ \E ip \in Ip, email \in Email : RequestSimulation(th, ip, email)
             \/ \E ip \in Ip : ClickDemo(th, ip)
    BY <1>1, <2>1, <2>8 DEF SubmitForm, RequestSimulation, ClickDemo, Begin, BeginWith, Busy
  <2> QED
    BY <1>4, <2>3, <2>4, <2>5, <2>6, <2>7, <2>8 DEF Request
<1>5. CASE Elapse \/ UNCHANGED vars
  BY <1>3, <1>5 DEF Elapse, vars
<1>6. CASE Restart
  BY <1>6, FaultTally, FaultsGrow DEF Restart, history
<1> QED
  BY <1>3, <1>4, <1>5, <1>6 DEF Next

LEMMA ReuseStep == Base /\ Reuse /\ [Next]_vars => Reuse'
<1> SUFFICES ASSUME Base, Reuse, [Next]_vars PROVE Reuse'
  OBVIOUS
<1>1. /\ \A ip \in Ip : guestOf'[ip] # None => guestOf'[ip].guest \in minted'
      /\ \A th \in Thread : doing'[th] # None /\ doing'[th].guest # None => doing'[th].guest \in minted'
  BY CarriedKnown
<1>2. ASSUME count'.faults = 0
      PROVE  /\ guests' = minted' /\ RepeatClicksReuse'
             /\ \A g \in minted' : ApartNext(g) /\ (Remembered(g)' \/ CarriedNext(g))
  <2>1. count.faults = 0
    BY <1>2, FaultsGrow
  <2>2. /\ guests = minted /\ RepeatClicksReuse
        /\ \A g \in minted : Apart(g) /\ (Remembered(g) \/ Carried(g))
    BY <2>1 DEF Reuse
  <2>3. \A g \in minted : ApartNext(g) /\ (Remembered(g)' \/ CarriedNext(g))
    BY <1>2, <2>2, ApartStays, CarriedStays, RememberedStays
  <2>4. CASE UNCHANGED <<guests, minted>>
    BY <2>1, <2>2, <2>3, <2>4 DEF RepeatClicksReuse
  <2>5. ASSUME NEW th \in Thread, CreateGuest(th)
        PROVE  /\ guests' = minted' /\ RepeatClicksReuse'
               /\ \A g \in minted' : ApartNext(g) /\ (Remembered(g)' \/ CarriedNext(g))
    <3> DEFINE new == Made(th)
    <3>1. /\ new \in Guest /\ new.ip = doing[th].ip /\ new.at = now /\ minted' = minted \cup {new}
          /\ doing[th] \in RequestRecord /\ Fine(doing[th], now)
          /\ doing'[th] # None /\ doing'[th].guest = new /\ now' = now
          /\ \A o \in Thread : o # th => doing'[o] = doing[o]
      BY <2>5, GuestFacts, TurnKeeps DEF CreateGuest
    <3>2. guests' = guests \cup {new}
      BY <2>5 DEF CreateGuest, Made
    <3>3. /\ doing[th].kind = "demo" /\ doing[th].guest = None /\ doing[th] # None
          /\ doing[th].at \in Nat /\ doing[th].at <= now /\ now <= doing[th].at + MaxDelay
          /\ now \in Nat /\ MaxDelay \in Nat /\ GuestAge \in Nat
      BY <2>5, <3>1, BaseParts, BoundAssumption, Numbers DEF CreateGuest, Admitted, Busy, Fine, RequestRecord
    <3> HIDE DEF new
    <3>4. CarriedNext(new)
      BY <3>1 DEF CarriedNext
    <3>5. ApartNext(new)
      <4> SUFFICES ASSUME NEW o \in Thread, doing'[o] # None, doing'[o].guest = None
                   PROVE  doing'[o].at <= new.at + MaxDelay
        BY DEF ApartNext
      <4>1. new # None
        BY <3>1, AccountAssumption
      <4>2. doing'[o] = doing[o] /\ doing[o] # None
        BY <3>1, <4>1
      <4>3. doing[o] \in RequestRecord /\ Fine(doing[o], now)
        BY <4>2, BaseParts DEF Requests
      <4>4. doing[o].at \in Nat /\ doing[o].at <= now
        BY <4>3 DEF RequestRecord, Fine
      <4> QED
        BY <3>1, <3>3, <4>2, <4>4
    <3>6. RepeatClicksReuse'
      <4> SUFFICES ASSUME NEW g \in minted', NEW h \in minted', g.ip = h.ip, g.at <= h.at
                   PROVE  h.at - g.at <= 2 * MaxDelay \/ h.at - g.at >= GuestAge
        BY DEF RepeatClicksReuse
      <4>1. CASE g \in minted /\ h \in minted
        BY <2>1, <2>2, <4>1 DEF RepeatClicksReuse
      <4>2. CASE g = new
        <5>1. h.at \in Nat /\ h.at <= now
          BY <3>1, <3>3, MintedFacts
        <5> QED
          BY <3>1, <3>3, <4>2, <5>1
      <4>3. CASE g \in minted /\ h = new
        <5>1. Apart(g) /\ g.at \in Nat
          BY <2>2, <4>3, MintedFacts
        <5>2. doing[th].at <= g.at + MaxDelay \/ doing[th].at >= g.at + GuestAge
          BY <3>1, <3>3, <4>3, <5>1 DEF Apart
        <5> QED
          BY <3>1, <3>3, <4>3, <5>1, <5>2
      <4> QED
        BY <3>1, <4>1, <4>2, <4>3
    <3> QED
      BY <2>2, <2>3, <3>1, <3>2, <3>4, <3>5, <3>6
  <2>6. UNCHANGED <<guests, minted>> \/ \E th \in Thread : CreateGuest(th)
    <3>1. CASE Elapse \/ UNCHANGED vars
      BY <3>1 DEF Elapse, vars, tables, history
    <3>2. CASE Restart
      BY <1>2, <2>1, <3>2, FaultTally DEF Restart, history
    <3> QED
      BY <3>1, <3>2, Remembering DEF Next
  <2> QED
    BY <2>4, <2>5, <2>6
<1> QED
  BY <1>1, <1>2 DEF Reuse, Apart, ApartNext, Carried, CarriedNext

\* Repeat clicks reuse the guest of their address while nothing fails: a second one
\* is from a click that overlaps the first or from after the first one's lifetime.
THEOREM ClicksReuseGuests == Spec => []RepeatClicksReuse
<1>1. Init => Reuse
  BY DEF Init, Reuse, RepeatClicksReuse
<1>2. Reuse => RepeatClicksReuse
  BY DEF Reuse, RepeatClicksReuse
<1> QED
  BY <1>1, <1>2, ReuseStep, AlwaysBase, PTL DEF Spec

-----------------------------------------------------------------------------
(* How far a window has been used, and since when it has been open.        *)

Level(k) ==
  IF k \notin DOMAIN counter THEN 0
  ELSE IF counter[k].count <= CountOf[k.limit] THEN counter[k].count ELSE CountOf[k.limit]
Since(k) == IF k \in DOMAIN counter THEN counter[k].until - WindowOf[k.limit] ELSE now

LEMMA LevelFacts ==
  ASSUME Base, NEW k \in Key
  PROVE  /\ CountOf[k.limit] \in Nat \ {0} /\ WindowOf[k.limit] \in Nat \ {0} /\ now \in Nat
         /\ Level(k) \in Nat /\ Level(k) <= CountOf[k.limit]
         /\ Since(k) \in Int /\ Since(k) <= now /\ now < Since(k) + WindowOf[k.limit]
<1>1. CountOf[k.limit] \in Nat \ {0} /\ WindowOf[k.limit] \in Nat \ {0} /\ now \in Nat
  BY BaseParts, BoundAssumption, Numbers DEF Key
<1>2. k \in DOMAIN counter =>
        /\ counter[k].count \in Nat
        /\ counter[k].until \in (now + 1)..(now + WindowOf[k.limit])
  BY BaseParts DEF Counters
<1> QED
  BY <1>1, <1>2 DEF Level, Since

\* The clock ends a window, or leaves it as it is.
LEMMA LevelElapse ==
  ASSUME Base, Elapse, NEW k \in Key
  PROVE  \/ Level(k)' = Level(k) /\ Since(k)' >= Since(k) /\ Since(k)' \in Int
         \/ Level(k)' = 0 /\ Since(k)' = Since(k) + WindowOf[k.limit] /\ Since(k)' = now + 1
<1>1. CountOf[k.limit] \in Nat \ {0} /\ WindowOf[k.limit] \in Nat \ {0} /\ now \in Nat
  BY LevelFacts
<1>2. now' = now + 1
  BY DEF Elapse
<1>3. CASE k \notin DOMAIN counter
  <2>1. k \notin DOMAIN counter'
    BY <1>3 DEF Elapse
  <2> QED
    BY <1>1, <1>2, <1>3, <2>1 DEF Level, Since
<1>4. CASE k \in DOMAIN counter
  <2>1. counter[k].until \in (now + 1)..(now + WindowOf[k.limit])
    BY <1>4, BaseParts DEF Counters
  <2>2. CASE counter[k].until > now'
    <3>1. k \in DOMAIN counter' /\ counter'[k] = counter[k]
      BY <1>4, <2>2 DEF Elapse
    <3> QED
      BY <1>1, <1>4, <2>1, <3>1 DEF Level, Since
  <2>3. CASE ~ (counter[k].until > now')
    <3>1. k \notin DOMAIN counter'
      BY <2>3 DEF Elapse
    <3>2. counter[k].until = now + 1
      BY <1>1, <1>2, <2>1, <2>3
    <3> QED
      BY <1>1, <1>2, <1>4, <3>1, <3>2 DEF Level, Since
  <2> QED
    BY <2>2, <2>3
<1> QED
  BY <1>3, <1>4

\* A hit that its limit lets through uses the window up by one.
LEMMA LevelIncrement ==
  ASSUME Base, NEW r \in RequestRecord, NEW x \in Key, Increment(x, r), now' = now, NEW k \in Key
  PROVE  /\ Since(k)' = Since(k) /\ Level(k)' \in Nat /\ Level(k)' >= Level(k)
         /\ x = k /\ Entry(k).count + 1 <= CountOf[k.limit] => Level(k)' = Level(k) + 1
<1>1. CountOf[k.limit] \in Nat \ {0} /\ WindowOf[k.limit] \in Nat \ {0} /\ now \in Nat
  BY LevelFacts
<1>2. /\ DOMAIN counter' = DOMAIN counter \cup {x}
      /\ \A y \in DOMAIN counter : y # x => counter'[y] = counter[y]
      /\ counter'[x].count = Entry(x).count + 1
      /\ counter'[x].until = Entry(x).until
  BY IncrementFacts
<1>3. k \in DOMAIN counter => counter[k].count \in Nat /\ counter[k].until \in Int
  BY <1>1, BaseParts DEF Counters
<1>4. CASE x # k
  BY <1>1, <1>2, <1>3, <1>4 DEF Level, Since
<1>5. CASE x = k /\ k \in DOMAIN counter
  <2>1. Entry(k) = counter[k]
    BY <1>5 DEF Entry
  <2> QED
    BY <1>1, <1>2, <1>3, <1>5, <2>1 DEF Level, Since
<1>6. CASE x = k /\ k \notin DOMAIN counter
  <2>1. Entry(k).count = 0 /\ Entry(k).until = now + WindowOf[k.limit]
    BY <1>6 DEF Entry
  <2> QED
    BY <1>1, <1>2, <1>6, <2>1 DEF Level, Since
<1> QED
  BY <1>4, <1>5, <1>6

LEMMA LevelStep ==
  ASSUME Base, [Next]_vars, ~ Elapse, NEW k \in Key
  PROVE  Since(k)' = Since(k) /\ Level(k)' \in Nat /\ Level(k)' >= Level(k)
<1>1. CASE counter' = counter /\ now' = now
  BY <1>1, LevelFacts DEF Level, Since
<1> QED
  BY <1>1, Counting, LevelIncrement

\* Natural numbers, as far as the bounds need them.
LEMMA TimesGrows ==
  ASSUME NEW c \in Nat, NEW m \in Int, NEW n \in Int, m <= n
  PROVE  c * m <= c * n /\ c * m \in Int /\ c * n \in Int
<1>1. c * n = c * m + c * (n - m)
  OBVIOUS
<1>2. c * (n - m) >= 0
  OBVIOUS
<1> QED
  BY <1>1, <1>2

LEMMA OneMore ==
  ASSUME NEW c \in Nat, NEW n \in Nat
  PROVE  c * n \in Nat /\ n * c \in Nat /\ c * (n + 1) = c * n + c /\ (n + 1) * c = n * c + c
OBVIOUS

LEMMA DivAtLeast ==
  ASSUME NEW n \in Int, NEW x \in Int, NEW w \in Nat \ {0}, n * w <= x
  PROVE  n <= x \div w
<1>1. x = w * (x \div w) + (x % w) /\ x % w < w /\ x \div w \in Int /\ x % w \in Int
  OBVIOUS
<1> DEFINE q == x \div w
           m == x % w
<1>2. x = w * q + m /\ m < w /\ q \in Int /\ m \in Int
  BY <1>1
<1> HIDE DEF q, m
<1>3. CASE n >= q + 1
  <2>1. w * (q + 1) <= w * n
    BY <1>2, <1>3, TimesGrows
  <2>2. w * (q + 1) = w * q + w
    BY <1>2
  <2>3. w * n = n * w
    OBVIOUS
  <2> QED
    BY <1>2, <2>1, <2>2, <2>3
<1> QED
  BY <1>2, <1>3 DEF q

-----------------------------------------------------------------------------
(* The site-wide budgets hold.                                             *)

\* What a site-wide budget is for, its limit and the address's own limit before it.
Budget(kind, site, own) ==
  \/ kind = "signup" /\ site = "accounts_day" /\ own = "signup_ip"
  \/ kind = "demo" /\ site = "guests_day" /\ own = "guest_ip"

Product(kind) == IF kind = "signup" THEN users \ Registered ELSE minted

\* Admitted requests that are still to make what they were admitted for.
Pending(kind) ==
  {th \in Thread : doing[th] # None /\ doing[th].kind = kind /\ doing[th].left = <<>>
                     /\ doing[th].guest = None}

Total(kind) == Cardinality(Product(kind)) + Cardinality(Pending(kind))

LEMMA BudgetFacts ==
  ASSUME NEW kind, NEW site, NEW own, Budget(kind, site, own)
  PROVE  /\ kind \in {"signup", "demo"} /\ site \in {"accounts_day", "guests_day", "sim_global"}
         /\ own \in {"signup_ip", "guest_ip"} /\ kind \in Kind /\ own \in LimitsOf[kind]
         /\ site \notin Slot /\ own \notin Slot /\ own # site
         /\ SiteKey(site) \in Key /\ SiteKey(site).limit = site /\ site \in Limit /\ own \in Limit
<1>1. CASE kind = "signup" /\ site = "accounts_day" /\ own = "signup_ip"
  <2>1. own \in LimitsOf[kind] /\ kind \in Kind
    BY <1>1, Kinds DEF LimitsOf
  <2> HIDE DEF Limit
  <2> QED
    BY <1>1, <2>1, SiteKeys, Limits DEF Slot
<1>2. CASE kind = "demo" /\ site = "guests_day" /\ own = "guest_ip"
  <2>1. own \in LimitsOf[kind] /\ kind \in Kind
    BY <1>2, Kinds DEF LimitsOf
  <2> HIDE DEF Limit
  <2> QED
    BY <1>2, <2>1, SiteKeys, Limits DEF Slot
<1> QED
  BY <1>1, <1>2 DEF Budget

LEMMA FiniteParts ==
  ASSUME Base, NEW kind
  PROVE  /\ IsFiniteSet(Product(kind)) /\ IsFiniteSet(Pending(kind))
         /\ Cardinality(Product(kind)) \in Nat /\ Cardinality(Pending(kind)) \in Nat
         /\ Total(kind) \in Nat
<1>1. users \ Registered \in SUBSET Email
  BY BaseParts DEF Tables
<1>2. IsFiniteSet(Product(kind))
  BY <1>1, BaseParts, AccountAssumption, FS_Subset DEF Product, Tables
<1>3. Pending(kind) \in SUBSET Thread
  BY DEF Pending
<1>4. IsFiniteSet(Pending(kind))
  BY <1>3, AccountAssumption, FS_Subset
<1> QED
  BY <1>2, <1>4, FS_CardinalityType DEF Total

\* A set that gains at most one element.
LEMMA GainsOne ==
  ASSUME NEW S, NEW T, NEW x, IsFiniteSet(S), T \subseteq S \cup {x}
  PROVE  IsFiniteSet(T) /\ Cardinality(T) \in Nat /\ Cardinality(S) \in Nat
           /\ Cardinality(T) <= Cardinality(S) + 1
<1>1. IsFiniteSet(S \cup {x}) /\ Cardinality(S \cup {x}) <= Cardinality(S) + 1 /\ Cardinality(S \cup {x}) \in Nat
      /\ Cardinality(S) \in Nat
  BY FS_AddElement, FS_CardinalityType
<1> QED
  BY <1>1, FS_Subset, FS_CardinalityType

LEMMA LosesOne ==
  ASSUME NEW S, NEW T, NEW x \in S, IsFiniteSet(S), T \subseteq S \ {x}
  PROVE  IsFiniteSet(T) /\ Cardinality(T) \in Nat /\ Cardinality(S) \in Nat
           /\ Cardinality(T) + 1 <= Cardinality(S)
<1>1. IsFiniteSet(S \ {x}) /\ Cardinality(S \ {x}) = Cardinality(S) - 1 /\ Cardinality(S \ {x}) \in Nat
      /\ Cardinality(S) \in Nat
  BY FS_RemoveElement, FS_CardinalityType
<1> QED
  BY <1>1, FS_Subset, FS_CardinalityType

LEMMA LosesSome ==
  ASSUME NEW S, NEW T, IsFiniteSet(S), T \subseteq S
  PROVE  IsFiniteSet(T) /\ Cardinality(T) \in Nat /\ Cardinality(S) \in Nat
           /\ Cardinality(T) <= Cardinality(S)
BY FS_Subset, FS_CardinalityType

\* A thread is pending after its step because its request has passed its last limit:
\* the budget let it through, or the limit failed open.
LEMMA PendingTurns ==
  ASSUME Base, NEW th \in Thread, Request(th),
         NEW kind, NEW site, NEW own, Budget(kind, site, own), th \in Pending(kind)'
  PROVE  \/ count'.faults = count.faults + 1
         \/ /\ now' = now /\ Entry(SiteKey(site)).count + 1 <= CountOf[site]
            /\ \E r \in RequestRecord : Increment(SiteKey(site), r)
<1>1. doing'[th] # None /\ doing'[th].kind = kind /\ doing'[th].left = <<>> /\ doing'[th].guest = None
  BY DEF Pending
<1>2. ~ Begins(th)
  <2> SUFFICES ASSUME NEW k \in Kind, NEW ip \in Ip, NEW who, Begin(th, k, ip, who)
               PROVE  FALSE
    BY DEF Begins
  <2>1. doing'[th].kind = k /\ doing'[th].left = Plan[k]
    BY BeginFacts
  <2> QED
    BY <1>1, <2>1, BudgetFacts DEF SimulatePlan, Plan
<1>3. ~ CreateGuest(th)
  <2> SUFFICES ASSUME CreateGuest(th) PROVE FALSE
    OBVIOUS
  <2> DEFINE v == [doing[th] EXCEPT !.guest = Made(th)]
  <2>1. Turn(th, v) /\ v.guest # None
    BY GuestFacts
  <2> HIDE DEF v
  <2> QED
    BY <1>1, <2>1, TurnKeeps
<1>4. Advance(th)
  BY <1>1, <1>2, <1>3, Moves
<1>5. doing[th].left = <<site>> /\ doing[th] \in RequestRecord
  <2>1. doing[th].kind = kind /\ doing[th].left \in Rest[kind] /\ doing[th].left # <<>>
        /\ Tail(doing[th].left) = <<>>
    BY <1>1, <1>4 DEF Advance, Fine
  <2>2. kind \in Kind
    BY BudgetFacts
  <2>3. /\ kind = "signup" => doing[th].left = <<"accounts_day">>
        /\ kind = "demo" => doing[th].left = <<"guests_day">>
    BY <2>1, <2>2, LastLimit
  <2>4. doing[th] \in RequestRecord
    BY <1>4 DEF Advance
  <2> QED
    BY <2>3, <2>4 DEF Budget
<1>6. Head(doing[th].left) = site /\ site \notin Slot /\ KeyOf(site, doing[th]) = SiteKey(site)
  BY <1>5, BudgetFacts, SiteKeys
<1>7. CASE FailOpen(th)
  BY <1>7, OpenBase
<1>8. CASE ~ FailOpen(th)
  <2>1. /\ HitLimit(th) /\ Increment(KeyOf(Head(doing[th].left), doing[th]), doing[th])
        /\ Entry(KeyOf(Head(doing[th].left), doing[th])).count + 1 <= CountOf[Head(doing[th].left)]
    BY <1>1, <1>2, <1>3, <1>6, <1>8, Moves
  <2>2. Increment(SiteKey(site), doing[th]) /\ Entry(SiteKey(site)).count + 1 <= CountOf[site]
    BY <1>6, <2>1
  <2> QED
    BY <1>5, <2>1, <2>2, Others
<1> QED
  BY <1>7, <1>8

\* What a step makes, it was admitted for.
LEMMA ProductTurns ==
  ASSUME Base, NEW th \in Thread, Request(th), NEW kind \in {"signup", "demo"}
  PROVE  \/ Product(kind)' = Product(kind)
         \/ /\ th \in Pending(kind) /\ th \notin Pending(kind)'
            /\ \E x : Product(kind)' \subseteq Product(kind) \cup {x}
<1>1. CASE CreateAccount(th)
  <2>1. /\ users' = users \cup {doing[th].who} /\ minted' = minted
        /\ Admitted(th, "signup")
    BY <1>1 DEF CreateAccount, history
  <2>2. doing[th].guest = None /\ doing[th] # None
    BY <2>1, AdmittedFacts DEF Fine, Admitted, Busy
  <2>3. Turn(th, None)
    BY <1>1, EndTurns DEF CreateAccount
  <2>4. doing'[th] = None
    BY <2>3, TurnKeeps
  <2>5. CASE kind = "signup"
    BY <2>1, <2>2, <2>4, <2>5 DEF Product, Pending, Admitted
  <2>6. CASE kind # "signup"
    BY <2>1, <2>6 DEF Product
  <2> QED
    BY <2>5, <2>6
<1>2. CASE CreateGuest(th)
  <2>1. /\ users' = users /\ minted' = minted \cup {Made(th)}
        /\ Admitted(th, "demo") /\ doing[th].guest = None
    BY <1>2 DEF CreateGuest, Made
  <2> DEFINE v == [doing[th] EXCEPT !.guest = Made(th)]
  <2>2. Turn(th, v) /\ v.guest # None
    BY <1>2, GuestFacts
  <2> HIDE DEF v
  <2>3. doing'[th].guest # None
    BY <2>2, TurnKeeps
  <2>4. CASE kind = "demo"
    BY <2>1, <2>3, <2>4 DEF Product, Pending, Admitted, Busy
  <2>5. CASE kind # "demo"
    BY <2>1, <2>5 DEF Product
  <2> QED
    BY <2>4, <2>5
<1>3. CASE ~ CreateAccount(th) /\ ~ CreateGuest(th)
  <2>1. users' = users /\ minted' = minted
    BY <1>3 DEF Request, SubmitForm, RequestSimulation, ClickDemo, Begin, BeginWith, HitLimit, TakeSlot,
       FailOpen, RequestFails, RememberGuest, RememberFor, PublishSimulation, tables, history
  <2> QED
    BY <2>1 DEF Product
<1> QED
  BY <1>1, <1>2, <1>3

\* A step adds at most one, and only for a hit of the budget or a fault.
LEMMA Totals ==
  ASSUME Base, [Next]_vars, NEW kind, NEW site, NEW own, Budget(kind, site, own)
  PROVE  /\ Total(kind) \in Nat /\ Total(kind)' \in Nat
         /\ \/ Total(kind)' <= Total(kind)
            \/ /\ Total(kind)' <= Total(kind) + 1
               /\ \/ count'.faults = count.faults + 1
                  \/ /\ now' = now /\ Entry(SiteKey(site)).count + 1 <= CountOf[site]
                     /\ \E r \in RequestRecord : Increment(SiteKey(site), r)
<1>1. /\ IsFiniteSet(Product(kind)) /\ IsFiniteSet(Pending(kind)) /\ Total(kind) \in Nat
      /\ Cardinality(Product(kind)) \in Nat /\ Cardinality(Pending(kind)) \in Nat
  BY FiniteParts
<1>2. Total(kind)' \in Nat /\ Cardinality(Product(kind)') \in Nat /\ Cardinality(Pending(kind)') \in Nat
  <2>1. users' \ Registered \in SUBSET Email /\ IsFiniteSet(minted') /\ Pending(kind)' \in SUBSET Thread
    BY BaseStep, BaseThen DEF Tables, Pending
  <2>2. IsFiniteSet(users' \ Registered) /\ IsFiniteSet(Pending(kind)')
    BY <2>1, AccountAssumption, FS_Subset
  <2>3. IsFiniteSet(Product(kind)')
    BY <2>1, <2>2 DEF Product
  <2> QED
    BY <2>2, <2>3, FS_CardinalityType DEF Total
<1>3. CASE Elapse \/ Restart \/ UNCHANGED vars
  <2>1. Product(kind)' = Product(kind)
    BY <1>3 DEF Elapse, Restart, vars, tables, history, Product
  <2>2. Pending(kind)' \subseteq Pending(kind)
    BY <1>3 DEF Elapse, Restart, vars, Pending
  <2>3. Cardinality(Pending(kind)') <= Cardinality(Pending(kind))
    BY <1>1, <2>2, LosesSome
  <2> QED
    BY <1>1, <1>2, <2>1, <2>3 DEF Total
<1>4. ASSUME NEW th \in Thread, Request(th)
      PROVE  \/ Total(kind)' <= Total(kind)
             \/ /\ Total(kind)' <= Total(kind) + 1
                /\ \/ count'.faults = count.faults + 1
                   \/ /\ now' = now /\ Entry(SiteKey(site)).count + 1 <= CountOf[site]
                      /\ \E r \in RequestRecord : Increment(SiteKey(site), r)
  <2>1. Pending(kind)' \subseteq Pending(kind) \cup {th}
    BY <1>4, Others DEF Pending
  <2>2. CASE th \in Pending(kind)'
    <3>1. Product(kind)' = Product(kind)
      BY <1>4, <2>2, ProductTurns, BudgetFacts
    <3>2. Cardinality(Pending(kind)') <= Cardinality(Pending(kind)) + 1
      BY <1>1, <2>1, GainsOne
    <3>3. Total(kind)' <= Total(kind) + 1
      BY <1>1, <1>2, <3>1, <3>2 DEF Total
    <3> QED
      BY <1>4, <2>2, <3>3, PendingTurns
  <2>3. CASE th \notin Pending(kind)'
    <3>1. CASE Product(kind)' = Product(kind)
      <4>1. Cardinality(Pending(kind)') <= Cardinality(Pending(kind))
        BY <1>1, <2>1, <2>3, LosesSome
      <4> QED
        BY <1>1, <1>2, <3>1, <4>1 DEF Total
    <3>2. CASE Product(kind)' # Product(kind)
      <4>1. PICK x : th \in Pending(kind) /\ Product(kind)' \subseteq Product(kind) \cup {x}
        BY <1>4, <3>2, ProductTurns, BudgetFacts
      <4>2. Cardinality(Product(kind)') <= Cardinality(Product(kind)) + 1
        BY <1>1, <4>1, GainsOne
      <4>3. Pending(kind)' \subseteq Pending(kind) \ {th}
        BY <2>1, <2>3
      <4>4. Cardinality(Pending(kind)') + 1 <= Cardinality(Pending(kind))
        BY <1>1, <4>1, <4>3, LosesOne
      <4> QED
        BY <1>1, <1>2, <4>2, <4>4 DEF Total
    <3> QED
      BY <3>1, <3>2
  <2> QED
    BY <2>2, <2>3
<1> QED
  BY <1>1, <1>2, <1>3, <1>4 DEF Next

\* There is a number of windows that are over, each within its count, and besides
\* them only the level of the one that is open and what failed open.
Budgeted(kind, site) ==
  \E n \in Nat :
    /\ Total(kind) <= CountOf[site] * n + Level(SiteKey(site)) + count.faults
    /\ n * WindowOf[site] <= Since(SiteKey(site))

BudgetsHold == Budgeted("signup", "accounts_day") /\ Budgeted("demo", "guests_day")

LEMMA BudgetedStep ==
  ASSUME Base, [Next]_vars, NEW kind, NEW site, NEW own, Budget(kind, site, own), Budgeted(kind, site)
  PROVE  Budgeted(kind, site)'
<1> DEFINE K == SiteKey(site)
           C == CountOf[site]
           W == WindowOf[site]
<1>1. K \in Key /\ K.limit = site
  BY BudgetFacts
<1>2. /\ C \in Nat \ {0} /\ W \in Nat \ {0} /\ now \in Nat
      /\ Level(K) \in Nat /\ Level(K) <= C /\ Since(K) \in Int
  BY <1>1, LevelFacts
<1>3. count.faults \in Nat /\ count'.faults \in Nat /\ count'.faults >= count.faults
  BY FaultsGrow
<1>4. Total(kind) \in Nat /\ Total(kind)' \in Nat
  BY Totals
<1>5. PICK n \in Nat : Total(kind) <= C * n + Level(K) + count.faults /\ n * W <= Since(K)
  BY DEF Budgeted
<1>6. C * n \in Nat /\ C * (n + 1) = C * n + C /\ n * W \in Nat /\ (n + 1) * W = n * W + W
  <2>1. C \in Nat /\ W \in Nat
    BY <1>2
  <2> HIDE DEF C, W
  <2> QED
    BY <2>1, OneMore
<1> HIDE DEF K, C, W
<1>7. SUFFICES \E m \in Nat : /\ Total(kind)' <= C * m + Level(K)' + count'.faults
                              /\ m * W <= Since(K)'
  BY DEF Budgeted, K, C, W
<1>8. CASE Elapse
  <2>1. Total(kind)' <= Total(kind)
    <3>1. Total(kind)' = Total(kind)
      BY <1>8 DEF Elapse, tables, history, Total, Product, Pending
    <3> QED
      BY <1>4, <3>1
  <2>2. CASE Level(K)' = Level(K) /\ Since(K)' >= Since(K) /\ Since(K)' \in Int
    <3>1. Total(kind)' <= C * n + Level(K)' + count'.faults /\ n * W <= Since(K)'
      BY <1>2, <1>3, <1>4, <1>5, <1>6, <2>1, <2>2
    <3> QED
      BY <3>1
  <2>3. CASE Level(K)' = 0 /\ Since(K)' = Since(K) + W
    <3>1. /\ Total(kind)' <= C * (n + 1) + Level(K)' + count'.faults
          /\ (n + 1) * W <= Since(K)' /\ n + 1 \in Nat
      BY <1>2, <1>3, <1>4, <1>5, <1>6, <2>1, <2>3
    <3> QED
      BY <3>1
  <2> QED
    BY <1>1, <1>8, <2>2, <2>3, LevelElapse DEF W
<1>9. CASE ~ Elapse
  <2>1. Since(K)' = Since(K) /\ Level(K)' \in Nat /\ Level(K)' >= Level(K)
    BY <1>1, <1>9, LevelStep
  <2>2. CASE Total(kind)' <= Total(kind)
    <3>1. Total(kind)' <= C * n + Level(K)' + count'.faults /\ n * W <= Since(K)'
      BY <1>2, <1>3, <1>4, <1>5, <1>6, <2>1, <2>2
    <3> QED
      BY <3>1
  <2>3. CASE Total(kind)' <= Total(kind) + 1 /\ count'.faults = count.faults + 1
    <3>1. Total(kind)' <= C * n + Level(K)' + count'.faults /\ n * W <= Since(K)'
      BY <1>2, <1>3, <1>4, <1>5, <1>6, <2>1, <2>3
    <3> QED
      BY <3>1
  <2>4. ASSUME Total(kind)' <= Total(kind) + 1, now' = now, Entry(K).count + 1 <= C,
               NEW r \in RequestRecord, Increment(K, r)
        PROVE  \E m \in Nat : /\ Total(kind)' <= C * m + Level(K)' + count'.faults
                              /\ m * W <= Since(K)'
    <3>1. Level(K)' = Level(K) + 1
      BY <1>1, <2>4, LevelIncrement DEF C
    <3>2. Total(kind)' <= C * n + Level(K)' + count'.faults /\ n * W <= Since(K)'
      BY <1>2, <1>3, <1>4, <1>5, <1>6, <2>1, <2>4, <3>1
    <3> QED
      BY <3>2
  <2> QED
    BY <2>2, <2>3, <2>4, Totals DEF K, C
<1> QED
  BY <1>8, <1>9

LEMMA BudgetsStep == Base /\ BudgetsHold /\ [Next]_vars => BudgetsHold'
<1>1. Budget("signup", "accounts_day", "signup_ip") /\ Budget("demo", "guests_day", "guest_ip")
  BY DEF Budget
<1> QED
  BY <1>1, BudgetedStep DEF BudgetsHold

LEMMA InitBudgets == Init => BudgetsHold
<1> SUFFICES ASSUME Init, NEW kind, NEW site, NEW own, Budget(kind, site, own)
             PROVE  Budgeted(kind, site)
  <2>1. Budget("signup", "accounts_day", "signup_ip") /\ Budget("demo", "guests_day", "guest_ip")
    BY DEF Budget
  <2> QED
    BY <2>1 DEF BudgetsHold
<1>1. Product(kind) = {} /\ Pending(kind) = {}
  BY DEF Init, Product, Pending
<1>2. Total(kind) = 0
  BY <1>1, FS_EmptySet DEF Total
<1>3. CountOf[site] \in Nat /\ WindowOf[site] \in Nat
  BY BudgetFacts, Numbers
<1>4. Level(SiteKey(site)) = 0 /\ Since(SiteKey(site)) = 0 /\ count.faults = 0
  BY DEF Init, Level, Since
<1>5. /\ Total(kind) <= CountOf[site] * 0 + Level(SiteKey(site)) + count.faults
      /\ 0 * WindowOf[site] <= Since(SiteKey(site))
  BY <1>2, <1>3, <1>4
<1> QED
  BY <1>5 DEF Budgeted

LEMMA BudgetedBound ==
  ASSUME Base, NEW kind, NEW site, NEW own, Budget(kind, site, own), Budgeted(kind, site)
  PROVE  Cardinality(Product(kind)) <= CountOf[site] * Windows(site) + count.faults
<1> DEFINE K == SiteKey(site)
           C == CountOf[site]
           W == WindowOf[site]
<1>1. K \in Key /\ K.limit = site
  BY BudgetFacts
<1>2. /\ C \in Nat \ {0} /\ W \in Nat \ {0} /\ now \in Nat
      /\ Level(K) \in Nat /\ Level(K) <= C /\ Since(K) \in Int /\ Since(K) <= now
  BY <1>1, LevelFacts
<1>3. count.faults \in Nat
  BY TallyFacts, BoundAssumption
<1>4. Cardinality(Product(kind)) <= Total(kind) /\ Cardinality(Product(kind)) \in Nat /\ Total(kind) \in Nat
  BY FiniteParts DEF Total
<1>5. PICK n \in Nat : Total(kind) <= C * n + Level(K) + count.faults /\ n * W <= Since(K)
  BY DEF Budgeted
<1> HIDE DEF K, C, W
<1>6. n * W \in Nat /\ n * W <= now
  BY <1>2, <1>5
<1>7. n <= now \div W /\ now \div W \in Int
  <2>1. n \in Int /\ now \in Int /\ W \in Nat \ {0}
    BY <1>2
  <2>2. n <= now \div W
    BY <1>6, <2>1, DivAtLeast
  <2> QED
    BY <2>1, <2>2
<1>8. C * n <= C * (now \div W) /\ C * n \in Int /\ C * (now \div W) \in Int
  BY <1>2, <1>7, TimesGrows
<1>9. C * (now \div W + 1) = C * (now \div W) + C
  BY <1>2, <1>7
<1>10. Cardinality(Product(kind)) <= C * (now \div W + 1) + count.faults
  BY <1>2, <1>3, <1>4, <1>5, <1>8, <1>9
<1> QED
  BY <1>10 DEF Windows, C, W

\* The site-wide budgets bound the accounts and guests ever created, however many
\* addresses they come from and whatever was under way when a window ended.
THEOREM GrowthIsBounded == Spec => []AccountsWithinBudget
<1>1. Base /\ BudgetsHold => AccountsWithinBudget
  <2>1. Budget("signup", "accounts_day", "signup_ip") /\ Budget("demo", "guests_day", "guest_ip")
    BY DEF Budget
  <2>2. Product("signup") = users \ Registered /\ Product("demo") = minted
    BY DEF Product
  <2> QED
    BY <2>1, <2>2, BudgetedBound DEF BudgetsHold, AccountsWithinBudget
<1> QED
  BY <1>1, InitBudgets, BudgetsStep, AlwaysBase, PTL DEF Spec

-----------------------------------------------------------------------------
(* An address gets its share of a site-wide budget.                        *)

\* The requests of an address, not older than t, that only the site-wide budget has
\* still to let through.
Waiting(kind, site, ip, t) ==
  {th \in Thread : doing[th] # None /\ doing[th].kind = kind /\ doing[th].ip = ip
                     /\ doing[th].left = <<site>> /\ doing[th].at >= t}

\* So many requests since t are accounted for by the address's own limit: n of its
\* windows that are over, all but one of them opened after t, the level of the one
\* that is open, and what failed open.
Within(own, ip, t, x) ==
  \E n \in Nat :
    /\ x <= CountOf[own] * n + Level(OwnKey(own, ip)) + count.faults
    /\ n = 0 \/ t + (n - 1) * WindowOf[own] < Since(OwnKey(own, ip))

Hits(kind, site, ip) ==
  IF SiteKey(site) \in DOMAIN counter THEN counter[SiteKey(site)].by[<<kind, ip>>] ELSE 0

\* Both for the requests that wait and, from the time a request may have begun that
\* hits the open site-wide window, for those that have hit it.
Shared(kind, site, own, ip) ==
  /\ \A t \in Int : Within(own, ip, t, Cardinality(Waiting(kind, site, ip, t)))
  /\ LET t == Since(SiteKey(site)) - MaxDelay
     IN  Within(own, ip, t, Hits(kind, site, ip) + Cardinality(Waiting(kind, site, ip, t)))

SiteWide == {"accounts_day", "guests_day"}

Sharing ==
  /\ \A ip \in Ip : /\ Shared("signup", "accounts_day", "signup_ip", ip)
                    /\ Shared("demo", "guests_day", "guest_ip", ip)
  /\ \A k \in DOMAIN counter : k.limit \in SiteWide => k = SiteKey(k.limit)

WaitingNext(kind, site, ip, t) ==
  {th \in Thread : doing'[th] # None /\ doing'[th].kind = kind /\ doing'[th].ip = ip
                     /\ doing'[th].left = <<site>> /\ doing'[th].at >= t}

WithinNext(own, ip, t, x) ==
  \E n \in Nat :
    /\ x <= CountOf[own] * n + Level(OwnKey(own, ip))' + count'.faults
    /\ n = 0 \/ t + (n - 1) * WindowOf[own] < Since(OwnKey(own, ip))'

\* What the own limit accounts for, it still does when the number does not grow.
LEMMA WithinStays ==
  ASSUME Base, [Next]_vars, NEW kind, NEW site, NEW own, Budget(kind, site, own), NEW ip \in Ip,
         NEW t \in Int, NEW x \in Nat, NEW y \in Nat, Within(own, ip, t, x), y <= x,
         Elapse => t <= now
  PROVE  WithinNext(own, ip, t, y)
<1> DEFINE K == OwnKey(own, ip)
           C == CountOf[own]
           W == WindowOf[own]
<1>1. K \in Key /\ K.limit = own
  BY BudgetFacts, OwnKeys
<1>2. /\ C \in Nat \ {0} /\ W \in Nat \ {0} /\ now \in Nat
      /\ Level(K) \in Nat /\ Level(K) <= C /\ Since(K) \in Int
  BY <1>1, LevelFacts
<1>3. count.faults \in Nat /\ count'.faults \in Nat /\ count'.faults >= count.faults
  BY FaultsGrow
<1>4. PICK n \in Nat : /\ x <= C * n + Level(K) + count.faults
                       /\ n = 0 \/ t + (n - 1) * W < Since(K)
  BY DEF Within
<1>5. C * n \in Nat /\ C * (n + 1) = C * n + C /\ (n - 1) * W \in Int /\ n * W = (n - 1) * W + W
  <2>1. C \in Nat /\ W \in Nat
    BY <1>2
  <2> HIDE DEF C, W
  <2>2. C * n \in Nat /\ C * (n + 1) = C * n + C
    BY <2>1, OneMore
  <2> QED
    BY <2>1, <2>2
<1> HIDE DEF K, C, W
<1>6. SUFFICES \E m \in Nat : /\ y <= C * m + Level(K)' + count'.faults
                              /\ m = 0 \/ t + (m - 1) * W < Since(K)'
  BY DEF WithinNext, K, C, W
<1>7. CASE Level(K)' \in Nat /\ Level(K)' >= Level(K) /\ Since(K)' >= Since(K) /\ Since(K)' \in Int
  <2>1. y <= C * n + Level(K)' + count'.faults
    BY <1>2, <1>3, <1>4, <1>5, <1>7
  <2>2. n = 0 \/ t + (n - 1) * W < Since(K)'
    BY <1>2, <1>4, <1>5, <1>7
  <2> QED
    BY <2>1, <2>2
<1>8. CASE Elapse /\ Level(K)' = 0 /\ Since(K)' = Since(K) + W /\ Since(K)' = now + 1
  <2>1. y <= C * (n + 1) + Level(K)' + count'.faults
    BY <1>2, <1>3, <1>4, <1>5, <1>8
  <2>2. t + n * W < Since(K)'
    <3>1. CASE n = 0
      <4>1. n * W = 0
        BY <1>2, <3>1
      <4> QED
        BY <1>2, <1>8, <4>1
    <3>2. CASE n # 0
      BY <1>2, <1>4, <1>5, <1>8, <3>2
    <3> QED
      BY <3>1, <3>2
  <2>3. (n + 1) - 1 = n /\ n + 1 \in Nat
    OBVIOUS
  <2> QED
    BY <2>1, <2>2, <2>3
<1>9. CASE Elapse
  BY <1>1, <1>2, <1>7, <1>8, <1>9, LevelElapse DEF W
<1>10. CASE ~ Elapse
  BY <1>1, <1>2, <1>7, <1>10, LevelStep
<1> QED
  BY <1>9, <1>10

\* One more request is accounted for by one more hit of the own limit, or by a fault.
LEMMA WithinGrows ==
  ASSUME Base, [Next]_vars, ~ Elapse, NEW kind, NEW site, NEW own, Budget(kind, site, own), NEW ip \in Ip,
         NEW t \in Int, NEW x \in Nat, NEW y \in Nat, Within(own, ip, t, x), y <= x + 1,
         \/ count'.faults = count.faults + 1
         \/ /\ now' = now /\ Entry(OwnKey(own, ip)).count + 1 <= CountOf[own]
            /\ \E r \in RequestRecord : Increment(OwnKey(own, ip), r)
  PROVE  WithinNext(own, ip, t, y)
<1> DEFINE K == OwnKey(own, ip)
           C == CountOf[own]
           W == WindowOf[own]
<1>1. K \in Key /\ K.limit = own
  BY BudgetFacts, OwnKeys
<1>2. /\ C \in Nat \ {0} /\ W \in Nat \ {0} /\ now \in Nat
      /\ Level(K) \in Nat /\ Level(K) <= C /\ Since(K) \in Int
  BY <1>1, LevelFacts
<1>3. count.faults \in Nat /\ count'.faults \in Nat /\ count'.faults >= count.faults
  BY FaultsGrow
<1>4. PICK n \in Nat : /\ x <= C * n + Level(K) + count.faults
                       /\ n = 0 \/ t + (n - 1) * W < Since(K)
  BY DEF Within
<1>5. C * n \in Nat
  <2>1. C \in Nat
    BY <1>2
  <2> HIDE DEF C
  <2> QED
    BY <2>1, OneMore
<1>6. Since(K)' = Since(K) /\ Level(K)' \in Nat /\ Level(K)' >= Level(K)
  BY <1>1, LevelStep
<1>7. \/ count'.faults = count.faults + 1
      \/ Level(K)' = Level(K) + 1
  BY <1>1, LevelIncrement
<1> HIDE DEF K, C, W
<1>8. y <= C * n + Level(K)' + count'.faults
  BY <1>2, <1>3, <1>4, <1>5, <1>6, <1>7
<1>9. n = 0 \/ t + (n - 1) * W < Since(K)'
  BY <1>4, <1>6
<1> QED
  BY <1>8, <1>9 DEF WithinNext, K, C, W

LEMMA WaitingFinite ==
  ASSUME NEW kind, NEW site, NEW ip, NEW t
  PROVE  /\ IsFiniteSet(Waiting(kind, site, ip, t)) /\ IsFiniteSet(WaitingNext(kind, site, ip, t))
         /\ Cardinality(Waiting(kind, site, ip, t)) \in Nat
         /\ Cardinality(WaitingNext(kind, site, ip, t)) \in Nat
<1>1. Waiting(kind, site, ip, t) \in SUBSET Thread /\ WaitingNext(kind, site, ip, t) \in SUBSET Thread
  BY DEF Waiting, WaitingNext
<1> QED
  BY <1>1, AccountAssumption, FS_Subset, FS_CardinalityType

\* What a plan has left when the site-wide limit comes next.
LEMMA SiteNext ==
  ASSUME NEW kind, NEW site, NEW own, Budget(kind, site, own),
         NEW k \in Kind, NEW left \in Rest[k], left # <<>>
  PROVE  /\ Head(left) = site => k = kind /\ left = <<site>> /\ Tail(left) = <<>>
         /\ Tail(left) = <<site>> /\ k = kind => Head(left) = own
         /\ Plan[kind] # <<site>>
<1>1. Head(left) \in LimitsOf[k]
  BY RestFacts
<1>2. CASE kind = "signup" /\ site = "accounts_day" /\ own = "signup_ip"
  <2>1. Head(left) = site => k = kind
    BY <1>1, <1>2, Kinds DEF LimitsOf
  <2>2. k = kind => left = <<"signup_ip", "accounts_day">> \/ left = <<"accounts_day">>
    BY <1>2 DEF Rest
  <2>3. left = <<"signup_ip", "accounts_day">> => Head(left) # site /\ Head(left) = own
    BY <1>2
  <2>4. left = <<"accounts_day">> => left = <<site>> /\ Tail(left) = <<>> /\ Tail(left) # <<site>>
    BY <1>2
  <2>5. Plan[kind] # <<site>>
    BY <1>2 DEF SimulatePlan, Plan
  <2> QED
    BY <2>1, <2>2, <2>3, <2>4, <2>5
<1>3. CASE kind = "demo" /\ site = "guests_day" /\ own = "guest_ip"
  <2>1. Head(left) = site => k = kind
    BY <1>1, <1>3, Kinds DEF LimitsOf
  <2>2. k = kind => left = <<"guest_ip", "guests_day">> \/ left = <<"guests_day">>
    BY <1>3 DEF Rest
  <2>3. left = <<"guest_ip", "guests_day">> => Head(left) # site /\ Head(left) = own
    BY <1>3
  <2>4. left = <<"guests_day">> => left = <<site>> /\ Tail(left) = <<>> /\ Tail(left) # <<site>>
    BY <1>3
  <2>5. Plan[kind] # <<site>>
    BY <1>3 DEF SimulatePlan, Plan
  <2> QED
    BY <2>1, <2>2, <2>3, <2>4, <2>5
<1> QED
  BY <1>2, <1>3 DEF Budget

\* A thread comes to wait because its address's own limit let it through or failed.
LEMMA ComesToWait ==
  ASSUME Base, NEW th \in Thread, Request(th), NEW kind, NEW site, NEW own, Budget(kind, site, own),
         NEW ip \in Ip, NEW t, th \in WaitingNext(kind, site, ip, t), th \notin Waiting(kind, site, ip, t)
  PROVE  /\ \/ count'.faults = count.faults + 1 /\ counter' = counter
            \/ /\ Entry(OwnKey(own, ip)).count + 1 <= CountOf[own]
               /\ \E r \in RequestRecord : Increment(OwnKey(own, ip), r)
         /\ now' = now
<1>1. doing'[th] # None /\ doing'[th].kind = kind /\ doing'[th].ip = ip /\ doing'[th].left = <<site>>
  BY DEF WaitingNext
<1>2. kind \in Kind /\ own \notin Slot /\ own \in {"signup_ip", "guest_ip"}
  BY BudgetFacts
<1>3. ~ Begins(th)
  <2> SUFFICES ASSUME NEW k \in Kind, NEW i \in Ip, NEW who, Begin(th, k, i, who)
               PROVE  FALSE
    BY DEF Begins
  <2>1. doing'[th].kind = k /\ doing'[th].left = Plan[k]
    BY BeginFacts
  <2>2. Plan[kind] \in Rest[kind] /\ Plan[kind] # <<>>
    BY <1>2, PlanFacts, Kinds DEF SimulatePlan, Plan
  <2>3. Plan[kind] # <<site>>
    BY <1>2, <2>2, SiteNext
  <2> QED
    BY <1>1, <2>1, <2>3
<1>4. ~ CreateGuest(th)
  <2> SUFFICES ASSUME CreateGuest(th) PROVE FALSE
    OBVIOUS
  <2> DEFINE v == [doing[th] EXCEPT !.guest = Made(th)]
  <2>1. Turn(th, v) /\ v.left = <<>>
    BY GuestFacts
  <2> HIDE DEF v
  <2>2. doing'[th].left = <<>>
    BY <2>1, TurnKeeps
  <2>3. <<site>> # <<>>
    OBVIOUS
  <2> QED
    BY <1>1, <2>2, <2>3
<1>5. Advance(th)
  BY <1>1, <1>3, <1>4, Moves
<1>6. /\ doing[th] \in RequestRecord /\ doing[th].kind = kind /\ doing[th].ip = ip
      /\ doing[th].left \in Rest[kind] /\ doing[th].left # <<>> /\ Tail(doing[th].left) = <<site>>
  BY <1>1, <1>5 DEF Advance, Fine
<1>7. Head(doing[th].left) = own
  BY <1>2, <1>6, SiteNext
<1>8. KeyOf(own, doing[th]) = OwnKey(own, ip)
  BY <1>2, <1>6, OwnKeys
<1>9. CASE FailOpen(th)
  BY <1>9, OpenBase DEF FailOpen
<1>10. CASE ~ FailOpen(th)
  <2>1. /\ Increment(KeyOf(Head(doing[th].left), doing[th]), doing[th])
        /\ Entry(KeyOf(Head(doing[th].left), doing[th])).count + 1 <= CountOf[Head(doing[th].left)]
        /\ HitLimit(th)
    BY <1>1, <1>2, <1>3, <1>4, <1>7, <1>10, Moves
  <2>2. Increment(OwnKey(own, ip), doing[th]) /\ Entry(OwnKey(own, ip)).count + 1 <= CountOf[own]
    BY <1>7, <1>8, <2>1
  <2> QED
    BY <1>6, <2>1, <2>2, Others
<1> QED
  BY <1>9, <1>10

\* Hitting the site-wide limit, a request stops waiting for it.
LEMMA HitsTurns ==
  ASSUME Base, NEW th \in Thread, Request(th), NEW kind, NEW site, NEW own, Budget(kind, site, own),
         NEW ip \in Ip
  PROVE  /\ Hits(kind, site, ip) \in Nat
         /\ \/ Hits(kind, site, ip)' = Hits(kind, site, ip)
            \/ /\ Hits(kind, site, ip)' = Hits(kind, site, ip) + 1
               /\ doing[th] \in RequestRecord /\ Fine(doing[th], now) /\ doing[th] # None
               /\ doing[th].kind = kind /\ doing[th].ip = ip /\ doing[th].left = <<site>>
               /\ doing'[th] = None \/ doing'[th].left = <<>>
<1> DEFINE K == SiteKey(site)
<1>1. K \in Key /\ K.limit = site /\ kind \in Kind /\ site \notin Slot
  BY BudgetFacts
<1>2. <<kind, ip>> \in Kind \X Ip
  BY <1>1
<1>3. K \in DOMAIN counter => counter[K].by \in [Kind \X Ip -> Nat]
  BY BaseParts DEF Counters
<1>4. Hits(kind, site, ip) \in Nat
  BY <1>2, <1>3 DEF Hits
<1> HIDE DEF K
<1>5. CASE counter' = counter
  BY <1>4, <1>5 DEF Hits
<1>6. ASSUME NEW r \in RequestRecord, NEW x \in Key, x.limit # site, Increment(x, r)
      PROVE  Hits(kind, site, ip)' = Hits(kind, site, ip)
  <2>1. /\ DOMAIN counter' = DOMAIN counter \cup {x}
        /\ \A y \in DOMAIN counter : y # x => counter'[y] = counter[y]
    BY <1>6, IncrementFacts
  <2>2. x # K
    BY <1>1, <1>6
  <2> QED
    BY <2>1, <2>2 DEF Hits, K
<1>7. CASE TakeSlot(th)
  <2> DEFINE r == doing[th]
             k == KeyOf(Head(r.left), r)
  <2>1. /\ r \in RequestRecord /\ k \in Key /\ k.limit \in Slot
        /\ counter' = counter \/ Increment(k, r)
    BY <1>7, SlotTurns
  <2>2. k.limit # site
    BY <1>1, <2>1
  <2> HIDE DEF r, k
  <2> QED
    BY <1>4, <1>5, <1>6, <2>1, <2>2
<1>8. CASE HitLimit(th)
  <2> DEFINE r == doing[th]
             k == KeyOf(Head(r.left), r)
  <2>1. /\ r \in RequestRecord /\ Fine(r, now) /\ r.left # <<>>
        /\ k \in Key /\ k.limit = Head(r.left) /\ Increment(k, r)
    BY <1>8, HitTurns
  <2>2. CASE Head(r.left) # site
    <3>1. k.limit # site /\ r \in RequestRecord /\ k \in Key /\ Increment(k, r)
      BY <2>1, <2>2
    <3> HIDE DEF r, k
    <3> QED
      BY <1>4, <1>6, <3>1
  <2>3. CASE Head(r.left) = site
    <3>1. r.kind \in Kind /\ r.left \in Rest[r.kind]
      BY <2>1 DEF RequestRecord, Fine
    <3>2. r.kind = kind /\ r.left = <<site>> /\ Tail(r.left) = <<>>
      BY <2>1, <2>3, <3>1, SiteNext
    <3>3. k = K
      BY <2>1, <2>3, SiteKeys, BudgetFacts DEF K
    <3>4. /\ DOMAIN counter' = DOMAIN counter \cup {K}
          /\ counter'[K].by = [Entry(K).by EXCEPT ![<<r.kind, r.ip>>] = @ + 1]
      BY <2>1, <3>3, IncrementFacts
    <3>5. Entry(K).by \in [Kind \X Ip -> Nat]
      BY <1>1, EntryFacts
    <3>6. Hits(kind, site, ip) = Entry(K).by[<<kind, ip>>]
      BY <1>2 DEF Hits, Entry, K, Nobody
    <3>7. Hits(kind, site, ip)' = counter'[K].by[<<kind, ip>>]
      BY <3>4 DEF Hits, K
    <3>8. CASE r.ip = ip
      <4>1. Hits(kind, site, ip)' = Hits(kind, site, ip) + 1
        BY <1>2, <3>2, <3>4, <3>5, <3>6, <3>7, <3>8
      <4>2. doing'[th] = None \/ doing'[th].left = <<>>
        <5>1. PICK v : Turn(th, v) /\ Passing(th, v)
          BY <1>8, HitTurns
        <5>2. doing'[th] = v
          BY <5>1, TurnKeeps
        <5> QED
          BY <3>2, <5>1, <5>2 DEF Passing
      <4>3. r # None
        BY <1>8 DEF HitLimit, Busy
      <4> QED
        BY <1>4, <2>1, <3>2, <3>8, <4>1, <4>2, <4>3
    <3>9. CASE r.ip # ip
      <4>1. <<r.kind, r.ip>> # <<kind, ip>>
        BY <3>9
      <4> QED
        BY <1>2, <1>4, <3>4, <3>5, <3>6, <3>7, <4>1
    <3> QED
      BY <3>8, <3>9
  <2> QED
    BY <2>2, <2>3
<1>9. CASE ~ HitLimit(th) /\ ~ TakeSlot(th)
  <2>1. counter' = counter
    BY <1>9 DEF Request, SubmitForm, RequestSimulation, ClickDemo, Begin, BeginWith, FailOpen, RequestFails,
       CreateAccount, CreateGuest, RememberGuest, RememberFor, PublishSimulation
  <2> QED
    BY <1>5, <2>1
<1> QED
  BY <1>4, <1>7, <1>8, <1>9

\* Only a thread's own step changes who waits.
LEMMA WaitersStay ==
  ASSUME Base, NEW th \in Thread, Request(th), NEW kind, NEW site, NEW ip, NEW t
  PROVE  WaitingNext(kind, site, ip, t) \subseteq Waiting(kind, site, ip, t) \cup {th}
BY Others DEF WaitingNext, Waiting

LEMMA NothingWithin ==
  ASSUME Base, [Next]_vars, NEW kind, NEW site, NEW own, Budget(kind, site, own), NEW ip \in Ip, NEW t \in Int
  PROVE  WithinNext(own, ip, t, 0)
<1> DEFINE K == OwnKey(own, ip)
<1>1. K \in Key /\ K.limit = own
  BY BudgetFacts, OwnKeys
<1>2. Level(K) \in Nat /\ CountOf[own] \in Nat
  BY <1>1, LevelFacts
<1>3. Level(K)' \in Nat
  BY <1>1, <1>2, LevelElapse, LevelStep
<1>4. count'.faults \in Nat
  BY FaultsGrow
<1> HIDE DEF K
<1>5. 0 <= CountOf[own] * 0 + Level(K)' + count'.faults
  BY <1>2, <1>3, <1>4
<1> QED
  BY <1>5 DEF WithinNext, K

LEMMA WaitingStep ==
  ASSUME Base, [Next]_vars, NEW kind, NEW site, NEW own, Budget(kind, site, own), NEW ip \in Ip,
         Shared(kind, site, own, ip), NEW t \in Int
  PROVE  WithinNext(own, ip, t, Cardinality(WaitingNext(kind, site, ip, t)))
<1> DEFINE P == Waiting(kind, site, ip, t)
           Q == WaitingNext(kind, site, ip, t)
<1>1. IsFiniteSet(P) /\ IsFiniteSet(Q) /\ Cardinality(P) \in Nat /\ Cardinality(Q) \in Nat
  BY WaitingFinite
<1>2. Within(own, ip, t, Cardinality(P))
  BY DEF Shared
<1>3. now \in Nat
  BY BaseParts, BoundAssumption
<1>4. CASE Q \subseteq P /\ (Elapse => t <= now)
  <2>1. Cardinality(Q) <= Cardinality(P)
    BY <1>1, <1>4, LosesSome
  <2> HIDE DEF P, Q
  <2> QED
    BY <1>1, <1>2, <1>4, <2>1, WithinStays DEF Q
<1>5. CASE Elapse
  <2>1. Q = P
    BY <1>5 DEF Elapse, Waiting, WaitingNext
  <2>2. CASE t <= now
    BY <1>4, <2>1, <2>2
  <2>3. CASE ~ (t <= now)
    <3>1. \A th \in Thread : doing[th] # None => doing[th].at \in Nat /\ doing[th].at <= now
      BY BaseParts DEF Requests, Fine, RequestRecord
    <3>2. P = {}
      BY <1>3, <2>3, <3>1 DEF Waiting
    <3>3. Cardinality(Q) = 0
      BY <2>1, <3>2, FS_EmptySet
    <3> QED
      BY <3>3, NothingWithin
  <2> QED
    BY <2>2, <2>3
<1>6. CASE ~ Elapse /\ (Restart \/ UNCHANGED vars)
  <2>1. Q \subseteq P
    BY <1>6 DEF Restart, vars, Waiting, WaitingNext
  <2> QED
    BY <1>4, <1>6, <2>1
<1>7. ASSUME ~ Elapse, NEW th \in Thread, Request(th)
      PROVE  WithinNext(own, ip, t, Cardinality(Q))
  <2>1. Q \subseteq P \cup {th}
    BY <1>7, WaitersStay
  <2>2. CASE th \in Q /\ th \notin P
    <3>1. Cardinality(Q) <= Cardinality(P) + 1
      BY <1>1, <2>1, GainsOne
    <3>2. \/ count'.faults = count.faults + 1
          \/ /\ now' = now /\ Entry(OwnKey(own, ip)).count + 1 <= CountOf[own]
             /\ \E r \in RequestRecord : Increment(OwnKey(own, ip), r)
      BY <1>7, <2>2, ComesToWait
    <3> HIDE DEF P, Q
    <3> QED
      BY <1>1, <1>2, <1>7, <3>1, <3>2, WithinGrows
  <2>3. CASE ~ (th \in Q /\ th \notin P)
    BY <1>4, <1>7, <2>1, <2>3
  <2> QED
    BY <2>2, <2>3
<1> QED
  BY <1>5, <1>6, <1>7 DEF Next

LEMMA HitsStep ==
  ASSUME Base, [Next]_vars, NEW kind, NEW site, NEW own, Budget(kind, site, own), NEW ip \in Ip,
         Shared(kind, site, own, ip), NEW t \in Int, t = Since(SiteKey(site))' - MaxDelay
  PROVE  WithinNext(own, ip, t, Hits(kind, site, ip)' + Cardinality(WaitingNext(kind, site, ip, t)))
<1> DEFINE K == SiteKey(site)
           P == Waiting(kind, site, ip, t)
           Q == WaitingNext(kind, site, ip, t)
           h == Hits(kind, site, ip)
<1>1. K \in Key /\ K.limit = site /\ kind \in Kind
  BY BudgetFacts
<1>2. /\ Since(K) \in Int /\ Since(K) <= now /\ now \in Nat /\ MaxDelay \in Nat
      /\ WindowOf[site] \in Nat \ {0}
  BY <1>1, LevelFacts, Numbers
<1>3. IsFiniteSet(P) /\ IsFiniteSet(Q) /\ Cardinality(P) \in Nat /\ Cardinality(Q) \in Nat
  BY WaitingFinite
<1>4. h \in Nat
  <2>1. K \in DOMAIN counter => counter[K].by \in [Kind \X Ip -> Nat]
    BY BaseParts DEF Counters
  <2>2. <<kind, ip>> \in Kind \X Ip
    BY <1>1
  <2> QED
    BY <2>1, <2>2 DEF Hits
<1> HIDE DEF K
\* The window stays open: what it has counted is accounted for from the same time on.
<1>5. ASSUME t = Since(K) - MaxDelay PROVE Within(own, ip, t, h + Cardinality(P))
  BY <1>5 DEF Shared, K
<1>6. ASSUME t = Since(K) - MaxDelay, h' \in Nat, h' + Cardinality(Q) <= h + Cardinality(P)
      PROVE  WithinNext(own, ip, t, h' + Cardinality(Q))
  <2>1. Within(own, ip, t, h + Cardinality(P))
    BY <1>5, <1>6
  <2>2. h' + Cardinality(Q) \in Nat /\ h + Cardinality(P) \in Nat
    BY <1>3, <1>4, <1>6
  <2>3. t <= now
    BY <1>2, <1>6
  <2> HIDE DEF h, P, Q
  <2> QED
    BY <1>6, <2>1, <2>2, <2>3, WithinStays
<1>7. ASSUME h' = h, Q \subseteq P, t = Since(K) - MaxDelay
      PROVE  WithinNext(own, ip, t, h' + Cardinality(Q))
  <2>1. Cardinality(Q) <= Cardinality(P)
    BY <1>3, <1>7, LosesSome
  <2> HIDE DEF h, P, Q
  <2> QED
    BY <1>3, <1>4, <1>6, <1>7, <2>1
<1>8. CASE Elapse
  <2>1. Q = P
    BY <1>8 DEF Elapse, Waiting, WaitingNext
  <2>2. CASE K \in DOMAIN counter'
    <3>1. K \in DOMAIN counter /\ counter'[K] = counter[K]
      BY <1>8, <2>2 DEF Elapse
    <3>2. h' = h
      BY <2>2, <3>1 DEF Hits, K
    <3>3. t = Since(K) - MaxDelay
      BY <2>2, <3>1 DEF Since, K
    <3> QED
      BY <1>7, <2>1, <3>2, <3>3
  <2>3. CASE K \notin DOMAIN counter'
    <3>1. h' = 0
      BY <2>3 DEF Hits, K
    <3>2. WithinNext(own, ip, t, Cardinality(Q))
      BY WaitingStep
    <3>3. h' + Cardinality(Q) = Cardinality(Q)
      BY <1>3, <3>1
    <3> QED
      BY <3>2, <3>3 DEF WithinNext
  <2> QED
    BY <2>2, <2>3
<1>9. ASSUME ~ Elapse PROVE t = Since(K) - MaxDelay
  <2>1. Since(K)' = Since(K)
    BY <1>1, <1>9, LevelStep
  <2> QED
    BY <2>1 DEF K
<1>10. CASE ~ Elapse /\ (Restart \/ UNCHANGED vars)
  <2>1. Q \subseteq P /\ counter' = counter
    BY <1>10 DEF Restart, vars, Waiting, WaitingNext
  <2>2. h' = h
    BY <2>1 DEF Hits
  <2> QED
    BY <1>7, <1>9, <1>10, <2>1, <2>2
<1>11. ASSUME ~ Elapse, NEW th \in Thread, Request(th)
       PROVE  WithinNext(own, ip, t, h' + Cardinality(Q))
  <2>1. t = Since(K) - MaxDelay /\ t \in Int
    BY <1>9, <1>11
  <2>2. Q \subseteq P \cup {th}
    BY <1>11, WaitersStay
  \* A hit of the site-wide limit: the request that waited for it does so no more.
  <2>3. CASE /\ h' = h + 1
             /\ doing[th] \in RequestRecord /\ Fine(doing[th], now) /\ doing[th] # None
             /\ doing[th].kind = kind /\ doing[th].ip = ip /\ doing[th].left = <<site>>
             /\ doing'[th] = None \/ doing'[th].left = <<>>
    <3>1. th \in P
      <4>1. doing[th].at \in Nat /\ now <= doing[th].at + MaxDelay
        BY <2>3 DEF Fine, RequestRecord
      <4>2. doing[th].at >= t
        BY <1>2, <2>1, <4>1
      <4> QED
        BY <2>3, <4>2 DEF Waiting
    <3>2. th \notin Q
      <4>1. <<site>> # <<>>
        OBVIOUS
      <4> QED
        BY <2>3, <4>1 DEF WaitingNext
    <3>3. Q \subseteq P \ {th}
      BY <2>2, <3>2
    <3>4. Cardinality(Q) + 1 <= Cardinality(P)
      BY <1>3, <3>1, <3>3, LosesOne
    <3>5. h' \in Nat /\ h' + Cardinality(Q) <= h + Cardinality(P)
      <4> HIDE DEF h, P, Q
      <4> QED
        BY <1>3, <1>4, <2>3, <3>4
    <3> QED
      BY <1>6, <2>1, <3>5
  <2>4. CASE h' = h /\ th \in Q /\ th \notin P
    <3>1. Cardinality(Q) <= Cardinality(P) + 1
      BY <1>3, <2>2, GainsOne
    <3>2. \/ count'.faults = count.faults + 1
          \/ /\ now' = now /\ Entry(OwnKey(own, ip)).count + 1 <= CountOf[own]
             /\ \E r \in RequestRecord : Increment(OwnKey(own, ip), r)
      BY <1>11, <2>4, ComesToWait
    <3>3. Within(own, ip, t, h + Cardinality(P))
      BY <1>5, <2>1
    <3> HIDE DEF h, P, Q
    <3>4. h' + Cardinality(Q) \in Nat /\ h + Cardinality(P) \in Nat
          /\ h' + Cardinality(Q) <= (h + Cardinality(P)) + 1
      BY <1>3, <1>4, <2>4, <3>1
    <3> QED
      BY <1>11, <2>1, <3>2, <3>3, <3>4, WithinGrows
  <2>5. CASE h' = h /\ ~ (th \in Q /\ th \notin P)
    BY <1>7, <2>1, <2>2, <2>5
  <2> QED
    BY <1>11, <2>3, <2>4, <2>5, HitsTurns
<1> QED
  BY <1>8, <1>10, <1>11 DEF Next

LEMMA SharedStep ==
  ASSUME Base, [Next]_vars, NEW kind, NEW site, NEW own, Budget(kind, site, own), NEW ip \in Ip,
         Shared(kind, site, own, ip)
  PROVE  Shared(kind, site, own, ip)'
<1>1. ASSUME NEW t \in Int PROVE Within(own, ip, t, Cardinality(Waiting(kind, site, ip, t)))'
  <2>1. WithinNext(own, ip, t, Cardinality(WaitingNext(kind, site, ip, t)))
    BY WaitingStep
  <2>2. Waiting(kind, site, ip, t)' = WaitingNext(kind, site, ip, t)
    BY DEF Waiting, WaitingNext
  <2> QED
    BY <2>1, <2>2 DEF Within, WithinNext
<1>2. Since(SiteKey(site))' - MaxDelay \in Int
  <2>1. Since(SiteKey(site))' \in Int
    <3>1. SiteKey(site) \in Key /\ SiteKey(site).limit = site
      BY BudgetFacts
    <3>2. Since(SiteKey(site)) \in Int /\ WindowOf[site] \in Int
      BY <3>1, LevelFacts
    <3> QED
      BY <3>1, <3>2, LevelElapse, LevelStep
  <2> QED
    BY <2>1, Numbers
<1> DEFINE t == Since(SiteKey(site)) - MaxDelay
<1>3. WithinNext(own, ip, t', Hits(kind, site, ip)' + Cardinality(WaitingNext(kind, site, ip, t')))
  BY <1>2, HitsStep
<1>4. Within(own, ip, t, Hits(kind, site, ip) + Cardinality(Waiting(kind, site, ip, t)))'
  BY <1>3 DEF Within, WithinNext, Waiting, WaitingNext
<1> QED
  BY <1>1, <1>4 DEF Shared

LEMMA SharingStep == Base /\ Sharing /\ [Next]_vars => Sharing'
<1> SUFFICES ASSUME Base, Sharing, [Next]_vars PROVE Sharing'
  OBVIOUS
<1>1. Budget("signup", "accounts_day", "signup_ip") /\ Budget("demo", "guests_day", "guest_ip")
  BY DEF Budget
<1>2. ASSUME NEW ip \in Ip
      PROVE  /\ Shared("signup", "accounts_day", "signup_ip", ip)'
             /\ Shared("demo", "guests_day", "guest_ip", ip)'
  BY <1>1, <1>2, SharedStep DEF Sharing
<1>3. ASSUME NEW x \in DOMAIN counter', x.limit \in SiteWide PROVE x = SiteKey(x.limit)
  <2>1. CASE x \in DOMAIN counter
    BY <1>3, <2>1 DEF Sharing
  <2>2. CASE x \notin DOMAIN counter
    <3>1. ~ Elapse /\ counter' # counter
      BY <1>3, <2>2 DEF Elapse
    <3>2. PICK r \in RequestRecord, k \in Key : k = KeyOf(k.limit, r) /\ Increment(k, r)
      BY <3>1, Counting
    <3>3. x = k
      BY <1>3, <2>2, <3>2, IncrementFacts
    <3> QED
      BY <1>3, <3>2, <3>3, SiteKeys DEF SiteWide
  <2> QED
    BY <2>1, <2>2
<1> QED
  BY <1>2, <1>3 DEF Sharing

LEMMA InitShared ==
  ASSUME Init, NEW kind, NEW site, NEW own, Budget(kind, site, own), NEW ip \in Ip
  PROVE  Shared(kind, site, own, ip)
<1>1. \A t : Waiting(kind, site, ip, t) = {}
  BY DEF Init, Waiting
<1>2. Hits(kind, site, ip) = 0
  BY DEF Init, Hits
<1>3. Level(OwnKey(own, ip)) = 0 /\ count.faults = 0 /\ CountOf[own] \in Nat
  <2>1. CountOf[own] \in Nat
    BY BudgetFacts, Numbers
  <2> QED
    BY <2>1 DEF Init, Level
<1>4. \A t : Within(own, ip, t, 0)
  <2> SUFFICES ASSUME NEW t PROVE Within(own, ip, t, 0)
    OBVIOUS
  <2>1. 0 <= CountOf[own] * 0 + Level(OwnKey(own, ip)) + count.faults
    BY <1>3
  <2> QED
    BY <2>1 DEF Within
<1>5. \A t : Cardinality(Waiting(kind, site, ip, t)) = 0
  BY <1>1, FS_EmptySet
<1> DEFINE t0 == Since(SiteKey(site)) - MaxDelay
<1>6. Hits(kind, site, ip) + Cardinality(Waiting(kind, site, ip, t0)) = 0
  BY <1>2, <1>5
<1> QED
  BY <1>4, <1>5, <1>6 DEF Shared

LEMMA InitSharing == Init => Sharing
<1> SUFFICES ASSUME Init PROVE Sharing
  OBVIOUS
<1>1. Budget("signup", "accounts_day", "signup_ip") /\ Budget("demo", "guests_day", "guest_ip")
  BY DEF Budget
<1>2. DOMAIN counter = {}
  BY DEF Init
<1> QED
  BY <1>1, <1>2, InitShared DEF Sharing

LEMMA ShareBound ==
  ASSUME Base, NEW kind, NEW site, NEW own, Budget(kind, site, own), NEW ip \in Ip,
         Shared(kind, site, own, ip), SiteKey(site) \in DOMAIN counter
  PROVE  counter[SiteKey(site)].by[<<kind, ip>>] <= Share(site, own)
<1> DEFINE K == SiteKey(site)
           O == OwnKey(own, ip)
           C == CountOf[own]
           W == WindowOf[own]
           V == WindowOf[site]
           S == Since(K)
           x == Hits(kind, site, ip)
           y == Cardinality(Waiting(kind, site, ip, S - MaxDelay))
           level == Level(O)
           open == Since(O)
           f == count.faults
<1>1. K \in Key /\ K.limit = site /\ O \in Key /\ O.limit = own
  BY BudgetFacts, OwnKeys
<1>2. /\ C \in Nat \ {0} /\ W \in Nat \ {0} /\ V \in Nat \ {0} /\ now \in Nat /\ MaxDelay \in Nat
      /\ level \in Nat /\ level <= C /\ open \in Int /\ open <= now
      /\ S \in Int /\ now < S + V
  BY <1>1, LevelFacts, Numbers
<1>3. f \in Nat /\ y \in Nat
  BY TallyFacts, BoundAssumption, WaitingFinite
<1>4. x = counter[K].by[<<kind, ip>>] /\ x \in Nat
  <2>1. counter[K].by \in [Kind \X Ip -> Nat]
    BY BaseParts DEF Counters
  <2>2. <<kind, ip>> \in Kind \X Ip
    BY BudgetFacts
  <2> QED
    BY <2>1, <2>2 DEF Hits
<1>5. PICK n \in Nat : /\ x + y <= C * n + level + f
                       /\ n = 0 \/ (S - MaxDelay) + (n - 1) * W < open
  BY DEF Shared, Within
<1> DEFINE X == V + MaxDelay + W - 2
<1> HIDE DEF K, O, C, W, V, S, x, y, level, open, f
<1>6. n * W <= X /\ n * W \in Nat /\ X \in Int
  <2>1. (n - 1) * W \in Int /\ n * W = (n - 1) * W + W /\ (n = 0 => n * W = 0)
    BY <1>2
  <2> QED
    BY <1>2, <1>5, <2>1
<1>7. n <= X \div W /\ X \div W \in Int
  <2>1. n \in Int /\ X \in Int /\ W \in Nat \ {0}
    BY <1>2, <1>6
  <2> HIDE DEF X
  <2>2. n <= X \div W
    BY <1>6, <2>1, DivAtLeast
  <2> QED
    BY <2>1, <2>2
<1> DEFINE q == X \div W
<1>8. n <= q /\ q \in Int
  BY <1>7
<1> HIDE DEF q, X
<1>9. C * n <= C * q /\ C * n \in Int /\ C * q \in Int /\ C * (q + 1) = C * q + C
  <2>1. C \in Nat
    BY <1>2
  <2> QED
    BY <1>8, <2>1, TimesGrows
<1>10. x <= C * (q + 1) + f
  BY <1>2, <1>3, <1>4, <1>5, <1>8, <1>9
<1> QED
  BY <1>4, <1>10 DEF Share, q, X, C, W, V, f, K

\* An address uses up its share of a site-wide budget and no more (signup and
\* guest_demo charge the address's own limit first): what it lands in a window of the
\* site is what its own limit admits in the windows that overlap it.
THEOREM AddressesShare == Spec => []BudgetIsShared
<1>1. Base /\ Sharing => BudgetIsShared
  <2> SUFFICES ASSUME Base, Sharing, NEW k \in DOMAIN counter, NEW b \in SiteBudgets, NEW ip \in Ip,
                      k.limit = b[2]
               PROVE  counter[k].by[<<b[1], ip>>] <= Share(b[2], b[3])
    BY DEF BudgetIsShared
  <2>1. CASE b = <<"signup", "accounts_day", "signup_ip">>
    <3>1. Budget("signup", "accounts_day", "signup_ip") /\ b[1] = "signup" /\ b[2] = "accounts_day" /\ b[3] = "signup_ip"
      BY <2>1 DEF Budget
    <3>2. k = SiteKey("accounts_day") /\ Shared("signup", "accounts_day", "signup_ip", ip)
      BY <3>1 DEF Sharing, SiteWide
    <3> QED
      BY <3>1, <3>2, ShareBound
  <2>2. CASE b = <<"demo", "guests_day", "guest_ip">>
    <3>1. Budget("demo", "guests_day", "guest_ip") /\ b[1] = "demo" /\ b[2] = "guests_day" /\ b[3] = "guest_ip"
      BY <2>2 DEF Budget
    <3>2. k = SiteKey("guests_day") /\ Shared("demo", "guests_day", "guest_ip", ip)
      BY <3>1 DEF Sharing, SiteWide
    <3> QED
      BY <3>1, <3>2, ShareBound
  <2> QED
    BY <2>1, <2>2 DEF SiteBudgets
<1> QED
  BY <1>1, InitSharing, SharingStep, AlwaysBase, PTL DEF Spec
=============================================================================
