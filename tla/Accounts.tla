------------------------------ MODULE Accounts ------------------------------
(***************************************************************************)
(* Abuse controls in front of the requests that create accounts or load    *)
(* the pipeline (services/webapp/src: guard.hit, and signup, login,        *)
(* guest_demo and api_simulate in app.py, with what they call in store.py).*)
(*                                                                         *)
(* Requests run in concurrent threads, one Redis transaction or database   *)
(* statement at a time.  Counters, slots and the address's guest are keys  *)
(* in Redis that lapse; they and the tables survive the process.           *)
(***************************************************************************)
EXTENDS Integers, Sequences, FiniteSets

CONSTANTS
  Thread,       \* worker threads of the web application
  Ip, Email,
  Registered,   \* emails with an account from before
  None,
  CountOf,      \* Limit.count
  WindowOf,     \* Limit.window_s, and the lifetime of a slot
  GuestAge,     \* GUEST_MAX_AGE_HOURS
  MaxDelay,     \* longest time a request is under way
  MaxTime,      \* bound: clock ticks of a behaviour
  MaxRequests,  \* bound: requests
  MaxFaults     \* bound: failing calls and restarts

\* The limits that a request for a simulation passes, in order.
SimulatePlan == <<"api_ip", "sim_slot", "sim_ip", "sim_global">>

\* The limits of every request, in the order of its handler.
Plan == [signup   |-> <<"signup_ip", "accounts_day">>,
         login    |-> <<"login_ip", "login_email">>,
         demo     |-> <<"guest_ip", "guests_day">>,
         simulate |-> SimulatePlan]
Kind  == DOMAIN Plan
Limit == UNION {{Plan[k][i] : i \in DOMAIN Plan[k]} : k \in Kind}
Slot  == {"sim_slot", "sim_global"}
PerAddress == {"signup_ip", "login_ip", "login_email", "guest_ip", "api_ip", "sim_ip"}
PerAccount == {"login_email", "sim_slot"}

Key    == [limit : Limit, ip : Ip \cup {None}, who : Email \cup {None}]
Guest  == [ip : Ip, at : Nat, n : Nat]
Memory == [guest : Guest, until : Nat]
RequestRecord == [kind : Kind, ip : Ip, who : Email \cup {None}, at : Nat,
                  left : Seq(Limit), guest : Guest \cup {None}]

ASSUME AccountAssumption ==
  /\ Registered \subseteq Email /\ IsFiniteSet(Email) /\ IsFiniteSet(Thread)
  /\ None \notin Ip /\ None \notin Guest /\ None \notin Memory /\ None \notin RequestRecord
ASSUME LimitAssumption ==
  /\ CountOf \in [Limit -> Nat \ {0}] /\ WindowOf \in [Limit -> Nat \ {0}]
  /\ GuestAge \in Nat \ {0} /\ MaxDelay \in Nat
ASSUME BoundAssumption == MaxTime \in Nat /\ MaxRequests \in Nat /\ MaxFaults \in Nat

VARIABLES
  now,
  counter,     \* rl:<limit>:<subject> and simulate:*, the keys that have not lapsed
  doing,       \* the request of every thread, or None
  users,       \* table users: emails of accounts that are no guests
  guests,      \* table users: guests
  guestOf,     \* guest:by_ip:<ip>: the address's guest and when the key lapses, or None
  count,       \* requests and faults so far
  minted,      \* history: every guest there has been
  runs         \* history: when simulations were published

tables  == <<users, guests>>
history == <<minted, runs>>
vars == <<now, counter, doing, tables, guestOf, count, history>>

-----------------------------------------------------------------------------
Counted(c, max) == count[c] < max /\ count' = [count EXCEPT ![c] = @ + 1]
Busy(th) == doing[th] # None
Ends(th) == doing' = [doing EXCEPT ![th] = None]

\* Mutant of KeyOf: failed logins are counted for the email alone.
KeyByEmail(lim, r) ==
  [limit |-> lim,
   ip    |-> IF lim \in PerAddress \ {"login_email"} THEN r.ip ELSE None,
   who   |-> IF lim \in PerAccount THEN r.who ELSE None]

\* The key a limit or slot counts a request under.
KeyOf(lim, r) ==
  [limit |-> lim,
   ip    |-> IF lim \in PerAddress THEN r.ip ELSE None,
   who   |-> IF lim \in PerAccount THEN r.who ELSE None]

Nobody == [x \in Kind \X Ip |-> 0]

\* Mutant of Entry: a window is opened without an end.
EntryWithoutEnd(k) ==
  IF k \in DOMAIN counter THEN counter[k]
  ELSE [count |-> 0, until |-> None, by |-> Nobody]

\* What a key holds, a fresh window when it has none.  Who hit it is not stored;
\* the properties speak of it.
Entry(k) ==
  IF k \in DOMAIN counter THEN counter[k]
  ELSE [count |-> 0, until |-> now + WindowOf[k.limit], by |-> Nobody]

\* The transaction of hit: SET NX EX opens the window once, INCR counts.
Increment(k, r) ==
  LET e == Entry(k)
      one == [count |-> e.count + 1, until |-> e.until, by |-> [e.by EXCEPT ![<<r.kind, r.ip>>] = @ + 1]]
  IN  counter' = [x \in DOMAIN counter \cup {k} |-> IF x = k THEN one ELSE counter[x]]

\* Mutant of RetryAfter: the time left, which rounds to 0 at the end.
RetryRaw(ttl) == ttl

RetryAfter(ttl) == IF ttl < 1 THEN 1 ELSE ttl

\* hit, and what its callers make of it: the middleware looks at the verdict, the
\* handlers (through _limited) at whether there are seconds to wait.
Refuses(lim, n, ttl) == n > CountOf[lim] /\ (lim = "api_ip" \/ RetryAfter(ttl) # 0)

-----------------------------------------------------------------------------
Init ==
  /\ now = 0
  /\ counter = <<>>
  /\ doing = [th \in Thread |-> None]
  /\ users = Registered /\ guests = {}
  /\ guestOf = [ip \in Ip |-> None]
  /\ count = [requests |-> 0, faults |-> 0]
  /\ minted = {} /\ runs = <<>>

\* Redis deletes the keys whose time has come.
Elapse ==
  /\ now < MaxTime
  /\ \A th \in Thread : Busy(th) => now < doing[th].at + MaxDelay
  /\ now' = now + 1
  /\ counter' = [k \in {x \in DOMAIN counter : counter[x].until > now'} |-> counter[k]]
  /\ guestOf' = [ip \in Ip |-> IF guestOf[ip] # None /\ guestOf[ip].until > now'
                               THEN guestOf[ip] ELSE None]
  /\ UNCHANGED <<doing, tables, count, history>>

\* What Begin and its mutant share: the limits are passed in this order.
BeginWith(th, kind, ip, who, limits) ==
  /\ ~ Busy(th) /\ count.requests < MaxRequests
  /\ doing' = [doing EXCEPT ![th] = [kind |-> kind, ip |-> ip, who |-> who, at |-> now,
                                     left |-> limits, guest |-> None]]
  /\ UNCHANGED <<now, counter, tables, guestOf, history>>

\* Mutant of Begin: the site's budget is charged before the address's.
BeginSiteFirst(th, kind, ip, who) ==
  BeginWith(th, kind, ip, who,
            IF kind = "signup" THEN <<"accounts_day", "signup_ip">> ELSE Plan[kind])

\* Mutant of Begin: a simulation passes its limits and takes no slot.
BeginWithoutSlots(th, kind, ip, who) ==
  BeginWith(th, kind, ip, who, SelectSeq(Plan[kind], LAMBDA lim : lim \notin Slot))

Begin(th, kind, ip, who) == BeginWith(th, kind, ip, who, Plan[kind])

CountRequest(faults) ==
  count' = [requests |-> count.requests + 1, faults |-> count.faults + faults]

\* signup and login, once the form is valid.
SubmitForm(th, kind, ip, email) ==
  Begin(th, kind, ip, email) /\ CountRequest(0)

\* api_simulate needs a session of an account that watches the ticker; without one
\* the request ends after the API limit, which is left out.
RequestSimulation(th, ip, email) ==
  email \in users /\ Begin(th, "simulate", ip, email) /\ CountRequest(0)

\* guest_demo finds the address's guest: signed in, nothing else to do.
Reusable(ip) == guestOf[ip] # None /\ guestOf[ip].guest \in guests

\* guest_demo finds none, or the lookup fails.
ClickDemo(th, ip) ==
  /\ Begin(th, "demo", ip, None)
  /\ IF Reusable(ip) THEN count.faults < MaxFaults /\ CountRequest(1) ELSE CountRequest(0)

-----------------------------------------------------------------------------
\* A login that passed its limits changes nothing more.
Passes(th) ==
  IF doing[th].kind = "login" /\ Len(doing[th].left) = 1
  THEN Ends(th)
  ELSE doing' = [doing EXCEPT ![th].left = Tail(@)]

\* One rate limit.  Redis reports whole seconds: the time left may round down.
HitLimit(th) ==
  /\ Busy(th) /\ doing[th].left # <<>>
  /\ LET r == doing[th]
         lim == Head(r.left)
         k == KeyOf(lim, r)
     IN  /\ lim \notin Slot
         /\ Increment(k, r)
         /\ \E round \in {0, 1} :
              IF Refuses(lim, Entry(k).count + 1, Entry(k).until - now - round)
              THEN Ends(th) ELSE Passes(th)
  /\ UNCHANGED <<now, tables, guestOf, count, history>>

\* SET NX EX on a simulation slot: taken by this request, or not free.
TakeSlot(th) ==
  /\ Busy(th) /\ doing[th].left # <<>>
  /\ LET r == doing[th]
         k == KeyOf(Head(r.left), r)
     IN  /\ k.limit \in Slot
         /\ IF k \in DOMAIN counter
            THEN Ends(th) /\ UNCHANGED counter
            ELSE Passes(th) /\ Increment(k, r)
  /\ UNCHANGED <<now, tables, guestOf, count, history>>

\* Redis fails: limits are open then.
FailOpen(th) ==
  /\ Busy(th) /\ doing[th].left # <<>> /\ Head(doing[th].left) \notin Slot
  /\ Counted("faults", MaxFaults)
  /\ Passes(th)
  /\ UNCHANGED <<now, counter, tables, guestOf, history>>

\* An exception ends the request: a slot cannot be asked for, the database or
\* Kafka fails, or the guest is not remembered.
RequestFails(th) ==
  /\ Busy(th)
  /\ Counted("faults", MaxFaults)
  /\ Ends(th)
  /\ UNCHANGED <<now, counter, tables, guestOf, history>>

Admitted(th, kind) == Busy(th) /\ doing[th].kind = kind /\ doing[th].left = <<>>

\* The lookup and the insert, which a unique index decides.
CreateAccount(th) ==
  /\ Admitted(th, "signup")
  /\ users' = users \cup {doing[th].who}
  /\ Ends(th)
  /\ UNCHANGED <<now, counter, guests, guestOf, count, history>>

CreateGuest(th) ==
  /\ Admitted(th, "demo") /\ doing[th].guest = None
  /\ LET g == [ip |-> doing[th].ip, at |-> now, n |-> Cardinality(minted)]
     IN  /\ guests' = guests \cup {g} /\ minted' = minted \cup {g}
         /\ doing' = [doing EXCEPT ![th].guest = g]
  /\ UNCHANGED <<now, counter, users, guestOf, count, runs>>

RememberFor(th, lifetime) ==
  /\ Admitted(th, "demo") /\ doing[th].guest # None
  /\ guestOf' = [guestOf EXCEPT ![doing[th].ip] = [guest |-> doing[th].guest, until |-> now + lifetime]]
  /\ Ends(th)
  /\ UNCHANGED <<now, counter, tables, count, history>>

\* Mutant of RememberGuest: the lifetime is given in the wrong unit.
RememberBriefly(th) == RememberFor(th, 1)

RememberGuest(th) == RememberFor(th, GuestAge)

PublishSimulation(th) ==
  /\ Admitted(th, "simulate")
  /\ runs' = Append(runs, now)
  /\ Ends(th)
  /\ UNCHANGED <<now, counter, tables, guestOf, count, minted>>

\* The process ends with its requests; a new one purges old guests, if it can.
Restart ==
  /\ Counted("faults", MaxFaults)
  /\ doing' = [th \in Thread |-> None]
  /\ guests' \in {guests, {g \in guests : g.at >= now - GuestAge}}
  /\ UNCHANGED <<now, counter, users, guestOf, history>>

Request(th) ==
  \/ \E kind \in {"signup", "login"}, ip \in Ip, email \in Email : SubmitForm(th, kind, ip, email)
  \/ \E ip \in Ip, email \in Email : RequestSimulation(th, ip, email)
  \/ \E ip \in Ip : ClickDemo(th, ip)
  \/ HitLimit(th) \/ TakeSlot(th) \/ FailOpen(th) \/ RequestFails(th)
  \/ CreateAccount(th) \/ CreateGuest(th) \/ RememberGuest(th) \/ PublishSimulation(th)

Next == Elapse \/ Restart \/ \E th \in Thread : Request(th)

Spec == Init /\ [][Next]_vars

-----------------------------------------------------------------------------
\* Every variable keeps its type, and every counter lapses: no key is without an
\* end, so nobody is refused for ever.
TypeOK ==
  /\ now \in 0..MaxTime
  /\ DOMAIN counter \subseteq Key
  /\ \A k \in DOMAIN counter :
       /\ counter[k].count \in Nat \ {0}
       /\ counter[k].until \in (now + 1)..(now + WindowOf[k.limit])
       /\ counter[k].by \in [Kind \X Ip -> Nat]
  /\ doing \in [Thread -> RequestRecord \cup {None}]
  /\ users \subseteq Email /\ guests \subseteq minted /\ minted \subseteq Guest
  /\ guestOf \in [Ip -> Memory \cup {None}]
  /\ \A ip \in Ip : guestOf[ip] # None => guestOf[ip].until > now
  /\ count \in [requests : 0..MaxRequests, faults : 0..MaxFaults]
  /\ runs \in Seq(Nat)

\* Windows of a limit that can have been opened by now.
Windows(lim) == now \div WindowOf[lim] + 1

\* The site-wide ceilings "bound database growth no matter how many IPs a bot
\* rotates through": never more accounts than the budgets of the windows so far,
\* whatever requests were under way when a window ended, plus what failed open.
AccountsWithinBudget ==
  /\ Cardinality(users \ Registered) <= CountOf["accounts_day"] * Windows("accounts_day") + count.faults
  /\ Cardinality(minted) <= CountOf["guests_day"] * Windows("guests_day") + count.faults

\* Hits one address may land on a site-wide budget in one of its windows: those its
\* own limit admits in the windows that overlap it, a request's delay included.
Share(site, own) ==
  CountOf[own] * ((WindowOf[site] + MaxDelay + WindowOf[own] - 2) \div WindowOf[own] + 1) + count.faults

SiteBudgets == {<<"signup", "accounts_day", "signup_ip">>, <<"demo", "guests_day", "guest_ip">>}

\* An address uses up its share of a site-wide budget and no more: refused requests
\* do not count against everybody else's.
BudgetIsShared ==
  \A k \in DOMAIN counter : \A b \in SiteBudgets : \A ip \in Ip :
    k.limit = b[2] => counter[k].by[<<b[1], ip>>] <= Share(b[2], b[3])

\* Nobody is refused for what others did: a limit that is full for an address was
\* filled by that address, and a site-wide budget by requests of its own kind, so
\* guests cannot shut sign-ups and nobody can lock a known user out from elsewhere.
RefusalsAreDeserved ==
  \A k \in DOMAIN counter : \A kind \in Kind, ip \in Ip :
    counter[k].by[<<kind, ip>>] > 0 =>
      /\ k.limit \in PerAddress => ip = k.ip
      /\ \A b \in SiteBudgets : k.limit = b[2] => kind = b[1]

\* Two simulations leave each other's windows time to close, however late the first
\* of them is published after it took the slot.
SimulationsAreSpaced ==
  \A i, j \in DOMAIN runs : i < j => runs[j] - runs[i] >= WindowOf["sim_global"] - MaxDelay

\* "Repeat clicks from one address reuse that address's guest": without faults a
\* second guest of an address is from a click that overlaps the first one's, or from
\* after the first one's lifetime.
RepeatClicksReuse ==
  count.faults = 0 =>
    \A g, h \in minted :
      g.ip = h.ip /\ g.at <= h.at =>
        h.at - g.at <= 2 * MaxDelay \/ h.at - g.at >= GuestAge
=============================================================================
