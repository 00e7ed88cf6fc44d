----------------------------- MODULE Ingestion -----------------------------
(***************************************************************************)
(* News ingestion (services/ingestion/src, with riskcore.feeds): sweeps    *)
(* over the feeds, filters by age, claims every article in Redis, pulls    *)
(* stale timestamps forward and hands the result to the Kafka producer.    *)
(*                                                                         *)
(* The claims survive the process; a sweep in progress, the list of        *)
(* claimed articles and the producer's buffer do not.  Every step that can *)
(* raise ends the sweep: the main loop logs it and waits for the next one. *)
(***************************************************************************)
EXTENDS Integers, Sequences, FiniteSets

CONSTANTS
  Id,          \* articles, by the hash of their URL
  EventTime,   \* the dates feeds may put on articles
  MaxAge,      \* older articles are filtered out (MAX_ARTICLE_AGE_HOURS)
  ClampAge,    \* older timestamps are pulled forward (CLAMP_AGE_MINUTES)
  SeenTtl,     \* lifetime of a claim (SEEN_TTL_SECONDS)
  MaxSkew,     \* how far ahead of the clock a feed may date an article
  MaxSweep,    \* longest sweep: feed timeouts and staggering bound it
  None,
  MaxTime,     \* bound: clock ticks of a behaviour
  MaxFaults    \* bound: failed sweeps, lost records and crashes

ASSUME AgeAssumption ==
  /\ MaxAge \in Nat /\ ClampAge \in Nat /\ SeenTtl \in Nat
  /\ MaxSkew \in Nat /\ MaxSweep \in Nat
  /\ EventTime \subseteq Int /\ None \notin Int
ASSUME FaultAssumption == MaxTime \in Nat /\ MaxFaults \in Nat
\* A claim outlives the article's stay inside the age filter (7 days to 6 hours).
ASSUME ClaimOutlivesAge == MaxAge + MaxSkew + MaxSweep < SeenTtl

VARIABLES
  now,
  stamp,       \* publication timestamp of every article the feeds carry, or None
  expiry,      \* seen:news:<id>: when the claim lapses, or None
  phase,       \* "down", "idle", "fetch", "claim", "send" or "flush"
  started,     \* when the sweep in progress began
  sweepNow,    \* the sweep's one reading of the clock, used for clamping
  todo,        \* fetched articles not yet looked at
  outbox,      \* claimed and clamped, not yet handed to the producer
  pending,     \* records in the producer's buffer
  topic,       \* articles news.raw has received
  faults,      \* number of faults so far
  handed       \* history: every call of kafka.send

sweepVars == <<phase, started, sweepNow, todo, outbox>>
kafkaVars == <<pending, topic>>
vars == <<now, stamp, expiry, sweepVars, kafkaVars, faults, handed>>

-----------------------------------------------------------------------------
Record == [id : Id, ts : Int, sweep : Nat]
Phases == {"down", "idle", "fetch", "claim", "send", "flush"}

Init ==
  /\ now = 0 /\ faults = 0
  /\ stamp = [i \in Id |-> None] /\ expiry = [i \in Id |-> None]
  /\ phase = "down" /\ started = 0 /\ sweepNow = 0
  /\ todo = {} /\ outbox = <<>>
  /\ pending = {} /\ topic = {} /\ handed = <<>>

Sweeping == phase \in {"fetch", "claim", "send", "flush"}

\* Time passes, but a sweep takes no longer than MaxSweep.
Elapse ==
  /\ now < MaxTime
  /\ Sweeping => now < started + MaxSweep
  /\ now' = now + 1
  /\ UNCHANGED <<stamp, expiry, sweepVars, kafkaVars, faults, handed>>

\* A feed lists a new article.  Its date may be anything up to slightly ahead of
\* the clock (CNBC's tail is weeks old) and does not change afterwards.
Publish(i, ts) ==
  /\ stamp[i] = None
  /\ ts <= now + MaxSkew
  /\ stamp' = [stamp EXCEPT ![i] = ts]
  /\ UNCHANGED <<now, expiry, sweepVars, kafkaVars, faults, handed>>

StartSweep ==
  /\ phase = "idle"
  /\ phase' = "fetch" /\ started' = now
  /\ UNCHANGED <<now, stamp, expiry, sweepNow, todo, outbox, kafkaVars, faults, handed>>

\* What FetchAll and its mutant share: the sweep goes on with some of the
\* articles that pass the filter; a feed that fails contributes nothing.
FetchWith(passing) ==
  /\ phase = "fetch"
  /\ \E got \in SUBSET {i \in Id : stamp[i] \in passing} : todo' = got
  /\ phase' = "claim" /\ sweepNow' = now
  /\ UNCHANGED <<now, stamp, expiry, started, outbox, kafkaVars, faults, handed>>

\* Mutant of FetchAll: nothing filters by age.
FetchUnfiltered == FetchWith(EventTime)

\* Every feed is fetched at some instant since the sweep began, and filters by age
\* against that instant; within the sweep an article counts once, whichever feeds
\* list it.
FetchAll == FetchWith({ts \in EventTime : ts >= started - MaxAge})

Claimed(i) == expiry[i] # None /\ now < expiry[i]

\* Mutant of Clamp: the age limit is applied backwards.
ClampFresh(ts) == IF ts >= sweepNow - ClampAge THEN sweepNow ELSE ts

\* clamp_published: older dates are pulled forward to the sweep's now.
Clamp(ts) == IF ts >= sweepNow - ClampAge THEN ts ELSE sweepNow

\* SET NX EX decides whether this sweep publishes the article.
ClaimAndClamp(i) ==
  /\ phase = "claim" /\ i \in todo
  /\ todo' = todo \ {i}
  /\ IF Claimed(i)
     THEN UNCHANGED <<expiry, outbox>>
     ELSE /\ expiry' = [expiry EXCEPT ![i] = now + SeenTtl]
          /\ outbox' = Append(outbox, [id |-> i, ts |-> Clamp(stamp[i]), sweep |-> sweepNow])
  /\ UNCHANGED <<now, stamp, phase, started, sweepNow, kafkaVars, faults, handed>>

ClaimsDone ==
  /\ phase = "claim" /\ todo = {}
  /\ phase' = "send"
  /\ UNCHANGED <<now, stamp, expiry, started, sweepNow, todo, outbox, kafkaVars, faults, handed>>

\* kafka.send puts the record into the producer's buffer.
Send ==
  /\ phase = "send" /\ outbox # <<>>
  /\ handed' = Append(handed, Head(outbox))
  /\ pending' = pending \cup {Head(outbox).id}
  /\ outbox' = Tail(outbox)
  /\ UNCHANGED <<now, stamp, expiry, phase, started, sweepNow, todo, topic, faults>>

SendsDone ==
  /\ phase = "send" /\ outbox = <<>>
  /\ phase' = "flush"
  /\ UNCHANGED <<now, stamp, expiry, started, sweepNow, todo, outbox, kafkaVars, faults, handed>>

\* kafka.flush returns once nothing is in flight; a sweep that produced nothing
\* does not call it, which is the same here.
FlushDone ==
  /\ phase = "flush" /\ pending = {}
  /\ phase' = "idle"
  /\ UNCHANGED <<now, stamp, expiry, started, sweepNow, todo, outbox, kafkaVars, faults, handed>>

\* Redis refuses a claim, the producer a record, or the flush times out.
SweepFails ==
  /\ phase \in {"claim", "send", "flush"}
  /\ faults < MaxFaults /\ faults' = faults + 1
  /\ phase' = "idle" /\ todo' = {} /\ outbox' = <<>>
  /\ UNCHANGED <<now, stamp, expiry, started, sweepNow, kafkaVars, handed>>

\* The producer's own thread: a record is acknowledged, or given up after its
\* retries; nobody looks at the result of send.
Deliver(i) ==
  /\ i \in pending
  /\ pending' = pending \ {i} /\ topic' = topic \cup {i}
  /\ UNCHANGED <<now, stamp, expiry, sweepVars, faults, handed>>

GiveUp(i) ==
  /\ i \in pending
  /\ faults < MaxFaults /\ faults' = faults + 1
  /\ pending' = pending \ {i}
  /\ UNCHANGED <<now, stamp, expiry, sweepVars, topic, handed>>

ProcessEnds ==
  /\ phase' = "down" /\ todo' = {} /\ outbox' = <<>> /\ pending' = {}
  /\ UNCHANGED <<now, stamp, expiry, started, sweepNow, topic, handed>>

\* SIGTERM lets the sweep finish, then kafka.close waits for what is pending.
Stop ==
  /\ phase = "idle" /\ pending = {}
  /\ faults < MaxFaults /\ faults' = faults + 1
  /\ ProcessEnds

Crash ==
  /\ phase # "down"
  /\ faults < MaxFaults /\ faults' = faults + 1
  /\ ProcessEnds

\* Mutant of Restart: a new process starts with a clean slate.
RestartForgetful ==
  /\ phase = "down"
  /\ phase' = "idle"
  /\ expiry' = [i \in Id |-> None]
  /\ UNCHANGED <<now, stamp, started, sweepNow, todo, outbox, kafkaVars, faults, handed>>

Restart ==
  /\ phase = "down"
  /\ phase' = "idle"
  /\ UNCHANGED <<now, stamp, expiry, started, sweepNow, todo, outbox, kafkaVars, faults, handed>>

SweepStep ==
  \/ StartSweep \/ FetchAll \/ ClaimsDone \/ Send \/ SendsDone \/ FlushDone
  \/ \E i \in todo : ClaimAndClamp(i)

Next ==
  \/ Elapse
  \/ \E i \in Id : \E ts \in EventTime : Publish(i, ts)
  \/ SweepStep
  \/ \E i \in pending : Deliver(i) \/ GiveUp(i)
  \/ SweepFails \/ Stop \/ Crash \/ Restart

Spec == Init /\ [][Next]_vars

-----------------------------------------------------------------------------
\* Every variable keeps its type.
TypeOK ==
  /\ now \in 0..MaxTime /\ faults \in 0..MaxFaults
  /\ stamp \in [Id -> EventTime \cup {None}]
  /\ expiry \in [Id -> Nat \cup {None}]
  /\ phase \in Phases
  /\ started \in Nat /\ sweepNow \in Nat
  /\ todo \subseteq Id /\ pending \subseteq Id /\ topic \subseteq Id
  /\ outbox \in Seq(Record) /\ handed \in Seq(Record)

\* No article is handed to Kafka twice, however often it is fetched again and
\* wherever the process died before: a claim is never given out twice, not even
\* after it lapsed, because by then the article is too old to be fetched.
HandedAtMostOnce ==
  \A i, j \in DOMAIN handed : handed[i].id = handed[j].id => i = j

\* Old news is never rewritten to "now": whatever is handed over was at most
\* MaxAge old when its sweep began.  Filtering strictly before clamping is what
\* this takes.
NoStaleNews ==
  \A i \in DOMAIN handed : stamp[handed[i].id] >= handed[i].sweep - MaxAge - MaxSweep

\* News leaves ingestion almost in event-time order: no article is dated more
\* than ClampAge + MaxSkew before one handed over earlier.  This is what keeps the
\* stream engine from dropping it as late (StreamEngine!LatenessTolerance).
DisorderIsBounded ==
  \A i, j \in DOMAIN handed :
    i < j => handed[j].ts >= handed[i].ts - ClampAge - MaxSkew

\* is_new's docstring: the same article is fetched again and again "and published
\* exactly once"; so what was claimed is published, or still on its way.
ClaimedIsPublished ==
  \A i \in Id : expiry[i] # None =>
    i \in topic \cup pending \cup {outbox[n].id : n \in DOMAIN outbox}
=============================================================================
