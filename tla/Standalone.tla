----------------------------- MODULE Standalone -----------------------------
(***************************************************************************)
(* The standalone node (services/standalone/riskradar_node.py): ingestion  *)
(* sweeps, simulations and the stream engine in one process, joined by a   *)
(* bounded in-process bus instead of Kafka (riskcore.kafka's local sink).  *)
(*                                                                         *)
(*    ingestion thread --\                                                 *)
(*                        >--> bus --> pipeline thread (the engine)        *)
(*    request thread ----/                                                 *)
(*                                                                         *)
(* Claims and the slot of a simulation are in Redis and survive a restart; *)
(* everything else is memory of the process.  The flush timer (a second)   *)
(* is shorter than the unit of the clock, so BatchTimeout is 0: a tick     *)
(* finds it due or not yet.                                                *)
(***************************************************************************)
EXTENDS StreamEngine

CONSTANTS
  Id, FeedDate, MaxAge, ClampAge, SeenTtl, MaxSkew, MaxSweep,   \* see Ingestion
  MaxClaiming,     \* longest time from a sweep's reading of the clock to its last put
  News,            \* the ticker the feeds write about
  Simulated,       \* the ticker of the simulations
  FillerTicker,    \* the ticker of their filler
  Margin,          \* MARGIN_SECONDS of a filler
  SlotTtl,         \* SIMULATE_GLOBAL_SECONDS
  BusMax,          \* BUS_QUEUE_MAX
  MaxTime, MaxSims, \* bounds: clock, simulations
  MaxFaults        \* bound: failed sweeps, restarts, articles without a ticker

ASSUME NodeAssumption ==
  /\ Margin \in Nat /\ SlotTtl \in Nat /\ BusMax \in Nat \ {0}
  /\ News \in Ticker /\ Simulated \in Ticker /\ FillerTicker \in Ticker \ {Simulated}
ASSUME NodeBounds == MaxTime \in Nat /\ MaxFaults \in Nat /\ MaxSims \in Nat
\* As in Ingestion: a claim outlives the article's stay inside the age filter.
ASSUME FeedAssumption ==
  /\ MaxAge \in Nat /\ ClampAge \in Nat /\ SeenTtl \in Nat
  /\ MaxSkew \in Nat /\ MaxSweep \in Nat /\ MaxClaiming \in Nat
  /\ MaxAge + MaxSkew + MaxSweep < SeenTtl
  /\ Id \cap {None} = {} /\ IsFiniteSet(Id)
\* The engine tolerates what clamping, the feeds' clocks and a sweep's hand-over add
\* up to (10 minutes and up to 150 s, of the 750 s of FreshArticlesCount).
ASSUME ToleranceAssumption ==
  /\ Slide <= Size
  /\ ClampAge + MaxSkew <= Size - Slide + Delay
  /\ ClampAge + MaxClaiming <= Size - Slide + Delay
\* "One simulation site-wide per window", whose filler reaches beyond any date a
\* feed puts on news (30 s of delay and 30 s of margin).
ASSUME CrisisAssumption ==
  /\ Slide <= SlotTtl
  /\ MaxSkew <= Delay + Margin /\ Margin <= Size - Slide

VARIABLES
  now, stamp, expiry, begun, sweepNow, todo, outbox, faults,     \* see Ingestion
  sweep,       \* where the ingestion thread is: Ingestion's phase
  bus,         \* the queue: [kind, n, ts], n the article or the number of the simulation
  round,       \* where the pipeline thread is in its loop: "drain" or "tick"
  slot,        \* simulate:global: when it lapses, or None
  sims,        \* simulations so far
  filler,      \* the filler that a simulation still has to send, or None
  origins,     \* history: what this process offered to its engine, in order
  gone         \* history: articles a full bus, a failed sweep or a restart took

Sweep == INSTANCE Ingestion WITH
  EventTime <- FeedDate, phase <- sweep, started <- begun, pending <- {}, topic <- {}, handed <- <<>>

feedVars  == <<now, stamp, expiry, begun, sweepNow, todo, outbox, sweep>>
simVars   == <<slot, sims, filler>>
nodeVars  == <<feedVars, faults, bus, round, simVars, origins, gone>>
nodeState == <<vars, nodeVars>>

-----------------------------------------------------------------------------
NodeInit ==
  /\ Init /\ Sweep!Init
  /\ bus = <<>> /\ round = "drain"
  /\ slot = None /\ sims = 0 /\ filler = None
  /\ origins = <<>> /\ gone = {}

\* The ingestion thread comes up (after seeding the baselines), and the steps of a
\* sweep up to its last claim.
SweepClaims ==
  /\ \/ Sweep!Restart \/ Sweep!StartSweep \/ Sweep!FetchAll \/ Sweep!ClaimsDone
     \/ \E i \in todo : Sweep!ClaimAndClamp(i)
  /\ UNCHANGED <<vars, bus, round, simVars, origins, gone>>

Publish(i, ts) ==
  /\ Sweep!Publish(i, ts)
  /\ UNCHANGED <<vars, bus, round, simVars, origins, gone>>

\* Between its reading of the clock and its last put a sweep fetches nothing.
Tock ==
  /\ sweep \in {"claim", "send"} => now < sweepNow + MaxClaiming
  /\ Sweep!Elapse
  /\ UNCHANGED <<vars, bus, round, simVars, origins, gone>>

\* _publish: a full bus refuses the entry, and nobody is told.
Put(r) ==
  IF Len(bus) < BusMax
  THEN bus' = Append(bus, r) /\ UNCHANGED gone
  ELSE /\ UNCHANGED bus
       /\ gone' = gone \cup (IF r.kind = "news" THEN {r.n} ELSE {})

\* kafka.send with the local sink: the ingestion thread puts its next article.
SendToBus ==
  /\ sweep = "send" /\ outbox # <<>>
  /\ Put([kind |-> "news", n |-> Head(outbox).id, ts |-> Head(outbox).ts])
  /\ outbox' = Tail(outbox)
  /\ UNCHANGED <<vars, now, stamp, expiry, begun, sweepNow, todo, sweep, faults,
                 round, simVars, origins>>

\* kafka.flush has nothing to wait for.
SweepEnds ==
  /\ sweep = "send" /\ outbox = <<>>
  /\ sweep' = "idle"
  /\ UNCHANGED <<vars, now, stamp, expiry, begun, sweepNow, todo, outbox, faults,
                 bus, round, simVars, origins, gone>>

Outbox == {outbox[i].id : i \in DOMAIN outbox}

SweepRaises ==
  /\ Sweep!SweepFails
  /\ gone' = gone \cup Outbox
  /\ UNCHANGED <<vars, bus, round, simVars, origins>>

-----------------------------------------------------------------------------
\* Mutant of FillerStamp: far enough for the delay, but not for the slide.
FillerStampShort(ts) == ts + Delay

\* build_articles: the filler clears the earliest window of the crisis.
FillerStamp(ts) == ts + Slide + Delay + Margin

\* Feeds, clock and fillers carry timestamps the engine can be given.
ASSUME StampAssumption ==
  FeedDate \cup 0..MaxTime \cup {FillerStamp(t) : t \in 0..MaxTime} \subseteq EventTime

SlotFree == IF slot = None THEN TRUE ELSE slot <= now

\* api_simulate takes the slot, then run publishes the crisis, dated now.
PublishCrisis ==
  /\ sims < MaxSims /\ SlotFree /\ filler = None
  /\ slot' = now + SlotTtl /\ sims' = sims + 1
  /\ Put([kind |-> "crisis", n |-> sims', ts |-> now])
  /\ filler' = FillerStamp(now)
  /\ UNCHANGED <<vars, feedVars, faults, round, origins>>

\* Then the filler about another ticker, from the same reading of the clock.
PublishFiller ==
  /\ filler # None
  /\ Put([kind |-> "filler", n |-> sims, ts |-> filler])
  /\ filler' = None
  /\ UNCHANGED <<vars, feedVars, faults, round, slot, sims, origins>>

-----------------------------------------------------------------------------
TickerOf(r) == [news |-> News, crisis |-> Simulated, filler |-> FillerTicker][r.kind]

\* Mutant of LocalEnrich: what is not scored does not come back.
LocalEnrichDrops(pending) == TRUE

\* LocalEnricher.enrich returns the whole batch: a failing model scores neutral, a
\* failing detection finds no ticker.
LocalEnrich(pending) ==
  phase' = "placing" => batch' = {pending[i] : i \in DOMAIN pending}

\* pipeline_loop, draining the bus into the engine.
OfferFromBus ==
  /\ round = "drain" /\ phase = "idle" /\ bus # <<>> /\ stats.raw_in < MaxRaw
  /\ \E missed \in {0, 1} :
       LET a == [id |-> stats.raw_in + 1, ts |-> Head(bus).ts,
                 tickers |-> IF missed = 0 THEN {TickerOf(Head(bus))} ELSE {}]
       IN  /\ Offer(a) /\ LocalEnrich(Append(buffer, a))
           /\ faults + missed <= MaxFaults /\ faults' = faults + missed
  /\ bus' = Tail(bus) /\ origins' = Append(origins, Head(bus))
  /\ UNCHANGED <<feedVars, round, simVars, gone>>

BusEmpty ==
  /\ round = "drain" /\ phase = "idle" /\ bus = <<>>
  /\ round' = "tick"
  /\ UNCHANGED <<vars, feedVars, faults, bus, simVars, origins, gone>>

TickRound ==
  /\ round = "tick" /\ phase = "idle"
  /\ round' = "drain"
  /\ \/ flushIn = 0 /\ TickAt(TRUE) /\ LocalEnrich(buffer)
     \/ UNCHANGED vars
  /\ UNCHANGED <<feedVars, faults, bus, simVars, origins, gone>>

FlushRound == FlushStep /\ UNCHANGED nodeVars

Held == Outbox \cup {bus[i].n : i \in {x \in DOMAIN bus : bus[x].kind = "news"}}
               \cup {origins[i].n : i \in {x \in DOMAIN origins : origins[x].kind = "news"}}

\* The process is restarted: claims and the slot are what is left of it.
RestartNode ==
  /\ faults < MaxFaults /\ faults' = faults + 1
  /\ sweep' = "down" /\ todo' = {} /\ outbox' = <<>>
  /\ bus' = <<>> /\ round' = "drain" /\ filler' = None
  /\ buffer' = <<>> /\ flushIn' = None /\ batch' = {} /\ phase' = "idle"
  /\ maxTs' = None /\ watermark' = NoWatermark /\ windows' = {}
  /\ stats' = [c \in Counter |-> 0] /\ fired' = <<>> /\ judged' = {}
  /\ gone' = gone \cup Held /\ origins' = <<>>
  /\ begun' = 0 /\ sweepNow' = 0
  /\ UNCHANGED <<now, stamp, expiry, slot, sims>>

\* A flush shares nothing with the other threads: only a restart interrupts it.
OtherThread ==
  \/ Tock
  \/ \E i \in Id : \E ts \in FeedDate : Publish(i, ts)
  \/ SweepClaims \/ SendToBus \/ SweepEnds \/ SweepRaises
  \/ PublishCrisis \/ PublishFiller

NodeNext ==
  \/ phase = "idle" /\ OtherThread
  \/ OfferFromBus \/ BusEmpty \/ TickRound \/ FlushRound
  \/ RestartNode

NodeSpec == NodeInit /\ [][NodeNext]_nodeState

-----------------------------------------------------------------------------
\* The ids this process's engine was offered entries of a kind under.
OfferedAs(kind) == {i \in DOMAIN origins : origins[i].kind = kind}
Placed(i)       == \E j \in judged : j.article.id = i

\* A claimed article is in one place of the process, on its way from the outbox
\* over the bus into the engine, where it stays; or a full bus, a failed sweep or
\* a restart took it.  Unlike the enrichment service, LocalEnricher drops nothing.
ClaimedIsInOnePlace ==
  /\ {i \in Id : expiry[i] # None} = gone \cup Held
  /\ gone \cap Held = {}
  /\ Cardinality(Held) = Len(outbox) + Cardinality({i \in DOMAIN bus : bus[i].kind = "news"})
                                     + Cardinality(OfferedAs("news"))
  /\ \A i \in DOMAIN origins :
       \/ i \in {buffer[n].id : n \in DOMAIN buffer} \cup {a.id : a \in batch}
       \/ Placed(i)

\* Through age filter, clamping, bus and batching, news reaches the engine in time
\* for at least one window, however late its feed listed it.  Only the filler of a
\* simulation, dated ahead of the clock, makes news late that would have counted.
NewsIsOnTime ==
  \A j \in judged :
    \/ j.article.id \notin OfferedAs("news")
    \/ \E f \in OfferedAs("filler") : f < j.article.id
    \/ \E w \in AssignWindows(j.article.ts, Size, Slide, 0) : ~ Passed(w, j.wm)

\* Once the engine has placed the crisis and the filler of a simulation, and found
\* their tickers, a window with the crisis has been fired: no news dated ahead and
\* no filler of an earlier simulation is in its way.
SimulationFires ==
  phase = "idle" =>
    \A c \in OfferedAs("crisis"), f \in OfferedAs("filler") :
      LET Known(i) == \E j \in judged : j.article.id = i /\ j.article.tickers # {}
      IN  origins[c].n = origins[f].n /\ Known(c) /\ Known(f)
            => \E i \in DOMAIN fired : c \in fired[i].ids
=============================================================================
