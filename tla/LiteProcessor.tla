--------------------------- MODULE LiteProcessor ---------------------------
(***************************************************************************)
(* The lite processor (services/processor/src/main.py): a loop that polls  *)
(* news.raw, feeds the engine and commits offsets, run by a supervisor     *)
(* that restarts it.  The topic and the consumer group live in Kafka and   *)
(* survive the process; the engine and the read position do not.           *)
(*                                                                         *)
(* Offsets count records: the record with offset o is topic[o], `position` *)
(* is the number of records handed out and `committed` the number the      *)
(* group has committed.  An article's id is its offset.                    *)
(***************************************************************************)
EXTENDS StreamEngine

CONSTANTS
  MaxPoll,      \* max_records of one poll
  MaxExits      \* bound: times the process stops or crashes

ASSUME ProcessorAssumption == MaxPoll \in Nat \ {0} /\ MaxExits \in Nat

VARIABLES
  topic,        \* news.raw
  committed,    \* the group's committed offset, None before the first commit
  pc,           \* where the loop is
  position,     \* the consumer's position
  offered,      \* records of the poll handed to the engine so far
  uncommitted,  \* main's flag of that name
  exits,        \* number of stops and crashes so far
  fetched,      \* history: offsets some poll returned
  enrichedIds,  \* history: offsets that went through enrichment
  started,      \* history: the position this process started from
  base          \* history: `started` of the first process that committed, or None

kafkaVars   == <<topic, committed>>
loopVars    == <<pc, position, offered, uncommitted, exits>>
historyVars == <<fetched, enrichedIds, started, base>>
procVars    == <<kafkaVars, loopVars, historyVars>>
allVars     == <<vars, procVars>>

Pcs == {"down", "poll", "offer", "tick", "commit", "drain", "close"}

Ids(articles) == {articles[i].id : i \in DOMAIN articles}

-----------------------------------------------------------------------------
ProcInit ==
  /\ Init
  /\ topic = <<>> /\ committed = None
  /\ pc = "down" /\ position = 0 /\ offered = 0 /\ uncommitted = FALSE /\ exits = 0
  /\ fetched = {} /\ enrichedIds = {} /\ started = 0 /\ base = None

\* Ingestion or the simulate endpoint appends an article.
Produce ==
  /\ Len(topic) < MaxRaw
  /\ \E ts \in EventTime, T \in SUBSET Ticker :
       topic' = Append(topic, [id |-> Len(topic) + 1, ts |-> ts, tickers |-> T])
  /\ UNCHANGED <<vars, committed, loopVars, historyVars>>

\* Mutants of StartOffset: the group skips a record, runs past the end of the
\* topic, or forgets what it committed.
StartOffByOne == IF committed = None THEN Len(topic) ELSE
                 IF committed < Len(topic) THEN committed + 1 ELSE committed
StartPastEnd  == IF committed = None THEN Len(topic) + 1 ELSE committed
StartEarliest == 0

\* auto_offset_reset="latest": a group that never committed starts at the end.
StartOffset == IF committed = None THEN Len(topic) ELSE committed

Start ==
  /\ pc = "down"
  /\ pc' = "poll"
  /\ position' = StartOffset /\ offered' = StartOffset /\ started' = StartOffset
  /\ uncommitted' = FALSE
  /\ UNCHANGED <<vars, kafkaVars, exits, fetched, enrichedIds, base>>

Poll ==
  /\ pc = "poll" /\ phase = "idle"
  /\ \E n \in 0..MaxPoll :
       /\ n <= Len(topic) - position
       /\ position' = position + n
       /\ fetched' = fetched \cup (position + 1)..(position + n)
  /\ pc' = "offer"
  /\ UNCHANGED <<vars, kafkaVars, offered, uncommitted, exits, enrichedIds, started, base>>

\* The articles leave the buffer with the flush that enriches them.
TakenFrom(articles) == enrichedIds' = enrichedIds \cup (IF buffer' = <<>> THEN Ids(articles) ELSE {})

OfferPolled ==
  /\ pc = "offer" /\ phase = "idle" /\ offered < position
  /\ LET a == topic[offered + 1]
     IN  Offer(a) /\ TakenFrom(Append(buffer, a))
  /\ offered' = offered + 1
  /\ uncommitted' = TRUE
  /\ UNCHANGED <<kafkaVars, pc, position, exits, fetched, started, base>>

TickLoop ==
  /\ pc = "offer" /\ phase = "idle" /\ offered = position
  /\ pc' = "commit"
  /\ IF flushIn = 0
     THEN TickAt(TRUE) /\ TakenFrom(buffer)
     ELSE UNCHANGED <<vars, enrichedIds>>
  /\ UNCHANGED <<kafkaVars, position, offered, uncommitted, exits, fetched, started, base>>

\* What Commit and its mutants share: commit everything the consumer has handed
\* out, or log that the broker refused.
CommitWhen(ready) ==
  /\ pc = "commit" /\ phase = "idle"
  /\ pc' = "poll"
  /\ \/ /\ ready
        /\ committed' = position
        /\ uncommitted' = FALSE
        /\ base' = IF base = None THEN started ELSE base
     \/ UNCHANGED <<committed, uncommitted, base>>
  /\ UNCHANGED <<vars, topic, position, offered, exits, fetched, enrichedIds, started>>

\* Mutant of Commit: the offsets are committed with articles still in the buffer.
CommitEarly == CommitWhen(uncommitted)

\* Offsets are committed only while the enrichment buffer is empty; a commit that
\* fails is retried by a later round.  (With nothing to commit the round is a skip.)
Commit == CommitWhen(uncommitted /\ buffer = <<>>)

\* kafka.flush is not guarded: when the producer times out the loop is left.
FlushRaises ==
  /\ pc = "commit" /\ phase = "idle"
  /\ uncommitted /\ buffer = <<>>
  /\ exits < MaxExits
  /\ pc' = "drain"
  /\ UNCHANGED <<vars, kafkaVars, position, offered, uncommitted, exits, historyVars>>

\* SIGTERM is noticed at the head of the loop.
Stop ==
  /\ pc = "poll" /\ phase = "idle"
  /\ exits < MaxExits
  /\ pc' = "drain"
  /\ UNCHANGED <<vars, kafkaVars, position, offered, uncommitted, exits, historyVars>>

\* The finally clause: tick(2 ** 62) flushes what is buffered; nothing is committed.
Drain ==
  /\ pc = "drain" /\ phase = "idle"
  /\ pc' = "close"
  /\ IF flushIn # None
     THEN TickAt(TRUE) /\ TakenFrom(buffer)
     ELSE UNCHANGED <<vars, enrichedIds>>
  /\ UNCHANGED <<kafkaVars, position, offered, uncommitted, exits, fetched, started, base>>

\* A new process builds a new engine.
ResetEngine ==
  /\ buffer' = <<>> /\ flushIn' = None
  /\ batch' = {} /\ phase' = "idle"
  /\ maxTs' = None /\ watermark' = NoWatermark
  /\ windows' = {}
  /\ stats' = [c \in Counter |-> 0]
  /\ fired' = <<>> /\ judged' = {}

\* The process is gone and the engine's memory with it.
Exit ==
  /\ exits < MaxExits
  /\ exits' = exits + 1
  /\ pc' = "down"
  /\ position' = 0 /\ offered' = 0 /\ uncommitted' = FALSE
  /\ ResetEngine
  /\ UNCHANGED <<kafkaVars, historyVars>>

Close == pc = "close" /\ phase = "idle" /\ Exit

\* Killed at any point, in the middle of a flush as well.
Crash == pc # "down" /\ Exit

Engine == (FlushStep \/ Elapse) /\ UNCHANGED procVars

LoopStep == Poll \/ OfferPolled \/ TickLoop \/ Commit \/ Drain \/ Close

ProcNext == Produce \/ Start \/ LoopStep \/ Engine \/ FlushRaises \/ Stop \/ Crash

\* The supervisor restarts the process, its loop keeps running and finishes every
\* flush it started, and time passes.  A poll eventually returns what the topic
\* holds.  Stops and crashes are bounded by MaxExits, not by fairness.
ProcFairness ==
  /\ WF_allVars(Start)
  /\ WF_allVars(LoopStep)
  /\ WF_allVars(FlushStep /\ UNCHANGED procVars)
  /\ WF_allVars(Elapse /\ UNCHANGED procVars)
  /\ SF_allVars(Poll /\ position' > position)

ProcSpec == ProcInit /\ [][ProcNext]_allVars /\ ProcFairness

-----------------------------------------------------------------------------
\* The loop's variables keep their types and the engine's do too.
ProcTypeOK ==
  /\ topic \in Seq(Article)
  /\ committed \in 0..MaxRaw \cup {None}
  /\ pc \in Pcs
  /\ position \in 0..Len(topic) /\ offered \in 0..position
  /\ uncommitted \in BOOLEAN
  /\ exits \in 0..MaxExits
  /\ fetched \subseteq 1..Len(topic) /\ enrichedIds \subseteq fetched
  /\ started \in 0..MaxRaw /\ base \in 0..MaxRaw \cup {None}
  /\ TypeOK

\* A fetched record is safe when it went through enrichment, when this process
\* still holds it (polled or buffered), or when a restart reads it again.
Safe(o) ==
  \/ o \in enrichedIds
  \/ pc # "down" /\ (o \in Ids(buffer) \/ o \in (offered + 1)..position)
  \/ committed # None /\ o > committed

\* The promise of main.py's docstring: no article is lost between fetch and
\* enrichment, however the process ends.
NoArticleLost == \A o \in fetched : Safe(o)

\* From the first process that manages a commit on, the promise holds: whatever it
\* or a later one fetches survives crashes, failed commits and stops in any order.
NoLossOnceCommitted ==
  base # None => \A o \in fetched : o > base => Safe(o)

\* The committed offset never covers a record that was not enriched, or never even
\* read: between the start of the first process that committed and the committed
\* offset there is no gap.
CommittedIsEnriched ==
  committed # None => (base + 1)..committed \subseteq enrichedIds

\* The group's offset never moves back, although a restart re-reads older records.
OffsetMonotone ==
  [][committed # None => committed' # None /\ committed' >= committed]_allVars

\* Across crashes and restarts, what such a process fetches is enriched in the end.
FetchedIsEnriched ==
  \A o \in 1..MaxRaw :
    (o \in fetched /\ base # None /\ o > base) ~> o \in enrichedIds
=============================================================================
