------------------------------ MODULE FlinkJob ------------------------------
(***************************************************************************)
(* The Flink job (flink/job/news_job.py): the micro-batching operator      *)
(* MicroBatchEnrich with its buffer and timer in checkpointed state, then  *)
(* mentions, watermarks and sliding windows per ticker.                    *)
(*                                                                         *)
(* The operators written here are translated from the job.  What Flink     *)
(* does around them is modelled from how the job uses it: one partition    *)
(* and parallelism 1, processing-time timers kept with the state, aligned  *)
(* checkpoints, a restart from the last completed one, and a watermark     *)
(* that is not part of any checkpoint.                                     *)
(*                                                                         *)
(* An article's id is its offset in news.raw.                              *)
(***************************************************************************)
EXTENDS Windows, FiniteSets

CONSTANTS
  Ticker,          \* the tickers entity detection can return
  EventTime,       \* the publication timestamps articles may carry
  Size, Slide,     \* window geometry
  Delay,           \* watermark delay
  BatchSize,       \* articles per enrichment call
  BatchTimeout,    \* how long a partial batch waits
  NoWatermark,     \* Flink's initial watermark, below every timestamp
  None,            \* Python's None
  MaxRaw,          \* bound: articles in news.raw
  MaxTime,         \* bound: where the processing clock stops
  MaxRestarts      \* bound: failures of the job

ASSUME JobAssumption ==
  /\ Size \in Nat \ {0} /\ Slide \in Nat \ {0} /\ Delay \in Nat
  /\ BatchSize \in Nat \ {0} /\ BatchTimeout \in Nat \ {0}
  /\ EventTime \subseteq Int /\ NoWatermark \in Int /\ None \notin Int
ASSUME JobBounds == MaxRaw \in Nat /\ MaxTime \in Nat /\ MaxRestarts \in Nat

VARIABLES
  topic,       \* news.raw
  now,         \* processing time
  position,    \* records the source has read
  base,        \* the offset this submission of the job began at
  buffer,      \* the operator's list state
  timer,       \* the operator's value state: when its timer fires
  timers,      \* the timers Flink holds for the operator
  enriched,    \* its output on the way to the windows, oldest first
  maxTs,       \* the newest event time the watermark generator saw
  wm,          \* the watermark at the window operator
  windows,     \* window state: one entry per (ticker, window) and article
  results,     \* what this attempt handed to the alert and feature stages
  checkpoint,  \* the last completed checkpoint, or None
  restarts,    \* number of failures so far
  flushed,     \* history of every attempt: the offsets, as they left the buffer
  began,       \* history: how long `flushed` was when this attempt began
  arrived      \* history of this attempt: what window state held or received

source    == <<topic, now, position, base>>
batcher   == <<buffer, timer, timers, flushed>>
windowing == <<maxTs, wm, windows, results, arrived>>
recovery  == <<checkpoint, restarts, began>>
vars == <<source, batcher, enriched, windowing, recovery>>

-----------------------------------------------------------------------------
Article == [id : 1..MaxRaw, ts : EventTime, tickers : SUBSET Ticker]
Key     == [ticker : Ticker, window : [start : Int, end : Int]]
Entry   == [key : Key, id : 1..MaxRaw]

Ids(articles) == [i \in DOMAIN articles |-> articles[i].id]

\* The offset up to which everything has left buffer b when p records are read.
Settled(p, b) == p - Len(b)

Init ==
  /\ topic = <<>> /\ now = 0 /\ position = 0 /\ base = 0
  /\ buffer = <<>> /\ timer = None /\ timers = {} /\ flushed = <<>>
  /\ enriched = {}
  /\ maxTs = None /\ wm = NoWatermark /\ windows = {} /\ results = <<>> /\ arrived = {}
  /\ checkpoint = None /\ restarts = 0 /\ began = 0

\* Ingestion or a simulation appends a record.
Produce(ts, tickers) ==
  /\ Len(topic) < MaxRaw
  /\ topic' = Append(topic, [id |-> Len(topic) + 1, ts |-> ts, tickers |-> tickers])
  /\ UNCHANGED <<now, position, base, batcher, enriched, windowing, recovery>>

Elapse ==
  /\ now < MaxTime /\ now' = now + 1
  /\ UNCHANGED <<topic, position, base, batcher, enriched, windowing, recovery>>

-----------------------------------------------------------------------------
\* decode_articles and enrich_batch: one call returns any part of the batch; an
\* outage returns nothing.
EnrichBatch(pending) == SUBSET {pending[i] : i \in DOMAIN pending}

\* _flush: the buffer is cleared, then the batch is enriched.
Flush(pending) ==
  /\ buffer' = <<>>
  /\ flushed' = flushed \o Ids(pending)
  /\ \E kept \in EnrichBatch(pending) : enriched' = enriched \cup kept

\* Mutant of CancelTimer: the timer is deleted and the value state kept.
CancelKeepsValue ==
  /\ timers' = timers \ {timer}
  /\ timer' = timer

\* _cancel_timer: the deletion may raise, which is ignored, or come too late.
CancelTimer ==
  /\ timers' \in {timers, timers \ {timer}}
  /\ timer' = None

\* One timer for each batch, armed by its first article.
ArmTimer ==
  IF timer = None
  THEN timer' = now + BatchTimeout /\ timers' = timers \cup {now + BatchTimeout}
  ELSE UNCHANGED <<timer, timers>>

\* process_element: the next record joins the buffer, and a full buffer is flushed.
ProcessElement ==
  /\ position < Len(topic)
  /\ position' = position + 1
  /\ LET pending == Append(buffer, topic[position + 1])
     IN  IF Len(pending) >= BatchSize
         THEN CancelTimer /\ Flush(pending)
         ELSE buffer' = pending /\ ArmTimer /\ UNCHANGED <<flushed, enriched>>
  /\ UNCHANGED <<topic, now, base, windowing, recovery>>

\* At the end of the modelled time every timer is due.
Expired(t) == t <= now \/ now = MaxTime

\* Mutant of OnTimer: the value state is not cleared.
OnTimerKeepsValue(t) ==
  /\ t \in timers /\ Expired(t)
  /\ timers' = timers \ {t}
  /\ timer' = timer
  /\ IF buffer = <<>> THEN UNCHANGED <<buffer, flushed, enriched>> ELSE Flush(buffer)
  /\ UNCHANGED <<source, windowing, recovery>>

\* on_timer: whichever timer fires, what is buffered is flushed.
OnTimer(t) ==
  /\ t \in timers /\ Expired(t)
  /\ timers' = timers \ {t}
  /\ timer' = None
  /\ IF buffer = <<>> THEN UNCHANGED <<buffer, flushed, enriched>> ELSE Flush(buffer)
  /\ UNCHANGED <<source, windowing, recovery>>

-----------------------------------------------------------------------------
\* Mutant of EventTimeOf: the assigner is lost and the record has no timestamp.
EventTimeOfRecord(a) == 0

\* MentionTimestampAssigner reads the publication time back out of the payload.
EventTimeOf(a) == a.ts

KeysOf(a, t) == {[ticker |-> t, window |-> w] : w \in AssignWindows(EventTimeOf(a), Size, Slide, 0)}

Passed(k) == k.window.end - 1 <= wm

OpenKeys    == {e.key : e \in windows}
Contents(k) == {e.id : e \in {x \in windows : x.key = k}}
Due         == {k \in OpenKeys : Passed(k)}

\* The first record in flight.
First(a) == a \in enriched /\ \A b \in enriched : a.id <= b.id

\* to_mentions, for one ticker of the first article in flight, and the assignment
\* of that mention to the windows the watermark has not passed.
PlaceMention(a, t) ==
  /\ First(a) /\ t \in a.tickers /\ Due = {}
  /\ LET new == {[key |-> k, id |-> a.id] : k \in {x \in KeysOf(a, t) : ~ Passed(x)}}
     IN  windows' = windows \cup new /\ arrived' = arrived \cup new
  /\ enriched' = (enriched \ {a}) \cup {[id |-> a.id, ts |-> a.ts, tickers |-> a.tickers \ {t}]}
  /\ maxTs' = IF maxTs = None \/ EventTimeOf(a) > maxTs THEN EventTimeOf(a) ELSE maxTs
  /\ UNCHANGED <<source, batcher, wm, results, recovery>>

\* news.enriched and the headline list have the article; nothing is left of it.
ArticleDone(a) ==
  /\ First(a) /\ a.tickers = {}
  /\ enriched' = enriched \ {a}
  /\ UNCHANGED <<source, batcher, windowing, recovery>>

\* for_bounded_out_of_orderness emits a watermark now and then.  With a single
\* partition idleness holds none back, and moves none forward either.
AdvanceWatermark ==
  /\ Due = {}
  /\ maxTs # None /\ maxTs - Delay - 1 > wm
  /\ wm' = maxTs - Delay - 1
  /\ UNCHANGED <<source, batcher, enriched, maxTs, windows, results, arrived, recovery>>

\* The watermark fires the due windows, earliest end first.  RiskWindow yields
\* the features, which pass through AlertFanout and then FeatureWriter; either
\* logs what fails and passes the value on.
FireWindow(k) ==
  /\ k \in Due /\ \A d \in Due : k.window.end <= d.window.end
  /\ results' = Append(results, [key |-> k, ids |-> Contents(k)])
  /\ windows' = {e \in windows : e.key # k}
  /\ UNCHANGED <<source, batcher, enriched, maxTs, wm, arrived, recovery>>

WindowStep ==
  \/ \E a \in enriched : \/ \E t \in a.tickers : PlaceMention(a, t)
                        \/ ArticleDone(a)
  \/ AdvanceWatermark
  \/ \E k \in Due : FireWindow(k)

-----------------------------------------------------------------------------
\* An aligned checkpoint: the barrier follows the records in flight.
Checkpoint ==
  /\ enriched = {} /\ Due = {}
  /\ checkpoint' = [position |-> position, buffer |-> buffer, timer |-> timer,
                    timers |-> timers, windows |-> windows, entries |-> Len(flushed)]
  /\ UNCHANGED <<source, batcher, enriched, windowing, restarts, began>>

\* What every new attempt starts without.
NewAttempt ==
  /\ restarts < MaxRestarts /\ restarts' = restarts + 1
  /\ enriched' = {} /\ results' = <<>>
  /\ maxTs' = None /\ wm' = NoWatermark
  /\ arrived' = windows' /\ began' = Len(flushed)
  /\ UNCHANGED <<topic, now, flushed>>

\* Mutant of Restore: the buffer is an attribute of the operator, not state.
RestoreWithoutBuffer ==
  /\ checkpoint # None
  /\ position' = checkpoint.position /\ buffer' = <<>>
  /\ timer' = checkpoint.timer /\ timers' = checkpoint.timers
  /\ windows' = checkpoint.windows
  /\ NewAttempt
  /\ UNCHANGED <<base, checkpoint>>

\* The job fails and is restored from its last checkpoint.
Restore ==
  /\ checkpoint # None
  /\ position' = checkpoint.position /\ buffer' = checkpoint.buffer
  /\ timer' = checkpoint.timer /\ timers' = checkpoint.timers
  /\ windows' = checkpoint.windows
  /\ NewAttempt
  /\ UNCHANGED <<base, checkpoint>>

\* A failure before the first checkpoint, or a submission anew, which names no
\* savepoint: the job starts at the end of the topic with nothing.
StartOver ==
  /\ position' = Len(topic) /\ base' = Len(topic)
  /\ buffer' = <<>> /\ timer' = None /\ timers' = {}
  /\ windows' = {} /\ checkpoint' = None
  /\ NewAttempt

Next ==
  \/ \E ts \in EventTime, tickers \in SUBSET Ticker : Produce(ts, tickers)
  \/ Elapse
  \/ ProcessElement
  \/ \E t \in timers : OnTimer(t)
  \/ WindowStep
  \/ Checkpoint \/ Restore \/ StartOver

\* The source reads what there is, the clock runs, due timers fire and records
\* flow.  Neither news nor a checkpoint has to come.
Fairness ==
  /\ WF_vars(ProcessElement) /\ WF_vars(Elapse)
  /\ WF_vars(\E t \in timers : OnTimer(t)) /\ WF_vars(WindowStep)

Spec == Init /\ [][Next]_vars /\ Fairness

-----------------------------------------------------------------------------
Snapshot == [position : 0..MaxRaw, buffer : Seq(Article), timer : Nat \cup {None},
             timers : SUBSET Nat, windows : SUBSET Entry, entries : Nat]

\* Every variable keeps its type.
TypeOK ==
  /\ topic \in Seq(Article) /\ Len(topic) <= MaxRaw
  /\ now \in 0..MaxTime /\ restarts \in 0..MaxRestarts
  /\ position \in 0..Len(topic) /\ base \in 0..position
  /\ buffer \in Seq(Article) /\ enriched \subseteq Article
  /\ timer \in Nat \cup {None} /\ timers \subseteq Nat
  /\ maxTs \in EventTime \cup {None} /\ wm \in Int
  /\ windows \subseteq Entry /\ arrived \subseteq Entry
  /\ results \in Seq([key : Key, ids : SUBSET (1..MaxRaw)])
  /\ checkpoint \in Snapshot \cup {None}
  /\ flushed \in Seq(1..MaxRaw) /\ began \in 0..Len(flushed)

\* No partial batch is left without a timer that Flink still holds, whichever
\* timers were cancelled in vain, fired late or came back with a checkpoint: the
\* value state and Flink's timers never drift apart while something waits.
BufferHasTimer ==
  /\ buffer # <<>> => timer \in timers
  /\ Len(buffer) < BatchSize

\* What this attempt flushed and still buffers is a run of consecutive records that
\* ends with the last one it read.
AttemptInOrder ==
  /\ \A i \in DOMAIN buffer : buffer[i].id = Settled(position, buffer) + i
  /\ \A i \in (began + 1)..Len(flushed) :
       flushed[i] = Settled(position, buffer) - (Len(flushed) - i)

\* What this submission has read was flushed, by this attempt or an earlier one, or
\* is buffered.
NothingSkipped ==
  \A n \in (base + 1)..Settled(position, buffer) : \E i \in DOMAIN flushed : flushed[i] = n

\* What had left the buffer at the last checkpoint is never flushed again.
CheckpointedOnce ==
  checkpoint # None =>
    \A i \in (checkpoint.entries + 1)..Len(flushed) :
      flushed[i] > Settled(checkpoint.position, checkpoint.buffer)

\* Within an attempt each record leaves the buffer once and in order.  Across the
\* failures of one submission none is skipped, and what a restore flushes again is
\* newer than the last checkpoint.  (Records flushed since then are flushed, and so
\* published, a second time; what precedes `base` may never be flushed.)
ConsumedOnceInOrder == AttemptInOrder /\ NothingSkipped /\ CheckpointedOnce

\* Not so: a job that starts over passes over what it had read, and what came while
\* it was down.
NoRecordLost ==
  \A n \in 1..Settled(position, buffer) : \E i \in DOMAIN flushed : flushed[i] = n

\* What this attempt did, seen as the abstract window operator.
Operator == INSTANCE EventTimeWindows WITH
  Id       <- 1..MaxRaw,
  received <- arrived,
  emitted  <- results

\* Between two restarts each step of the job is one of the abstract operator, for
\* the articles of the topic at their own event times, or leaves it alone.  A
\* restart begins a new operator that holds the restored windows.
AttemptIsWindowOperator ==
  [][\/ restarts' # restarts
     \/ UNCHANGED <<arrived, wm, results>>
     \/ \E n \in DOMAIN topic : \E t \in topic[n].tickers :
          Operator!Arrive(n, topic[n].ts, {t})
     \/ Operator!AdvanceTo(wm')
     \/ Operator!EmitNext]_vars

\* Each record of the topic leaves the buffer in the end, although the job may fail
\* in between and no further news may come, or a new submission begins after it.
\* What a restore puts back leaves it once more.
ReadIsFlushed ==
  \A n \in 1..MaxRaw : n <= Len(topic) ~> n <= Settled(position, buffer)
=============================================================================
