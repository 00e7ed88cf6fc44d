--------------------------- MODULE FlinkJobProofs ---------------------------
(***************************************************************************)
(* Theorems about the Flink job, for every batch size, window geometry,    *)
(* topic, checkpoint and number of failures.                               *)
(***************************************************************************)
EXTENDS FlinkJob, TLAPS, SequenceTheorems

-----------------------------------------------------------------------------
(* The inductive invariant.  What a checkpoint holds has to satisfy what   *)
(* the running operator does, or a restore would break it; so that part is *)
(* stated of a buffer b, timer t, Flink's timers ts and position p.        *)

Timers(b, t, ts) ==
  /\ t # None => t \in ts
  /\ b # <<>> => t # None
  /\ Len(b) < BatchSize

\* Buffer b ends with record p and has no gap.
Numbered(b, p) == \A i \in DOMAIN b : b[i].id = Settled(p, b) + i

FromTopic(b) == \A i \in DOMAIN b : b[i].id \in DOMAIN topic /\ b[i] = topic[b[i].id]

Sound(b, t, ts, p) == Timers(b, t, ts) /\ FromTopic(b) /\ Numbered(b, p)

OperatorSound == Sound(buffer, timer, timers, position)

\* A checkpoint belongs to this submission, and neither the buffer nor what has
\* left it is behind the checkpoint.
SnapshotSound ==
  checkpoint # None =>
    /\ Sound(checkpoint.buffer, checkpoint.timer, checkpoint.timers, checkpoint.position)
    /\ checkpoint.position \in base..Len(topic)
    /\ checkpoint.entries <= Len(flushed)
    /\ Settled(checkpoint.position, checkpoint.buffer) <= Settled(position, buffer)

TopicNumbered == \A n \in DOMAIN topic : topic[n].id = n

JobInv == TypeOK /\ TopicNumbered /\ OperatorSound /\ SnapshotSound /\ ConsumedOnceInOrder

-----------------------------------------------------------------------------
(* Sequences of offsets.                                                   *)

LEMMA IdsType ==
  ASSUME NEW b \in Seq(Article)
  PROVE  Ids(b) \in Seq(1..MaxRaw) /\ Len(Ids(b)) = Len(b)
  <1>1. DOMAIN b = 1..Len(b) /\ Len(b) \in Nat
    BY LenProperties
  <1>2. ASSUME NEW i \in 1..Len(b) PROVE b[i].id \in 1..MaxRaw
    <2>1. b[i] \in Article
      BY <1>1, ElementOfSeq
    <2> QED
      BY <2>1 DEF Article
  <1>3. Ids(b) = [i \in 1..Len(b) |-> b[i].id]
    BY <1>1 DEF Ids
  <1> QED
    BY <1>1, <1>2, <1>3

\* What a flush adds to the history.
LEMMA FlushedIds ==
  ASSUME NEW f \in Seq(1..MaxRaw), NEW b \in Seq(Article)
  PROVE  /\ f \o Ids(b) \in Seq(1..MaxRaw)
         /\ Len(f) \in Nat /\ Len(b) \in Nat /\ Len(f \o Ids(b)) = Len(f) + Len(b)
         /\ \A i \in 1..Len(f) : (f \o Ids(b))[i] = f[i]
         /\ \A i \in 1..Len(b) : (f \o Ids(b))[Len(f) + i] = b[i].id
  <1>1. Ids(b) \in Seq(1..MaxRaw) /\ Len(Ids(b)) = Len(b) /\ Len(b) \in Nat /\ Len(f) \in Nat
    BY IdsType, LenProperties
  <1>2. \A i \in 1..Len(b) : Ids(b)[i] = b[i].id
    BY LenProperties DEF Ids
  <1>3. /\ f \o Ids(b) \in Seq(1..MaxRaw) /\ Len(f \o Ids(b)) = Len(f) + Len(b)
        /\ \A i \in 1..(Len(f) + Len(b)) :
             (f \o Ids(b))[i] = IF i <= Len(f) THEN f[i] ELSE Ids(b)[i - Len(f)]
    <2>1. /\ f \o Ids(b) \in Seq(1..MaxRaw) /\ Len(f \o Ids(b)) = Len(f) + Len(Ids(b))
          /\ \A i \in 1..Len(f) + Len(Ids(b)) :
               (f \o Ids(b))[i] = IF i <= Len(f) THEN f[i] ELSE Ids(b)[i - Len(f)]
      BY <1>1, ConcatProperties, Zenon
    <2> QED
      BY <1>1, <2>1
  <1>4. ASSUME NEW i \in 1..Len(f) PROVE (f \o Ids(b))[i] = f[i]
    BY <1>1, <1>3
  <1>5. ASSUME NEW i \in 1..Len(b) PROVE (f \o Ids(b))[Len(f) + i] = b[i].id
    <2>1. Len(f) + i \in 1..(Len(f) + Len(b)) /\ ~ (Len(f) + i <= Len(f)) /\ Len(f) + i - Len(f) = i
      BY <1>1
    <2> QED
      BY <1>2, <1>3, <2>1
  <1> QED
    BY <1>1, <1>3, <1>4, <1>5

\* Nothing is unsettled while nothing is buffered.
LEMMA SettledOfEmpty ==
  ASSUME NEW p \in Nat
  PROVE  Settled(p, <<>>) = p
  <1>1. Len(<<>>) = 0
    OBVIOUS
  <1> QED
    BY <1>1 DEF Settled

-----------------------------------------------------------------------------
(* Type correctness of the parts that are not plain.                       *)

\* The starts of the windows of a timestamp are integers.
LEMMA StartsType ==
  ASSUME NEW ts \in Int
  PROVE  AssignedStarts(ts, Size, Slide, 0) \subseteq Int
  <1> DEFINE last == WindowStartWithOffset(ts, 0, Slide)
  <1>1. last \in Int
    <2>1. (ts - 0) \div Slide \in Int /\ Slide \in Int
      BY JobAssumption
    <2> QED
      BY <2>1 DEF WindowStartWithOffset, FloorMod
  <1>2. AssignedStarts(ts, Size, Slide, 0) \subseteq {last - k * Slide : k \in 0..Size}
    BY DEF AssignedStarts
  <1> HIDE DEF last
  <1> QED
    BY <1>1, <1>2, JobAssumption

LEMMA KeysType ==
  ASSUME NEW a \in Article, NEW t \in Ticker
  PROVE  KeysOf(a, t) \subseteq Key
  <1>0. a.ts \in EventTime
    BY DEF Article
  <1>1. a.ts \in Int
    <2>1. EventTime \subseteq Int
      BY JobAssumption
    <2> QED
      BY <1>0, <2>1
  <1>2. ASSUME NEW w \in AssignWindows(a.ts, Size, Slide, 0) PROVE w \in [start : Int, end : Int]
    <2>1. PICK s \in AssignedStarts(a.ts, Size, Slide, 0) : w = [start |-> s, end |-> s + Size]
      BY DEF AssignWindows, Window
    <2>2. s \in Int /\ Size \in Int
      BY <1>1, StartsType, JobAssumption
    <2> QED
      BY <2>1, <2>2
  <1> QED
    BY <1>2 DEF KeysOf, EventTimeOf, Key

LEMMA PendingArticles ==
  ASSUME NEW pending \in Seq(Article)
  PROVE  \A kept \in EnrichBatch(pending) : kept \subseteq Article
  <1>1. \A i \in DOMAIN pending : pending[i] \in Article
    BY LenProperties, ElementOfSeq
  <1> QED
    BY <1>1 DEF EnrichBatch

LEMMA FlushType ==
  ASSUME TypeOK, NEW pending \in Seq(Article), Flush(pending)
  PROVE  /\ buffer' \in Seq(Article) /\ flushed' \in Seq(1..MaxRaw) /\ enriched' \subseteq Article
         /\ buffer' = <<>> /\ flushed' = flushed \o Ids(pending)
         /\ Len(flushed) \in Nat /\ Len(flushed') \in Nat /\ Len(flushed) <= Len(flushed')
  <1>1. /\ Len(flushed) \in Nat /\ Len(pending) \in Nat
        /\ Len(flushed \o Ids(pending)) = Len(flushed) + Len(pending)
    BY FlushedIds DEF TypeOK
  <1>2. flushed \o Ids(pending) \in Seq(1..MaxRaw)
    BY FlushedIds DEF TypeOK
  <1>3. enriched' \subseteq Article
    BY PendingArticles DEF Flush, TypeOK
  <1> QED
    BY <1>1, <1>2, <1>3, EmptySeq DEF Flush

\* The record that is read next.
LEMMA NextRecord ==
  ASSUME TypeOK, position < Len(topic)
  PROVE  /\ topic[position + 1] \in Article
         /\ position + 1 \in DOMAIN topic
         /\ Append(buffer, topic[position + 1]) \in Seq(Article)
         /\ Len(Append(buffer, topic[position + 1])) = Len(buffer) + 1
  <1>1. position + 1 \in 1..Len(topic) /\ DOMAIN topic = 1..Len(topic)
    BY LenProperties DEF TypeOK
  <1>2. topic[position + 1] \in Article
    BY <1>1, ElementOfSeq DEF TypeOK
  <1> QED
    BY <1>1, <1>2, AppendProperties DEF TypeOK

LEMMA TimerTypes ==
  ASSUME TypeOK
  PROVE  /\ CancelTimer => timer' \in Nat \cup {None} /\ timers' \subseteq Nat
         /\ ArmTimer => timer' \in Nat \cup {None} /\ timers' \subseteq Nat
  <1>1. now + BatchTimeout \in Nat
    <2>1. now \in Nat /\ BatchTimeout \in Nat
      BY JobAssumption, JobBounds DEF TypeOK
    <2> QED
      BY <2>1
  <1> QED
    BY <1>1 DEF CancelTimer, ArmTimer, TypeOK

LEMMA ProduceType ==
  ASSUME TypeOK, NEW ts \in EventTime, NEW tickers \in SUBSET Ticker, Produce(ts, tickers)
  PROVE  TypeOK'
  <1> DEFINE r == [id |-> Len(topic) + 1, ts |-> ts, tickers |-> tickers]
  <1>1. Len(topic) \in Nat /\ Len(topic) < MaxRaw
    BY LenProperties DEF Produce, TypeOK
  <1>2. r \in Article
    <2>1. Len(topic) + 1 \in 1..MaxRaw
      BY <1>1, JobBounds
    <2> QED
      BY <2>1 DEF Article
  <1>3. topic' \in Seq(Article) /\ Len(topic') = Len(topic) + 1
    <2> HIDE DEF r
    <2>1. topic' = Append(topic, r)
      BY DEF Produce, r
    <2> QED
      BY <1>2, <2>1, AppendProperties DEF TypeOK
  <1>4. Len(topic') <= MaxRaw /\ position' \in 0..Len(topic') /\ base' \in 0..position'
    BY <1>1, <1>3, JobBounds DEF Produce, TypeOK, source
  <1> QED
    BY <1>3, <1>4 DEF Produce, TypeOK, batcher, windowing, recovery

LEMMA ProcessType ==
  ASSUME TypeOK, ProcessElement
  PROVE  TypeOK'
  <1> DEFINE pending == Append(buffer, topic[position + 1])
  <1>1. position < Len(topic) /\ position' = position + 1 /\ UNCHANGED <<topic, base>>
    BY DEF ProcessElement
  <1>2. pending \in Seq(Article)
    BY <1>1, NextRecord
  <1>3. position' \in 0..Len(topic') /\ base' \in 0..position'
    BY <1>1, LenProperties DEF TypeOK
  <1>4. /\ buffer' \in Seq(Article) /\ flushed' \in Seq(1..MaxRaw) /\ enriched' \subseteq Article
        /\ timer' \in Nat \cup {None} /\ timers' \subseteq Nat
        /\ began \in 0..Len(flushed')
    <2>1. CASE CancelTimer /\ Flush(pending)
      <3>1. /\ Len(flushed) \in Nat /\ Len(flushed') \in Nat /\ Len(flushed) <= Len(flushed')
            /\ buffer' \in Seq(Article) /\ flushed' \in Seq(1..MaxRaw) /\ enriched' \subseteq Article
        BY <1>2, <2>1, FlushType
      <3>2. began \in 0..Len(flushed')
        BY <3>1 DEF TypeOK
      <3> QED
        BY <2>1, <3>1, <3>2, TimerTypes
    <2>2. CASE buffer' = pending /\ ArmTimer /\ UNCHANGED <<flushed, enriched>>
      BY <1>2, <2>2, TimerTypes DEF TypeOK
    <2> QED
      BY <2>1, <2>2 DEF ProcessElement
  <1> HIDE DEF pending
  <1> QED
    BY <1>1, <1>3, <1>4 DEF ProcessElement, TypeOK, windowing, recovery

LEMMA TimerType ==
  ASSUME TypeOK, NEW t \in timers, OnTimer(t)
  PROVE  TypeOK'
  <1>1. /\ buffer' \in Seq(Article) /\ flushed' \in Seq(1..MaxRaw) /\ enriched' \subseteq Article
        /\ began \in 0..Len(flushed')
    <2>1. CASE buffer = <<>>
      BY <2>1 DEF OnTimer, TypeOK
    <2>2. CASE buffer # <<>>
      BY <2>2, FlushType DEF OnTimer, TypeOK
    <2> QED
      BY <2>1, <2>2
  <1>2. timer' \in Nat \cup {None} /\ timers' \subseteq Nat
    BY DEF OnTimer, TypeOK
  <1> QED
    BY <1>1, <1>2 DEF OnTimer, TypeOK, source, windowing, recovery

LEMMA PlaceType ==
  ASSUME TypeOK, NEW a \in enriched, NEW t \in a.tickers, PlaceMention(a, t)
  PROVE  TypeOK'
  <1>1. a \in Article
    BY DEF TypeOK
  <1>2. a.id \in 1..MaxRaw /\ a.ts \in EventTime /\ a.tickers \subseteq Ticker /\ t \in Ticker
    BY <1>1 DEF Article
  <1> DEFINE new == {[key |-> k, id |-> a.id] : k \in {x \in KeysOf(a, t) : ~ Passed(x)}}
  <1>3. new \subseteq Entry
    BY <1>1, <1>2, KeysType DEF Entry
  <1>4. windows' = windows \cup new /\ arrived' = arrived \cup new
    BY DEF PlaceMention
  <1>5. enriched' \subseteq Article
    <2>1. [id |-> a.id, ts |-> a.ts, tickers |-> a.tickers \ {t}] \in Article
      BY <1>2 DEF Article
    <2> QED
      BY <2>1 DEF PlaceMention, TypeOK
  <1>6. maxTs' \in EventTime \cup {None}
    BY <1>2 DEF PlaceMention, TypeOK, EventTimeOf
  <1> HIDE DEF new
  <1>7. windows' \subseteq Entry /\ arrived' \subseteq Entry
    BY <1>3, <1>4 DEF TypeOK
  <1> QED
    BY <1>5, <1>6, <1>7 DEF PlaceMention, TypeOK, source, batcher, recovery

LEMMA FireType ==
  ASSUME TypeOK, NEW k \in Due, FireWindow(k)
  PROVE  TypeOK'
  <1>1. k \in Key /\ Contents(k) \subseteq 1..MaxRaw
    BY DEF Due, OpenKeys, Contents, TypeOK, Entry
  <1> DEFINE r == [key |-> k, ids |-> Contents(k)]
  <1>2. r \in [key : Key, ids : SUBSET (1..MaxRaw)]
    BY <1>1
  <1>3. results' = Append(results, r)
    BY DEF FireWindow
  <1> HIDE DEF r
  <1>4. results' \in Seq([key : Key, ids : SUBSET (1..MaxRaw)])
    BY <1>2, <1>3, AppendProperties DEF TypeOK
  <1>5. windows' \subseteq Entry
    BY DEF FireWindow, TypeOK
  <1> QED
    BY <1>4, <1>5 DEF FireWindow, TypeOK, source, batcher, recovery

LEMMA CheckpointType ==
  ASSUME TypeOK, Checkpoint
  PROVE  TypeOK'
  <1>1. position \in 0..MaxRaw /\ Len(flushed) \in Nat
    BY LenProperties, JobBounds DEF TypeOK
  <1>2. checkpoint' \in Snapshot
    BY <1>1 DEF Checkpoint, Snapshot, TypeOK
  <1> QED
    BY <1>2 DEF Checkpoint, TypeOK, source, batcher, windowing

LEMMA NewAttemptType ==
  ASSUME TypeOK, NewAttempt
  PROVE  /\ restarts' \in 0..MaxRestarts /\ restarts' # restarts
         /\ wm' \in Int /\ began' \in 0..Len(flushed')
  <1>1. Len(flushed) \in Nat
    BY LenProperties DEF TypeOK
  <1> QED
    BY <1>1, JobBounds, JobAssumption DEF NewAttempt, TypeOK

LEMMA RestoreType ==
  ASSUME TypeOK, SnapshotSound, Restore
  PROVE  TypeOK'
  <1>1. checkpoint \in Snapshot /\ NewAttempt
    BY DEF Restore, TypeOK
  <1>2. position' \in 0..Len(topic) /\ base' \in 0..position'
    <2>1. Len(topic) \in Nat /\ base \in Nat
      BY LenProperties DEF TypeOK
    <2> QED
      BY <2>1 DEF Restore, SnapshotSound
  <1>3. /\ buffer' \in Seq(Article) /\ timer' \in Nat \cup {None} /\ timers' \subseteq Nat
        /\ windows' \subseteq Entry
    BY <1>1 DEF Restore, Snapshot
  <1>4. /\ restarts' \in 0..MaxRestarts /\ wm' \in Int /\ began' \in 0..Len(flushed')
    BY <1>1, NewAttemptType
  <1> QED
    BY <1>2, <1>3, <1>4, EmptySeq DEF Restore, NewAttempt, TypeOK

LEMMA StartOverType ==
  ASSUME TypeOK, StartOver
  PROVE  TypeOK'
  <1>1. position' \in 0..Len(topic) /\ base' \in 0..position'
    BY LenProperties DEF StartOver, TypeOK
  <1>2. /\ restarts' \in 0..MaxRestarts /\ wm' \in Int /\ began' \in 0..Len(flushed')
    BY NewAttemptType DEF StartOver
  <1>3. /\ buffer' = <<>> /\ timer' = None /\ timers' = {} /\ checkpoint' = None
        /\ windows' = {} /\ arrived' = {} /\ enriched' = {} /\ results' = <<>> /\ maxTs' = None
        /\ UNCHANGED <<topic, now, flushed>>
    BY DEF StartOver, NewAttempt
  <1> QED
    BY <1>1, <1>2, <1>3, EmptySeq DEF TypeOK

LEMMA TypeStep ==
  ASSUME TypeOK, SnapshotSound, [Next]_vars
  PROVE  TypeOK'
  <1>1. ASSUME Elapse PROVE TypeOK'
    <2>1. now' \in 0..MaxTime
      BY <1>1, JobBounds DEF Elapse, TypeOK
    <2> QED
      BY <1>1, <2>1 DEF Elapse, TypeOK, batcher, windowing, recovery
  <1>2. ASSUME NEW a \in enriched, ArticleDone(a) PROVE TypeOK'
    BY <1>2 DEF ArticleDone, TypeOK, source, batcher, windowing, recovery
  <1>3. ASSUME AdvanceWatermark PROVE TypeOK'
    <2>1. wm' \in Int
      BY <1>3, JobAssumption DEF AdvanceWatermark, TypeOK
    <2> QED
      BY <1>3, <2>1 DEF AdvanceWatermark, TypeOK, source, batcher, recovery
  <1>4. ASSUME UNCHANGED vars PROVE TypeOK'
    BY <1>4 DEF vars, source, batcher, windowing, recovery, TypeOK
  <1> QED
    BY <1>1, <1>2, <1>3, <1>4, ProduceType, ProcessType, TimerType, PlaceType, FireType,
       CheckpointType, RestoreType, StartOverType DEF Next, WindowStep

-----------------------------------------------------------------------------
(* The operator and its checkpoints stay sound.                            *)

LEMMA TopicGrows ==
  ASSUME TypeOK, TopicNumbered, NEW ts \in EventTime, NEW tickers \in SUBSET Ticker,
         Produce(ts, tickers)
  PROVE  /\ Len(topic) \in Nat /\ Len(topic') = Len(topic) + 1
         /\ \A n \in DOMAIN topic : n \in DOMAIN topic' /\ topic'[n] = topic[n]
         /\ TopicNumbered'
  <1> DEFINE r == [id |-> Len(topic) + 1, ts |-> ts, tickers |-> tickers]
  <1>1. Len(topic) \in Nat /\ DOMAIN topic = 1..Len(topic)
    BY LenProperties DEF TypeOK
  <1>2. r \in Article
    <2>1. Len(topic) + 1 \in 1..MaxRaw
      BY <1>1, JobBounds DEF Produce
    <2> QED
      BY <2>1 DEF Article
  <1>3. topic' = Append(topic, r) /\ r.id = Len(topic) + 1
    BY DEF Produce
  <1> HIDE DEF r
  <1>4. /\ topic' \in Seq(Article) /\ Len(topic') = Len(topic) + 1
        /\ \A n \in 1..Len(topic) : topic'[n] = topic[n]
        /\ topic'[Len(topic) + 1] = r
    BY <1>2, <1>3, AppendProperties DEF TypeOK
  <1>5. DOMAIN topic' = 1..(Len(topic) + 1)
    BY <1>1, <1>4, LenProperties
  <1>6. TopicNumbered'
    BY <1>1, <1>3, <1>4, <1>5 DEF TopicNumbered
  <1> QED
    BY <1>1, <1>4, <1>5, <1>6

LEMMA ProduceSound ==
  ASSUME JobInv, NEW ts \in EventTime, NEW tickers \in SUBSET Ticker, Produce(ts, tickers)
  PROVE  TopicNumbered' /\ OperatorSound' /\ SnapshotSound' /\ ConsumedOnceInOrder'
  <1>1. UNCHANGED <<buffer, timer, timers, flushed, position, base, checkpoint, began>>
    BY DEF Produce, batcher, recovery
  <1>2. /\ Len(topic) \in Nat /\ Len(topic') = Len(topic) + 1
        /\ \A n \in DOMAIN topic : n \in DOMAIN topic' /\ topic'[n] = topic[n]
        /\ TopicNumbered'
    BY TopicGrows DEF JobInv
  <1>3. OperatorSound'
    BY <1>1, <1>2 DEF JobInv, OperatorSound, Sound, FromTopic, Timers, Numbered
  <1>4. base \in Nat
    BY <1>2 DEF JobInv, TypeOK
  <1>5. checkpoint # None => checkpoint.position \in base..Len(topic')
    BY <1>2, <1>4 DEF JobInv, SnapshotSound
  <1>6. checkpoint # None => FromTopic(checkpoint.buffer)'
    BY <1>1, <1>2 DEF JobInv, SnapshotSound, Sound, FromTopic
  <1>7. SnapshotSound'
    BY <1>1, <1>5, <1>6 DEF JobInv, SnapshotSound, Sound, Timers, Numbered, Settled
  <1>8. ConsumedOnceInOrder'
    BY <1>1
    DEF JobInv, ConsumedOnceInOrder, AttemptInOrder, NothingSkipped, CheckpointedOnce, Settled
  <1> QED
    BY <1>2, <1>3, <1>7, <1>8

\* The facts about timers, for the batch that leaves the buffer empty.
LEMMA NothingBuffered ==
  ASSUME NEW t, NEW ts, t = None
  PROVE  Timers(<<>>, t, ts) /\ FromTopic(<<>>) /\ \A p : Numbered(<<>>, p)
  BY JobAssumption, EmptySeq DEF Timers, FromTopic, Numbered

LEMMA PendingFromTopic ==
  ASSUME TypeOK, TopicNumbered, OperatorSound, position < Len(topic)
  PROVE  FromTopic(Append(buffer, topic[position + 1]))
  <1> DEFINE a == topic[position + 1]
             pending == Append(buffer, a)
  <1>1. /\ a \in Article /\ position + 1 \in DOMAIN topic
        /\ pending \in Seq(Article) /\ Len(pending) = Len(buffer) + 1
    BY NextRecord
  <1>2. a = topic[a.id] /\ a.id \in DOMAIN topic
    BY <1>1 DEF TopicNumbered
  <1>3. /\ Len(buffer) \in Nat /\ DOMAIN buffer = 1..Len(buffer)
        /\ DOMAIN pending = 1..(Len(buffer) + 1)
    BY <1>1, LenProperties DEF TypeOK
  <1>4. /\ \A i \in 1..Len(buffer) : pending[i] = buffer[i]
        /\ pending[Len(buffer) + 1] = a
    BY <1>1, AppendProperties DEF TypeOK
  <1> HIDE DEF a, pending
  <1>5. FromTopic(pending)
    BY <1>2, <1>3, <1>4 DEF OperatorSound, Sound, FromTopic
  <1> QED
    BY <1>5 DEF a, pending

\* A flush appends the records after those flushed, up to the last one read.
LEMMA FlushOrdered ==
  ASSUME JobInv, NEW pending \in Seq(Article), Flush(pending),
         Numbered(pending, position'), UNCHANGED <<base, checkpoint, began>>,
         position' \in Nat, Settled(position', pending) = Settled(position, buffer)
  PROVE  ConsumedOnceInOrder' /\ Settled(position, buffer) <= Settled(position, buffer)'
  <1> DEFINE old == Settled(position, buffer)
             len == Len(flushed)
             more == Len(pending)
  <1>0. TypeOK /\ AttemptInOrder /\ NothingSkipped /\ CheckpointedOnce /\ SnapshotSound
    BY DEF JobInv, ConsumedOnceInOrder
  <1>1. /\ flushed \in Seq(1..MaxRaw) /\ began \in Nat /\ base \in Nat
        /\ Len(buffer) \in Nat /\ position \in Nat
    BY <1>0, LenProperties DEF TypeOK
  <1>2. /\ len \in Nat /\ more \in Nat /\ Len(flushed') = len + more
        /\ flushed' \in Seq(1..MaxRaw)
        /\ \A i \in 1..len : flushed'[i] = flushed[i]
        /\ \A i \in 1..more : flushed'[len + i] = pending[i].id
    BY <1>1, FlushedIds DEF Flush
  <1>3. buffer' = <<>> /\ Settled(position, buffer)' = position'
    <2>1. buffer' = <<>>
      BY DEF Flush
    <2>2. Settled(position, buffer)' = Settled(position', <<>>)
      BY <2>1 DEF Settled
    <2> QED
      BY <2>1, <2>2, SettledOfEmpty
  <1>4. old \in Int /\ position' = old + more
    BY <1>1, <1>2 DEF Settled
  <1>5. \A i \in 1..more : flushed'[len + i] = old + i
    BY <1>2, LenProperties DEF Numbered
  <1> HIDE DEF old, len, more
  <1>6. DOMAIN flushed = 1..len /\ DOMAIN flushed' = 1..(len + more)
    BY <1>1, <1>2, LenProperties DEF len
  <1>7. AttemptInOrder'
    <2>1. ASSUME NEW i \in (began + 1)..(len + more) PROVE flushed'[i] = position' - (len + more - i)
      <3>1. CASE i <= len
        <4>1. flushed[i] = old - (len - i) /\ flushed'[i] = flushed[i]
          BY <1>0, <1>1, <1>2, <3>1 DEF AttemptInOrder, old, len
        <4> QED
          BY <1>1, <1>2, <1>4, <3>1, <4>1
      <3>2. CASE i > len
        <4>1. i - len \in 1..more /\ len + (i - len) = i
          BY <1>1, <1>2, <3>2
        <4>2. flushed'[i] = old + (i - len)
          BY <1>5, <4>1
        <4> QED
          BY <1>1, <1>2, <1>4, <3>2, <4>2
      <3> QED
        BY <1>1, <1>2, <3>1, <3>2
    <2> QED
      BY <1>2, <1>3, <2>1, EmptySeq DEF AttemptInOrder
  <1>8. NothingSkipped'
    <2>1. ASSUME NEW n \in (base + 1)..position' PROVE \E i \in DOMAIN flushed' : flushed'[i] = n
      <3>1. CASE n <= old
        <4>1. PICK i \in DOMAIN flushed : flushed[i] = n
          BY <1>0, <1>1, <1>4, <3>1 DEF NothingSkipped, old
        <4> QED
          BY <1>2, <1>6, <4>1
      <3>2. CASE n > old
        <4>1. n - old \in 1..more /\ old + (n - old) = n
          BY <1>1, <1>2, <1>4, <3>2
        <4>2. flushed'[len + (n - old)] = n
          BY <1>5, <4>1
        <4>3. len + (n - old) \in DOMAIN flushed'
          BY <1>2, <1>6, <4>1
        <4> QED
          BY <4>2, <4>3
      <3> QED
        BY <1>1, <1>4, <3>1, <3>2
    <2> QED
      BY <1>3, <2>1 DEF NothingSkipped
  <1>9. CheckpointedOnce'
    <2> SUFFICES ASSUME checkpoint # None, NEW i \in (checkpoint.entries + 1)..(len + more)
                 PROVE  flushed'[i] > Settled(checkpoint.position, checkpoint.buffer)
      BY <1>2 DEF CheckpointedOnce, Settled
    <2>1. /\ checkpoint.entries \in Nat /\ Settled(checkpoint.position, checkpoint.buffer) \in Int
          /\ Settled(checkpoint.position, checkpoint.buffer) <= old
      <3>1. checkpoint \in Snapshot
        BY <1>0 DEF TypeOK
      <3>2. /\ checkpoint.entries \in Nat /\ checkpoint.position \in Int
            /\ checkpoint.buffer \in Seq(Article)
        BY <3>1 DEF Snapshot
      <3>3. Len(checkpoint.buffer) \in Nat
        BY <3>2, LenProperties
      <3>4. Settled(checkpoint.position, checkpoint.buffer) \in Int
        BY <3>2, <3>3 DEF Settled
      <3>5. Settled(checkpoint.position, checkpoint.buffer) <= old
        BY <1>0 DEF SnapshotSound, old
      <3> QED
        BY <3>2, <3>4, <3>5
    <2>2. CASE i <= len
      BY <1>0, <1>2, <2>1, <2>2 DEF CheckpointedOnce, len
    <2>3. CASE i > len
      <3>1. i - len \in 1..more /\ len + (i - len) = i
        BY <1>2, <2>1, <2>3
      <3>2. flushed'[i] = old + (i - len)
        BY <1>5, <3>1
      <3> QED
        BY <1>2, <1>4, <2>1, <3>1, <3>2
    <2> QED
      BY <1>2, <2>1, <2>2, <2>3
  <1>10. old <= position'
    BY <1>2, <1>4
  <1> QED
    BY <1>3, <1>7, <1>8, <1>9, <1>10 DEF ConsumedOnceInOrder, old

\* The order does not depend on anything else.
LEMMA OrderKept ==
  ASSUME JobInv, UNCHANGED <<flushed, base, checkpoint, began>>, Numbered(buffer, position)',
         Settled(position, buffer)' = Settled(position, buffer)
  PROVE  ConsumedOnceInOrder'
  <1>1. AttemptInOrder'
    BY DEF JobInv, ConsumedOnceInOrder, AttemptInOrder, Numbered
  <1>2. NothingSkipped' /\ CheckpointedOnce'
    BY DEF JobInv, ConsumedOnceInOrder, NothingSkipped, CheckpointedOnce, Settled
  <1> QED
    BY <1>1, <1>2 DEF ConsumedOnceInOrder

\* A checkpoint stays sound as long as the operator does not fall behind it.
LEMMA SnapshotKept ==
  ASSUME JobInv, UNCHANGED <<topic, base, checkpoint>>, Len(flushed') \in Nat,
         Len(flushed) <= Len(flushed'), position' \in Nat, Len(buffer') \in Nat,
         Settled(position, buffer) <= Settled(position, buffer)'
  PROVE  SnapshotSound'
  <1> SUFFICES ASSUME checkpoint # None PROVE SnapshotSound'
    BY DEF SnapshotSound
  <1>1. /\ checkpoint \in Snapshot /\ Len(checkpoint.buffer) \in Nat
        /\ Len(flushed) \in Nat /\ Len(buffer) \in Nat /\ position \in Nat
    BY LenProperties DEF JobInv, TypeOK, Snapshot
  <1>2. checkpoint.entries \in Nat /\ checkpoint.position \in Nat
    BY <1>1 DEF Snapshot
  <1>3. checkpoint.entries <= Len(flushed')
    BY <1>1, <1>2 DEF JobInv, SnapshotSound
  <1>4. Settled(checkpoint.position, checkpoint.buffer) <= Settled(position, buffer)'
    BY <1>1, <1>2 DEF JobInv, SnapshotSound, Settled
  <1>5. /\ Sound(checkpoint.buffer, checkpoint.timer, checkpoint.timers, checkpoint.position)'
        /\ checkpoint'.position \in base'..Len(topic')
    BY DEF JobInv, SnapshotSound, Sound, Timers, FromTopic, Numbered, Settled
  <1> QED
    BY <1>3, <1>4, <1>5 DEF SnapshotSound, Settled

\* What is pending when a record has joined is numbered up to that record.
LEMMA PendingNumbered ==
  ASSUME TypeOK, TopicNumbered, OperatorSound, position < Len(topic)
  PROVE  /\ Numbered(Append(buffer, topic[position + 1]), position + 1)
         /\ Settled(position + 1, Append(buffer, topic[position + 1])) = Settled(position, buffer)
  <1> DEFINE a == topic[position + 1]
             pending == Append(buffer, a)
  <1>1. /\ a \in Article /\ a.id = position + 1
        /\ pending \in Seq(Article) /\ Len(pending) = Len(buffer) + 1
    BY NextRecord DEF TopicNumbered
  <1>2. /\ Len(buffer) \in Nat /\ position \in Nat /\ DOMAIN buffer = 1..Len(buffer)
        /\ DOMAIN pending = 1..(Len(buffer) + 1)
    BY <1>1, LenProperties DEF TypeOK
  <1>3. /\ \A i \in 1..Len(buffer) : pending[i] = buffer[i]
        /\ pending[Len(buffer) + 1] = a
    BY <1>1, AppendProperties DEF TypeOK
  <1> HIDE DEF a, pending
  <1>4. Settled(position + 1, pending) = Settled(position, buffer)
    BY <1>1, <1>2 DEF Settled
  <1>5. Numbered(pending, position + 1)
    BY <1>1, <1>2, <1>3, <1>4 DEF OperatorSound, Sound, Numbered, Settled
  <1> QED
    BY <1>4, <1>5 DEF a, pending

LEMMA ProcessSound ==
  ASSUME JobInv, ProcessElement
  PROVE  OperatorSound' /\ SnapshotSound' /\ ConsumedOnceInOrder'
  <1> DEFINE pending == Append(buffer, topic[position + 1])
  <1>0. TypeOK /\ TopicNumbered /\ OperatorSound
    BY DEF JobInv
  <1>1. /\ position < Len(topic) /\ position' = position + 1
        /\ UNCHANGED <<topic, base, checkpoint, began>>
    BY DEF ProcessElement, recovery
  <1>2. pending \in Seq(Article) /\ Len(pending) = Len(buffer) + 1
    BY <1>0, <1>1, NextRecord
  <1>3. /\ position \in Nat /\ position' \in Nat /\ Len(buffer) \in Nat /\ Len(flushed) \in Nat
        /\ Len(pending) \in Nat
    BY <1>0, <1>1, <1>2, LenProperties DEF TypeOK
  <1>4. Numbered(pending, position') /\ Settled(position', pending) = Settled(position, buffer)
    BY <1>0, <1>1, PendingNumbered
  <1>5. FromTopic(pending)
    BY <1>0, <1>1, PendingFromTopic
  <1> HIDE DEF pending
  <1>6. CASE Len(pending) >= BatchSize
    <2>1. CancelTimer /\ Flush(pending)
      BY <1>6 DEF ProcessElement, pending
    <2>2. buffer' = <<>> /\ timer' = None
      BY <2>1 DEF CancelTimer, Flush
    <2>3. Timers(<<>>, timer', timers') /\ FromTopic(<<>>) /\ Numbered(<<>>, position')
      BY <2>2, NothingBuffered
    <2>4. OperatorSound'
      BY <1>1, <2>2, <2>3 DEF OperatorSound, Sound, Timers, FromTopic, Numbered, Settled
    <2>5. ConsumedOnceInOrder' /\ Settled(position, buffer) <= Settled(position, buffer)'
      BY <1>1, <1>2, <1>3, <1>4, <2>1, FlushOrdered
    <2>6. Len(flushed') \in Nat /\ Len(flushed) <= Len(flushed')
      BY <1>0, <1>2, <2>1, FlushType
    <2>7. SnapshotSound'
      BY <1>1, <1>3, <2>2, <2>5, <2>6, SnapshotKept, EmptySeq
    <2> QED
      BY <2>4, <2>5, <2>7
  <1>7. CASE Len(pending) < BatchSize
    <2>1. buffer' = pending /\ ArmTimer /\ UNCHANGED flushed
      BY <1>3, <1>7, JobAssumption DEF ProcessElement, pending
    <2>2. timer' # None /\ timer' \in timers'
      <3>1. now + BatchTimeout # None
        <4>1. now \in Nat /\ BatchTimeout \in Nat /\ None \notin Int
          BY <1>0, JobAssumption, JobBounds DEF TypeOK
        <4> QED
          BY <4>1
      <3> QED
        BY <1>0, <2>1, <3>1 DEF ArmTimer, OperatorSound, Sound, Timers
    <2>3. OperatorSound'
      BY <1>1, <1>4, <1>5, <1>7, <2>1, <2>2
      DEF OperatorSound, Sound, Timers, FromTopic, Numbered, Settled
    <2>4. Settled(position, buffer)' = Settled(position, buffer) /\ Settled(position, buffer) \in Int
      BY <1>3, <1>4, <2>1 DEF Settled
    <2>5. ConsumedOnceInOrder'
      BY <1>1, <2>1, <2>3, <2>4, OrderKept DEF OperatorSound, Sound
    <2>6. SnapshotSound'
      BY <1>1, <1>3, <2>1, <2>4, SnapshotKept
    <2> QED
      BY <2>3, <2>5, <2>6
  <1> QED
    BY <1>3, <1>6, <1>7, JobAssumption

LEMMA TimerSound ==
  ASSUME JobInv, NEW t \in timers, OnTimer(t)
  PROVE  OperatorSound' /\ SnapshotSound' /\ ConsumedOnceInOrder'
  <1>0. TypeOK /\ OperatorSound
    BY DEF JobInv
  <1>1. timer' = None /\ UNCHANGED <<topic, position, base, checkpoint, began>>
    BY DEF OnTimer, source, recovery
  <1>2. /\ position \in Nat /\ Len(buffer) \in Nat /\ Len(flushed) \in Nat
        /\ buffer \in Seq(Article) /\ Settled(position, buffer) \in Int
    BY <1>0, LenProperties DEF TypeOK, Settled
  <1>3. buffer' = <<>>
    BY DEF OnTimer, Flush
  <1>4. Timers(<<>>, timer', timers') /\ FromTopic(<<>>) /\ Numbered(<<>>, position')
    BY <1>1, NothingBuffered
  <1>5. OperatorSound'
    BY <1>1, <1>3, <1>4 DEF OperatorSound, Sound, Timers, FromTopic, Numbered, Settled
  <1>6. CASE buffer = <<>>
    <2>1. UNCHANGED <<buffer, flushed>>
      BY <1>6 DEF OnTimer
    <2>2. Settled(position, buffer)' = Settled(position, buffer)
      BY <1>1, <2>1 DEF Settled
    <2>3. ConsumedOnceInOrder'
      BY <1>1, <1>5, <2>1, <2>2, OrderKept DEF OperatorSound, Sound
    <2>4. SnapshotSound'
      BY <1>1, <1>2, <2>1, <2>2, SnapshotKept
    <2> QED
      BY <1>5, <2>3, <2>4
  <1>7. CASE buffer # <<>>
    <2>1. Flush(buffer)
      BY <1>7 DEF OnTimer
    <2>2. Numbered(buffer, position') /\ Settled(position', buffer) = Settled(position, buffer)
      BY <1>0, <1>1 DEF OperatorSound, Sound
    <2>3. ConsumedOnceInOrder' /\ Settled(position, buffer) <= Settled(position, buffer)'
      BY <1>1, <1>2, <2>1, <2>2, FlushOrdered
    <2>4. Len(flushed') \in Nat /\ Len(flushed) <= Len(flushed')
      BY <1>0, <1>2, <2>1, FlushType
    <2>5. SnapshotSound'
      BY <1>1, <1>2, <1>3, <2>3, <2>4, SnapshotKept, EmptySeq
    <2> QED
      BY <1>5, <2>3, <2>5
  <1> QED
    BY <1>6, <1>7

\* A new attempt has flushed nothing yet.
LEMMA NothingFlushed ==
  ASSUME JobInv, began' = Len(flushed), UNCHANGED flushed, Numbered(buffer, position)'
  PROVE  AttemptInOrder'
  <1>1. Len(flushed) \in Nat
    BY LenProperties DEF JobInv, TypeOK
  <1>2. (began' + 1)..Len(flushed') = {}
    BY <1>1
  <1> QED
    BY <1>2 DEF AttemptInOrder, Numbered

LEMMA RestoreSound ==
  ASSUME JobInv, Restore
  PROVE  OperatorSound' /\ SnapshotSound' /\ ConsumedOnceInOrder'
  <1>1. /\ checkpoint # None /\ UNCHANGED <<topic, base, checkpoint, flushed>>
        /\ buffer' = checkpoint.buffer /\ timer' = checkpoint.timer
        /\ timers' = checkpoint.timers /\ position' = checkpoint.position
        /\ began' = Len(flushed)
    BY DEF Restore, NewAttempt
  <1>2. /\ checkpoint \in Snapshot /\ Len(checkpoint.buffer) \in Nat
        /\ Len(buffer) \in Nat /\ position \in Nat /\ base \in Nat
    BY <1>1, LenProperties DEF JobInv, TypeOK, Snapshot
  <1>3. /\ Settled(position, buffer)' = Settled(checkpoint.position, checkpoint.buffer)
        /\ Settled(position, buffer)' \in Int /\ Settled(position, buffer) \in Int
    BY <1>1, <1>2 DEF Settled, Snapshot
  <1>4. OperatorSound'
    BY <1>1 DEF JobInv, SnapshotSound, OperatorSound, Sound, Timers, FromTopic, Numbered, Settled
  <1>5. SnapshotSound'
    <2>1. /\ Sound(checkpoint.buffer, checkpoint.timer, checkpoint.timers, checkpoint.position)'
          /\ checkpoint'.position \in base'..Len(topic') /\ checkpoint'.entries <= Len(flushed')
      BY <1>1
      DEF JobInv, SnapshotSound, OperatorSound, Sound, Timers, FromTopic, Numbered, Settled
    <2> QED
      BY <1>1, <1>3, <2>1 DEF SnapshotSound, Settled
  <1>6. AttemptInOrder'
    BY <1>1, <1>4, NothingFlushed DEF OperatorSound, Sound
  <1>7. NothingSkipped'
    <2>1. Settled(position, buffer)' <= Settled(position, buffer)
      BY <1>1, <1>3 DEF JobInv, SnapshotSound
    <2> QED
      BY <1>1, <1>2, <1>3, <2>1 DEF JobInv, ConsumedOnceInOrder, NothingSkipped
  <1>8. CheckpointedOnce'
    BY <1>1 DEF JobInv, ConsumedOnceInOrder, CheckpointedOnce, Settled
  <1> QED
    BY <1>4, <1>5, <1>6, <1>7, <1>8 DEF ConsumedOnceInOrder

LEMMA StartOverSound ==
  ASSUME JobInv, StartOver
  PROVE  OperatorSound' /\ SnapshotSound' /\ ConsumedOnceInOrder'
  <1>1. /\ checkpoint' = None /\ UNCHANGED <<topic, flushed>> /\ began' = Len(flushed)
        /\ buffer' = <<>> /\ timer' = None
        /\ position' = Len(topic) /\ base' = Len(topic)
    BY DEF StartOver, NewAttempt
  <1>2. Len(topic) \in Nat
    BY LenProperties DEF JobInv, TypeOK
  <1>3. Timers(<<>>, timer', timers') /\ FromTopic(<<>>) /\ Numbered(<<>>, position')
    BY <1>1, NothingBuffered
  <1>4. OperatorSound'
    BY <1>1, <1>3 DEF OperatorSound, Sound, Timers, FromTopic, Numbered, Settled
  <1>5. AttemptInOrder'
    BY <1>1, <1>4, NothingFlushed DEF OperatorSound, Sound
  <1>6. NothingSkipped'
    <2>1. Settled(position, buffer)' = Len(topic)
      BY <1>1, <1>2, EmptySeq DEF Settled
    <2> QED
      BY <1>1, <1>2, <2>1 DEF NothingSkipped
  <1> QED
    BY <1>1, <1>4, <1>5, <1>6 DEF SnapshotSound, CheckpointedOnce, ConsumedOnceInOrder

\* A checkpoint records what the operator holds.
LEMMA CheckpointSound ==
  ASSUME JobInv, Checkpoint
  PROVE  OperatorSound' /\ SnapshotSound' /\ ConsumedOnceInOrder'
  <1>1. /\ UNCHANGED <<topic, buffer, timer, timers, flushed, position, base, began>>
        /\ checkpoint'.buffer = buffer /\ checkpoint'.timer = timer /\ checkpoint'.timers = timers
        /\ checkpoint'.position = position /\ checkpoint'.entries = Len(flushed)
    BY DEF Checkpoint, source, batcher
  <1>2. /\ Len(flushed) \in Nat /\ Len(buffer) \in Nat /\ position \in Nat /\ Len(topic) \in Nat
        /\ base \in 0..position /\ position <= Len(topic)
    BY LenProperties DEF JobInv, TypeOK
  <1>3. OperatorSound'
    BY <1>1 DEF JobInv, OperatorSound, Sound, Timers, FromTopic, Numbered, Settled
  <1>4. SnapshotSound'
    <2>1. checkpoint'.position \in base'..Len(topic') /\ checkpoint'.entries <= Len(flushed')
      BY <1>1, <1>2
    <2>2. Settled(checkpoint.position, checkpoint.buffer)' <= Settled(position, buffer)'
      BY <1>1, <1>2 DEF Settled
    <2>3. Sound(checkpoint.buffer, checkpoint.timer, checkpoint.timers, checkpoint.position)'
      BY <1>1, <1>3 DEF OperatorSound, Sound, Timers, FromTopic, Numbered, Settled
    <2> QED
      BY <2>1, <2>2, <2>3 DEF SnapshotSound
  <1>5. AttemptInOrder' /\ NothingSkipped'
    BY <1>1 DEF JobInv, ConsumedOnceInOrder, AttemptInOrder, NothingSkipped, Settled
  <1>6. CheckpointedOnce'
    <2>1. (checkpoint'.entries + 1)..Len(flushed') = {}
      BY <1>1, <1>2
    <2> QED
      BY <2>1 DEF CheckpointedOnce
  <1> QED
    BY <1>3, <1>4, <1>5, <1>6 DEF ConsumedOnceInOrder

LEMMA JobStep ==
  ASSUME JobInv, [Next]_vars
  PROVE  JobInv'
  <1>1. TypeOK'
    BY TypeStep DEF JobInv
  <1>2. ASSUME UNCHANGED <<topic, buffer, timer, timers, flushed, position, base, checkpoint, began>>
        PROVE  OperatorSound' /\ SnapshotSound' /\ ConsumedOnceInOrder'
    <2>1. OperatorSound' /\ SnapshotSound'
      BY <1>2
      DEF JobInv, OperatorSound, SnapshotSound, Sound, Timers, FromTopic, Numbered, Settled
    <2>2. ConsumedOnceInOrder'
      BY <1>2
      DEF JobInv, ConsumedOnceInOrder, AttemptInOrder, NothingSkipped, CheckpointedOnce, Settled
    <2> QED
      BY <2>1, <2>2
  <1>3. OperatorSound' /\ SnapshotSound' /\ ConsumedOnceInOrder'
    BY <1>2, ProduceSound, ProcessSound, TimerSound, CheckpointSound, RestoreSound, StartOverSound
    DEF Next, WindowStep, Elapse, PlaceMention, ArticleDone, AdvanceWatermark, FireWindow,
        vars, source, batcher, recovery
  <1>4. TopicNumbered'
    <2>1. ASSUME UNCHANGED topic PROVE TopicNumbered'
      BY <2>1 DEF JobInv, TopicNumbered
    <2> QED
      BY <2>1, ProduceSound
      DEF Next, WindowStep, Elapse, ProcessElement, OnTimer, PlaceMention, ArticleDone,
          AdvanceWatermark, FireWindow, Checkpoint, Restore, StartOver, NewAttempt, vars, source
  <1> QED
    BY <1>1, <1>3, <1>4 DEF JobInv

\* The running operator and its last checkpoint are sound in every state.
THEOREM JobInvariant == Spec => []JobInv
  <1>1. Init => JobInv
    <2> SUFFICES ASSUME Init PROVE JobInv
      OBVIOUS
    <2>1. TypeOK
      BY JobAssumption, JobBounds, EmptySeq DEF Init, TypeOK
    <2>2. TopicNumbered /\ SnapshotSound
      BY DEF Init, TopicNumbered, SnapshotSound
    <2>3. OperatorSound
      BY NothingBuffered DEF Init, OperatorSound, Sound
    <2>4. ConsumedOnceInOrder
      <3>1. Settled(0, <<>>) = 0
        BY SettledOfEmpty
      <3> QED
        BY <3>1, EmptySeq
        DEF Init, ConsumedOnceInOrder, AttemptInOrder, NothingSkipped, CheckpointedOnce
    <2> QED
      BY <2>1, <2>2, <2>3, <2>4 DEF JobInv
  <1>2. JobInv /\ [Next]_vars => JobInv'
    BY JobStep
  <1> QED
    BY <1>1, <1>2, PTL DEF Spec

\* Type correctness of the job.
THEOREM TypeCorrect == Spec => []TypeOK
  <1>1. JobInv => TypeOK
    BY DEF JobInv
  <1> QED
    BY <1>1, JobInvariant, PTL

\* Whatever cancellations fail and whenever the job is restored, a partial batch
\* has a timer that Flink holds.
THEOREM PartialBatchHasTimer == Spec => []BufferHasTimer
  <1>1. JobInv => BufferHasTimer
    BY DEF JobInv, OperatorSound, Sound, Timers, BufferHasTimer
  <1> QED
    BY <1>1, JobInvariant, PTL

\* Whatever fails and is restored, each attempt flushes a run of consecutive records,
\* a submission of the job skips none of those it read, and none that had left the
\* buffer at the last checkpoint is flushed again.
THEOREM RecordsAreConsumedOnce == Spec => []ConsumedOnceInOrder
  <1>1. JobInv => ConsumedOnceInOrder
    BY DEF JobInv
  <1> QED
    BY <1>1, JobInvariant, PTL

-----------------------------------------------------------------------------
(* Each attempt is an event-time window operator.                          *)

WindowsArrived == windows \subseteq arrived
ArrivalsKept   == \A x \in arrived : x \in windows \/ \E i \in DOMAIN results : results[i].key = x.key
ResultsClosed  == \A i \in DOMAIN results : Passed(results[i].key) /\ results[i].key \notin OpenKeys
InFlight       == \A a \in enriched : /\ a.id \in DOMAIN topic /\ a.ts = topic[a.id].ts
                                     /\ a.tickers \subseteq topic[a.id].tickers

AttemptInv == WindowsArrived /\ ArrivalsKept /\ ResultsClosed /\ InFlight

\* What a flush puts in flight comes from the topic.
LEMMA BatchInFlight ==
  ASSUME NEW pending, FromTopic(pending), InFlight, Flush(pending), UNCHANGED topic
  PROVE  InFlight'
  BY DEF FromTopic, InFlight, Flush, EnrichBatch

LEMMA InFlightStep ==
  ASSUME JobInv, AttemptInv, [Next]_vars
  PROVE  InFlight'
  <1>0. TypeOK /\ TopicNumbered /\ OperatorSound /\ InFlight
    BY DEF JobInv, AttemptInv
  <1>1. ASSUME UNCHANGED <<topic, enriched>> PROVE InFlight'
    BY <1>0, <1>1 DEF InFlight
  <1>2. ASSUME NEW ts \in EventTime, NEW tickers \in SUBSET Ticker, Produce(ts, tickers)
        PROVE  InFlight'
    <2>1. \A n \in DOMAIN topic : n \in DOMAIN topic' /\ topic'[n] = topic[n]
      BY <1>0, <1>2, TopicGrows
    <2> QED
      BY <1>0, <1>2, <2>1 DEF InFlight, Produce
  <1>3. ASSUME ProcessElement PROVE InFlight'
    <2>1. CASE Flush(Append(buffer, topic[position + 1]))
      BY <1>0, <1>3, <2>1, PendingFromTopic, BatchInFlight DEF ProcessElement
    <2>2. CASE UNCHANGED enriched
      BY <1>1, <1>3, <2>2 DEF ProcessElement
    <2> QED
      BY <1>3, <2>1, <2>2 DEF ProcessElement
  <1>4. ASSUME NEW t \in timers, OnTimer(t) PROVE InFlight'
    <2>1. CASE Flush(buffer)
      BY <1>0, <1>4, <2>1, BatchInFlight DEF OnTimer, source, OperatorSound, Sound
    <2>2. CASE UNCHANGED enriched
      BY <1>1, <1>4, <2>2 DEF OnTimer, source
    <2> QED
      BY <1>4, <2>1, <2>2 DEF OnTimer
  <1>5. ASSUME NEW a \in enriched, NEW t \in a.tickers, PlaceMention(a, t) PROVE InFlight'
    <2> DEFINE r == [id |-> a.id, ts |-> a.ts, tickers |-> a.tickers \ {t}]
    <2>1. enriched' = (enriched \ {a}) \cup {r} /\ UNCHANGED topic
      BY <1>5 DEF PlaceMention, source
    <2>2. r.id = a.id /\ r.ts = a.ts /\ r.tickers \subseteq a.tickers
      OBVIOUS
    <2> HIDE DEF r
    <2> QED
      BY <1>0, <2>1, <2>2 DEF InFlight
  <1>6. ASSUME NEW a \in enriched, ArticleDone(a) PROVE InFlight'
    BY <1>0, <1>6 DEF ArticleDone, InFlight, source
  <1>7. ASSUME Restore \/ StartOver PROVE InFlight'
    BY <1>7 DEF Restore, StartOver, NewAttempt, InFlight
  <1> QED
    BY <1>1, <1>2, <1>3, <1>4, <1>5, <1>6, <1>7
    DEF Next, WindowStep, Elapse, AdvanceWatermark, FireWindow, Checkpoint, vars, source

\* A mention opens no window that was fired, for it is not late for those it opens.
LEMMA PlaceKeeps ==
  ASSUME TypeOK, AttemptInv, NEW a \in enriched, NEW t \in a.tickers, PlaceMention(a, t)
  PROVE  WindowsArrived' /\ ArrivalsKept' /\ ResultsClosed'
  <1> DEFINE new == {[key |-> k, id |-> a.id] : k \in {x \in KeysOf(a, t) : ~ Passed(x)}}
  <1>1. windows' = windows \cup new /\ arrived' = arrived \cup new /\ UNCHANGED <<wm, results>>
    BY DEF PlaceMention
  <1>2. \A e \in new : ~ Passed(e.key)
    OBVIOUS
  <1> HIDE DEF new
  <1>3. WindowsArrived' /\ ArrivalsKept'
    BY <1>1 DEF AttemptInv, WindowsArrived, ArrivalsKept
  <1>4. ResultsClosed'
    BY <1>1, <1>2 DEF AttemptInv, ResultsClosed, OpenKeys, Passed
  <1> QED
    BY <1>3, <1>4

LEMMA FireKeeps ==
  ASSUME TypeOK, AttemptInv, NEW k \in Due, FireWindow(k)
  PROVE  WindowsArrived' /\ ArrivalsKept' /\ ResultsClosed'
  <1> DEFINE r == [key |-> k, ids |-> Contents(k)]
  <1>1. k \in Key /\ Contents(k) \subseteq 1..MaxRaw /\ Passed(k)
    BY DEF Due, OpenKeys, Contents, TypeOK, Entry
  <1>2. /\ results' = Append(results, r) /\ r.key = k
        /\ r \in [key : Key, ids : SUBSET (1..MaxRaw)]
        /\ windows' = {e \in windows : e.key # k} /\ UNCHANGED <<wm, arrived>>
    BY <1>1 DEF FireWindow
  <1> HIDE DEF r
  <1>3. /\ results' \in Seq([key : Key, ids : SUBSET (1..MaxRaw)])
        /\ Len(results') = Len(results) + 1
        /\ \A i \in 1..Len(results) : results'[i] = results[i]
        /\ results'[Len(results) + 1] = r
    BY <1>2, AppendProperties DEF TypeOK
  <1>4. /\ Len(results) \in Nat /\ DOMAIN results = 1..Len(results)
        /\ DOMAIN results' = 1..(Len(results) + 1)
    BY <1>3, LenProperties DEF TypeOK
  <1>5. WindowsArrived'
    BY <1>2 DEF AttemptInv, WindowsArrived
  <1>6. ArrivalsKept'
    BY <1>2, <1>3, <1>4 DEF AttemptInv, ArrivalsKept
  <1>7. ResultsClosed'
    BY <1>1, <1>2, <1>3, <1>4 DEF AttemptInv, ResultsClosed, OpenKeys, Passed
  <1> QED
    BY <1>5, <1>6, <1>7

LEMMA AdvanceKeeps ==
  ASSUME TypeOK, AttemptInv, AdvanceWatermark
  PROVE  wm' > wm /\ ResultsClosed'
  <1>1. wm' = maxTs - Delay - 1 /\ wm' > wm /\ UNCHANGED <<results, windows>>
    BY DEF AdvanceWatermark
  <1>2. wm \in Int /\ wm' \in Int
    <2>1. maxTs \in EventTime /\ EventTime \subseteq Int /\ Delay \in Nat
      BY JobAssumption DEF AdvanceWatermark, TypeOK
    <2> QED
      BY <1>1, <2>1 DEF TypeOK
  <1>3. ASSUME NEW i \in DOMAIN results PROVE Passed(results[i].key)'
    <2>1. results[i] \in [key : Key, ids : SUBSET (1..MaxRaw)]
      BY LenProperties, ElementOfSeq DEF TypeOK
    <2>2. results[i].key.window.end \in Int
      BY <2>1 DEF Key
    <2>3. results[i].key.window.end - 1 <= wm
      BY DEF AttemptInv, ResultsClosed, Passed
    <2> QED
      BY <1>1, <1>2, <2>2, <2>3 DEF Passed
  <1> QED
    BY <1>1, <1>3 DEF AttemptInv, ResultsClosed, OpenKeys

LEMMA AttemptStep ==
  ASSUME JobInv, AttemptInv, [Next]_vars
  PROVE  AttemptInv'
  <1>0. TypeOK
    BY DEF JobInv
  <1>1. ASSUME UNCHANGED <<windows, arrived, results, wm>>
        PROVE  WindowsArrived' /\ ArrivalsKept' /\ ResultsClosed'
    BY <1>1 DEF AttemptInv, WindowsArrived, ArrivalsKept, ResultsClosed, OpenKeys, Passed
  <1>2. ASSUME AdvanceWatermark
        PROVE  WindowsArrived' /\ ArrivalsKept' /\ ResultsClosed'
    BY <1>0, <1>2, AdvanceKeeps DEF AdvanceWatermark, AttemptInv, WindowsArrived, ArrivalsKept
  <1>3. ASSUME Restore \/ StartOver
        PROVE  WindowsArrived' /\ ArrivalsKept' /\ ResultsClosed'
    BY <1>3 DEF Restore, StartOver, NewAttempt, WindowsArrived, ArrivalsKept, ResultsClosed
  <1>4. WindowsArrived' /\ ArrivalsKept' /\ ResultsClosed'
    BY <1>0, <1>1, <1>2, <1>3, PlaceKeeps, FireKeeps
    DEF Next, WindowStep, Produce, Elapse, ProcessElement, OnTimer, ArticleDone, Checkpoint,
        vars, windowing
  <1> QED
    BY <1>4, InFlightStep DEF AttemptInv

LEMMA AttemptInvariant == Spec => [](JobInv /\ AttemptInv)
  <1>1. Init => AttemptInv
    BY DEF Init, AttemptInv, WindowsArrived, ArrivalsKept, ResultsClosed, InFlight
  <1>2. JobInv /\ AttemptInv /\ [Next]_vars => AttemptInv'
    BY AttemptStep
  <1> QED
    BY <1>1, <1>2, JobInvariant, PTL DEF Spec

\* The windows the abstract operator still owes are the open ones, with their contents.
LEMMA OpenIsWaiting ==
  ASSUME AttemptInv
  PROVE  /\ Operator!Waiting = OpenKeys
         /\ \A k \in OpenKeys : Operator!Elements(k) = Contents(k)
  <1>1. Operator!Waiting = {k \in {x.key : x \in arrived} : ~ \E i \in DOMAIN results : results[i].key = k}
    BY DEF Operator!Waiting, Operator!Emitted
  <1>2. ASSUME NEW k \in OpenKeys PROVE k \in Operator!Waiting
    <2>1. k \in {x.key : x \in arrived}
      BY DEF OpenKeys, AttemptInv, WindowsArrived
    <2> QED
      BY <1>1, <2>1 DEF AttemptInv, ResultsClosed
  <1>3. ASSUME NEW k \in Operator!Waiting PROVE k \in OpenKeys
    BY <1>1 DEF OpenKeys, AttemptInv, ArrivalsKept
  <1>4. ASSUME NEW k \in OpenKeys PROVE Operator!Elements(k) = Contents(k)
    <2>1. \A x \in arrived : x.key = k => x \in windows
      BY DEF AttemptInv, ArrivalsKept, ResultsClosed
    <2>2. {x \in arrived : x.key = k} = {x \in windows : x.key = k}
      BY <2>1 DEF AttemptInv, WindowsArrived
    <2> QED
      BY <2>2 DEF Operator!Elements, Contents
  <1> QED
    BY <1>2, <1>3, <1>4

LEMMA PlaceIsArrival ==
  ASSUME AttemptInv, NEW a \in enriched, NEW t \in a.tickers, PlaceMention(a, t)
  PROVE  \E n \in DOMAIN topic : \E tt \in topic[n].tickers : Operator!Arrive(n, topic[n].ts, {tt})
  <1>1. a.id \in DOMAIN topic /\ a.ts = topic[a.id].ts /\ t \in topic[a.id].tickers
    BY DEF AttemptInv, InFlight
  <1>2. Operator!KeysAt(a.ts, {t}) = KeysOf(a, t)
    BY DEF Operator!KeysAt, KeysOf, EventTimeOf, Operator!AssignWindows, Operator!AssignedStarts,
           Operator!WindowStartWithOffset, Operator!FloorMod, Operator!Window,
           AssignWindows, AssignedStarts, WindowStartWithOffset, FloorMod, Window
  <1>3. Operator!Arrive(a.id, a.ts, {t})
    BY <1>2 DEF Operator!Arrive, Operator!Closed, Passed, PlaceMention
  <1> QED
    BY <1>1, <1>3

LEMMA FireIsEmission ==
  ASSUME TypeOK, AttemptInv, NEW k \in Due, FireWindow(k)
  PROVE  Operator!EmitNext
  <1>1. k \in OpenKeys /\ Passed(k)
    BY DEF Due
  <1>2. ASSUME NEW o \in OpenKeys PROVE k.window.end <= o.window.end
    <2>1. k.window.end \in Int /\ o.window.end \in Int /\ wm \in Int
      <3>1. k \in Key /\ o \in Key
        BY <1>1 DEF OpenKeys, TypeOK, Entry
      <3> QED
        BY <3>1 DEF Key, TypeOK
    <2>2. CASE o \in Due
      BY <2>2 DEF FireWindow
    <2>3. CASE o \notin Due
      BY <1>1, <2>1, <2>3 DEF Due, Passed
    <2> QED
      BY <2>2, <2>3
  <1>3. Operator!Emit(k)
    BY <1>1, <1>2, OpenIsWaiting DEF Operator!Emit, Operator!Closed, Passed, FireWindow
  <1> QED
    BY <1>1, <1>3, OpenIsWaiting DEF Operator!EmitNext

\* Between two restarts the job, with its batching, its timer and Flink's lazy
\* watermark, takes only steps of the abstract event-time window operator.
THEOREM AttemptsAreWindowOperators == Spec => AttemptIsWindowOperator
  <1> DEFINE Step ==
        \/ restarts' # restarts
        \/ UNCHANGED <<arrived, wm, results>>
        \/ \E n \in DOMAIN topic : \E t \in topic[n].tickers :
             Operator!Arrive(n, topic[n].ts, {t})
        \/ Operator!AdvanceTo(wm')
        \/ Operator!EmitNext
  <1>1. ASSUME JobInv, AttemptInv, [Next]_vars PROVE Step
    <2>0. TypeOK
      BY <1>1 DEF JobInv
    <2>1. ASSUME AdvanceWatermark PROVE Operator!AdvanceTo(wm')
      BY <1>1, <2>0, <2>1, AdvanceKeeps DEF AdvanceWatermark, Operator!AdvanceTo
    <2>2. ASSUME Restore \/ StartOver PROVE restarts' # restarts
      BY <2>0, <2>2, NewAttemptType DEF Restore, StartOver
    <2> QED
      BY <1>1, <2>0, <2>1, <2>2, PlaceIsArrival, FireIsEmission
      DEF Next, WindowStep, Produce, Elapse, ProcessElement, OnTimer, ArticleDone, Checkpoint,
          vars, windowing
  <1>2. JobInv /\ AttemptInv /\ [Next]_vars => [Step]_vars
    BY <1>1
  <1> QED
    BY <1>2, AttemptInvariant, PTL DEF Spec, AttemptIsWindowOperator
=============================================================================
