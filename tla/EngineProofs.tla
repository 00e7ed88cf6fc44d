---------------------------- MODULE EngineProofs ----------------------------
(***************************************************************************)
(* Theorems about the lite stream engine and the two programs that run it, *)
(* for every window geometry, batch size, watermark delay, set of articles *)
(* and number of crashes: what window assignment returns (Windows), what   *)
(* the engine promises (StreamEngine), what the committed offset promises  *)
(* (LiteProcessor), and what the node's threads, bus and simulations hand  *)
(* to the engine (Standalone).                                             *)
(***************************************************************************)
EXTENDS LiteProcessor, Standalone, TLAPS, FiniteSetTheorems, SequenceTheorems

-----------------------------------------------------------------------------
(* Windows: facts about sliding window assignment for every size, slide,   *)
(* offset and timestamp.                                                   *)

\* The quotient brackets the dividend; every other fact about floored division
\* used below follows from it.
LEMMA Quotient ==
  ASSUME NEW a \in Int, NEW b \in Nat \ {0}
  PROVE  /\ a \div b \in Int
         /\ (a \div b) * b \in Int
         /\ (a \div b) * b <= a
         /\ a < (a \div b) * b + b
  OBVIOUS

\* A product with a positive factor is monotone in the other one.
LEMMA ProductMonotone ==
  ASSUME NEW i \in Int, NEW j \in Int, NEW b \in Nat \ {0}, i < j
  PROVE  i * b + b <= j * b
  <1>1. j - i \in Nat \ {0}
    OBVIOUS
  <1>2. (j - i) * b >= b
    BY <1>1
  <1> QED
    BY <1>2

\* The last window start is the aligned start at or before the timestamp.
LEMMA LastStart ==
  ASSUME NEW ts \in Int, NEW offset \in Int, NEW slide \in Nat \ {0}
  PROVE  LET last == WindowStartWithOffset(ts, offset, slide)
         IN  /\ last \in Int
             /\ last = offset + ((ts - offset) \div slide) * slide
             /\ last <= ts
             /\ ts < last + slide
  BY Quotient DEF WindowStartWithOffset, FloorMod

LEMMA AssignedInt ==
  ASSUME NEW ts \in Int, NEW offset \in Int, NEW size \in Nat \ {0}, NEW slide \in Nat \ {0}
  PROVE  AssignedStarts(ts, size, slide, offset) \subseteq Int
  <1> DEFINE last == WindowStartWithOffset(ts, offset, slide)
  <1>1. last \in Int
    BY LastStart
  <1>2. AssignedStarts(ts, size, slide, offset) \subseteq {last - i * slide : i \in 0..size}
    BY DEF AssignedStarts
  <1> HIDE DEF last
  <1> QED
    BY <1>1, <1>2

\* assign_windows returns exactly the windows of the grid (starts congruent to
\* the offset modulo the slide) that contain the timestamp: none is missed and
\* none is invented, whatever the size, the slide and the sign of the timestamp.
THEOREM AssignmentIsTheGrid ==
  ASSUME NEW ts \in Int, NEW offset \in Int,
         NEW size \in Nat \ {0}, NEW slide \in Nat \ {0},
         NEW s \in Int
  PROVE  s \in AssignedStarts(ts, size, slide, offset)
         <=> /\ \E k \in Int : s = offset + k * slide
             /\ s <= ts
             /\ ts < s + size
  <1> DEFINE q == (ts - offset) \div slide
             last == WindowStartWithOffset(ts, offset, slide)
  <1>0. /\ q \in Int
        /\ last \in Int
        /\ last = offset + q * slide
        /\ last <= ts
        /\ ts < last + slide
    BY LastStart, Quotient
  <1>1. AssignedStarts(ts, size, slide, offset)
          = {x \in {last - i * slide : i \in 0..size} : x > ts - size}
    BY DEF AssignedStarts
  <1> HIDE DEF q, last
  <1>2. ASSUME s \in AssignedStarts(ts, size, slide, offset)
        PROVE  /\ \E k \in Int : s = offset + k * slide
               /\ s <= ts
               /\ ts < s + size
    <2>1. PICK i \in 0..size : s = last - i * slide /\ s > ts - size
      BY <1>1, <1>2
    <2>2. i * slide \in Nat
      OBVIOUS
    <2>3. s <= ts /\ ts < s + size
      BY <1>0, <2>1, <2>2
    <2>4. \E k \in Int : s = offset + k * slide
      <3>1. q - i \in Int
        BY <1>0
      <3>2. s = offset + (q - i) * slide
        BY <1>0, <2>1, <2>2
      <3> QED
        BY <3>1, <3>2, Zenon
    <2> QED
      BY <2>3, <2>4
  <1>3. ASSUME NEW k \in Int, s = offset + k * slide, s <= ts, ts < s + size
        PROVE  s \in AssignedStarts(ts, size, slide, offset)
    <2> DEFINE i == q - k
    <2>1. ~ (q < k)
      <3>1. ASSUME q < k PROVE FALSE
        <4>1. q * slide + slide <= k * slide
          BY <1>0, <3>1, ProductMonotone
        <4> QED
          BY <4>1, <1>0, <1>3
      <3> QED
        BY <3>1
    <2>2. i \in Nat
      BY <2>1, <1>0
    <2>3. s = last - i * slide
      BY <1>0, <1>3, <2>2
    <2>4. i * slide < size
      <3>1. i * slide = last - s
        BY <2>3, <1>0, <2>2
      <3> QED
        BY <3>1, <1>0, <1>3
    <2>5. i <= i * slide
      <3>1. i * (slide - 1) >= 0
        BY <2>2
      <3> QED
        BY <3>1, <2>2
    <2>6. i \in 0..size
      BY <2>2, <2>4, <2>5
    <2>7. s > ts - size
      BY <1>3
    <2> HIDE DEF i
    <2> QED
      BY <1>1, <2>3, <2>6, <2>7
  <1> QED
    BY <1>2, <1>3

\* A timestamp lies inside every window it is assigned to, so a window can be
\* late for an element only when its end is behind the watermark, never because
\* the assignment placed the element outside it.
THEOREM AssignedWindowsContain ==
  ASSUME NEW ts \in Int, NEW offset \in Int,
         NEW size \in Nat \ {0}, NEW slide \in Nat \ {0},
         NEW w \in AssignWindows(ts, size, slide, offset)
  PROVE  /\ w.start \in Int /\ w.end \in Int
         /\ w.end = w.start + size
         /\ w.start <= ts /\ ts < w.end
  <1>1. PICK s \in AssignedStarts(ts, size, slide, offset) : w = Window(s, size)
    BY DEF AssignWindows
  <1>2. s \in Int
    BY AssignedInt
  <1>3. s <= ts /\ ts < s + size
    BY <1>2, AssignmentIsTheGrid
  <1> QED
    BY <1>1, <1>2, <1>3 DEF Window

\* When the slide does not exceed the size, the latest window of a timestamp
\* starts at most slide - 1 before it: its end is beyond ts + size - slide.  The
\* lateness arithmetic of ingestion (clamping) and of the simulate path rests on it.
THEOREM LatestWindowReach ==
  ASSUME NEW ts \in Int, NEW offset \in Int,
         NEW size \in Nat \ {0}, NEW slide \in Nat \ {0}, slide <= size
  PROVE  \E w \in AssignWindows(ts, size, slide, offset) : w.end > ts + size - slide
  <1> DEFINE q == (ts - offset) \div slide
             last == WindowStartWithOffset(ts, offset, slide)
  <1>1. /\ q \in Int
        /\ last \in Int
        /\ last = offset + q * slide
        /\ last <= ts
        /\ ts < last + slide
    BY LastStart, Quotient
  <1> HIDE DEF q, last
  <1>2. last \in AssignedStarts(ts, size, slide, offset)
    <2>1. \E k \in Int : last = offset + k * slide
      BY <1>1
    <2> QED
      BY <1>1, <2>1, AssignmentIsTheGrid
  <1>3. Window(last, size).end = last + size
    BY DEF Window
  <1> QED
    BY <1>1, <1>2, <1>3 DEF AssignWindows

\* The earliest window of a timestamp ends after it and at most one slide later:
\* that far the watermark has to move before the element shows up in a result.
THEOREM EarliestWindowEnd ==
  ASSUME NEW ts \in Int, NEW offset \in Int,
         NEW size \in Nat \ {0}, NEW slide \in Nat \ {0}, slide <= size
  PROVE  \E w \in AssignWindows(ts, size, slide, offset) : ts < w.end /\ w.end <= ts + slide
  <1> DEFINE d == ts - size - offset
             q == d \div slide
             s == offset + (q + 1) * slide
  <1>1. d \in Int
    OBVIOUS
  <1> HIDE DEF d
  <1>2. q \in Int /\ q * slide \in Int /\ q * slide <= d /\ d < q * slide + slide
    BY <1>1, Quotient
  <1> HIDE DEF q
  <1>3. (q + 1) * slide = q * slide + slide
    BY <1>2
  <1>4. s \in Int /\ s > ts - size /\ s <= ts - size + slide
    BY <1>2, <1>3 DEF d
  <1>5. \E k \in Int : s = offset + k * slide
    BY <1>2
  <1> HIDE DEF s
  <1>6. s \in AssignedStarts(ts, size, slide, offset)
    BY <1>4, <1>5, AssignmentIsTheGrid
  <1>7. Window(s, size).end = s + size
    BY DEF Window
  <1> QED
    BY <1>4, <1>6, <1>7 DEF AssignWindows

-----------------------------------------------------------------------------
(* StreamEngine.                                                           *)

(* Facts about the operators the engine is built from.                     *)

LEMMA CountUpTo ==
  ASSUME NEW n \in Nat
  PROVE  IsFiniteSet(1..n) /\ Cardinality(1..n) = n
  <1>1. 1 \in Int /\ n \in Int
    OBVIOUS
  <1>2. IsFiniteSet(1..n) /\ Cardinality(1..n) = IF 1 > n THEN 0 ELSE n - 1 + 1
    BY <1>1, FS_Interval, Zenon
  <1> QED
    BY <1>2

\* What a batch holds is finite and no larger than the batch.
LEMMA BatchFinite ==
  ASSUME NEW pending \in Seq(Article), NEW e \in SUBSET {pending[i] : i \in DOMAIN pending}
  PROVE  /\ e \subseteq Article
         /\ IsFiniteSet(e)
         /\ Cardinality(e) \in Nat
         /\ Len(pending) - Cardinality(e) \in Nat
  <1> DEFINE R == {pending[i] : i \in DOMAIN pending}
  <1>1. Len(pending) \in Nat /\ DOMAIN pending = 1..Len(pending)
    BY LenProperties
  <1>2. IsFiniteSet(1..Len(pending)) /\ Cardinality(1..Len(pending)) = Len(pending)
    BY <1>1, CountUpTo
  <1>3. pending \in Surjection(1..Len(pending), R)
    BY <1>1 DEF Surjection
  <1> HIDE DEF R
  <1>5. IsFiniteSet(R) /\ Cardinality(R) <= Len(pending)
    BY <1>2, <1>3, FS_Surjection
  <1>6. R \subseteq Article
    BY <1>1 DEF R
  <1>7. IsFiniteSet(e) /\ Cardinality(e) <= Cardinality(R)
    BY <1>5, FS_Subset DEF R
  <1>8. Cardinality(e) \in Nat /\ Cardinality(R) \in Nat
    BY <1>5, <1>7, FS_CardinalityType
  <1> QED
    BY <1>1, <1>5, <1>6, <1>7, <1>8 DEF R

\* The windows of an article are keys, and each lies around its timestamp.
LEMMA KeysAroundTimestamp ==
  ASSUME NEW a \in Article, NEW k \in KeysOf(a)
  PROVE  /\ k \in Key
         /\ k.ticker \in a.tickers
         /\ k.window.end \in Int
         /\ k.window.start <= a.ts /\ a.ts < k.window.end
  <1>1. a.ts \in Int /\ a.tickers \subseteq Ticker
    BY ValueAssumption DEF Article
  <1>2. PICK t \in a.tickers, w \in AssignWindows(a.ts, Size, Slide, 0) :
               k = [ticker |-> t, window |-> w]
    BY DEF KeysOf
  <1>3. /\ w.start \in Int /\ w.end \in Int
        /\ w.start <= a.ts /\ a.ts < w.end
    <2>1. 0 \in Int /\ Size \in Nat \ {0} /\ Slide \in Nat \ {0}
      BY GeometryAssumption
    <2> QED
      BY <1>1, <1>2, <2>1, AssignedWindowsContain, Zenon
  <1>4. w \in [start : Int, end : Int]
    <2>1. PICK s \in AssignedStarts(a.ts, Size, Slide, 0) : w = [start |-> s, end |-> s + Size]
      BY <1>2 DEF AssignWindows, Window
    <2> QED
      BY <1>3, <2>1
  <1> QED
    BY <1>1, <1>2, <1>3, <1>4 DEF Key

\* An article mentions finitely many tickers.
LEMMA MentionCount ==
  ASSUME NEW a \in Article
  PROVE  Cardinality(a.tickers) \in Nat
  BY FS_Subset, FS_CardinalityType, ValueAssumption DEF Article

-----------------------------------------------------------------------------
(* Type correctness.                                                       *)

LEMMA BumpType ==
  ASSUME NEW s \in Stats, NEW inc, \A c \in DOMAIN inc : inc[c] \in Nat
  PROVE  Bump(s, inc) \in Stats
  BY DEF Bump, Stats

LEMMA FlushType ==
  ASSUME TypeOK, NEW pending \in Seq(Article), NEW s \in Stats, Flush(pending, s)
  PROVE  TypeOK'
  <1>1. PICK e \in SUBSET {pending[i] : i \in DOMAIN pending} :
          /\ batch' = e
          /\ stats' = Bump(s, [batches |-> 1, enriched |-> Cardinality(e),
                               enrich_dropped |-> Len(pending) - Cardinality(e)])
    BY DEF Flush
  <1>2. /\ e \subseteq Article
        /\ Cardinality(e) \in Nat
        /\ Len(pending) - Cardinality(e) \in Nat
    BY BatchFinite
  <1>3. stats' \in Stats
    BY <1>1, <1>2, BumpType
  <1>4. buffer' \in Seq(Article)
    BY EmptySeq DEF Flush
  <1> QED
    BY <1>1, <1>2, <1>3, <1>4 DEF Flush, TypeOK

LEMMA SideEffectsType ==
  ASSUME NEW s \in Stats, NEW n \in Nat, SideEffects(s, n)
  PROVE  stats' \in Stats
  <1>1. PICK e \in 0..n : stats' = Bump(s, [stage_errors |-> e])
    BY DEF SideEffects
  <1> QED
    BY <1>1, BumpType

LEMMA OfferType ==
  ASSUME TypeOK, NEW a \in Article, Offer(a)
  PROVE  TypeOK'
  <1>1. Append(buffer, a) \in Seq(Article)
    BY DEF TypeOK
  <1>2. CountRaw \in Stats
    BY BumpType DEF TypeOK, CountRaw
  <1>3. CASE BufferArticle(a)
    <2>1. flushIn' \in 0..BatchTimeout \cup {None}
      BY <1>3, BatchAssumption DEF BufferArticle, TypeOK
    <2> QED
      BY <1>1, <1>2, <1>3, <2>1 DEF BufferArticle, TypeOK
  <1>4. CASE FillBatch(a)
    BY <1>1, <1>2, <1>4, FlushType DEF FillBatch
  <1> QED
    BY <1>3, <1>4 DEF Offer

LEMMA ElapseType ==
  ASSUME TypeOK, Elapse
  PROVE  TypeOK'
  <1>1. flushIn' \in 0..BatchTimeout
    BY BatchAssumption DEF Elapse, TypeOK
  <1> QED
    BY <1>1 DEF Elapse, TypeOK

LEMMA TickType ==
  ASSUME TypeOK, NEW expired, TickAt(expired)
  PROVE  TypeOK'
  <1>1. CASE buffer = <<>>
    BY <1>1 DEF TickAt, TypeOK
  <1>2. CASE buffer # <<>>
    <2>1. Flush(buffer, stats)
      BY <1>2 DEF TickAt
    <2> QED
      BY <2>1, FlushType DEF TypeOK
  <1> QED
    BY <1>1, <1>2

LEMMA FlushStepType ==
  ASSUME TypeOK, FlushStep
  PROVE  TypeOK'
  <1>1. ASSUME NEW a \in batch, PlaceArticle(a) PROVE TypeOK'
    <2>1. a \in Article
      BY <1>1 DEF TypeOK
    <2> DEFINE onTime == {k \in KeysOf(a) : ~ Passed(k.window, watermark)}
    <2>2. onTime \subseteq Key
      BY <2>1, KeysAroundTimestamp
    <2>3. PlaceIn(a, onTime, watermark)
      BY <1>1 DEF PlaceArticle
    <2> HIDE DEF onTime
    <2>4. stats' \in Stats
      <3> DEFINE inc == [mentions     |-> Cardinality(a.tickers),
                         late_dropped |-> IF onTime = {} THEN Cardinality(a.tickers) ELSE 0]
      <3>1. \A c \in DOMAIN inc : inc[c] \in Nat
        BY <2>1, MentionCount
      <3>2. SideEffects(Bump(stats, inc), 2)
        BY <2>3 DEF PlaceIn
      <3> HIDE DEF inc
      <3>3. Bump(stats, inc) \in Stats
        BY <3>1, BumpType DEF TypeOK
      <3> QED
        BY <3>2, <3>3, SideEffectsType
    <2>5. a.id \in Nat /\ a.ts \in EventTime
      BY <2>1, BoundAssumption DEF Article
    <2>6. windows' \subseteq [key : Key, id : Nat]
      BY <2>2, <2>3, <2>5 DEF PlaceIn, TypeOK
    <2>7. maxTs' \in EventTime \cup {None}
      BY <2>3, <2>5 DEF PlaceIn, TypeOK, Later
    <2>8. judged' \subseteq JudgedRecord
      BY <2>1, <2>3 DEF PlaceIn, TypeOK, JudgedRecord
    <2>9. batch' \subseteq Article /\ watermark' \in Int
      BY <2>3 DEF PlaceIn, TypeOK
    <2> QED
      BY <2>3, <2>4, <2>6, <2>7, <2>8, <2>9 DEF PlaceIn, TypeOK
  <1>2. ASSUME AdvanceWatermark PROVE TypeOK'
    <2>1. watermark' \in Int
      BY <1>2, ValueAssumption, GeometryAssumption DEF AdvanceWatermark, TypeOK
    <2>2. phase' \in {"idle", "placing", "firing"}
      BY <1>2 DEF AdvanceWatermark
    <2> QED
      BY <1>2, <2>1, <2>2 DEF AdvanceWatermark, TypeOK
  <1>3. ASSUME NEW k \in Due, FireWindow(k) PROVE TypeOK'
    <2>1. FireLeaving(k, {m \in windows : m.key # k})
      BY <1>3 DEF FireWindow
    <2>2. k \in Key
      BY DEF Due, OpenKeys, TypeOK
    <2>3. Contents(k) \subseteq Nat
      BY DEF Contents, TypeOK
    <2>4. fired' \in Seq([key : Key, ids : SUBSET Nat])
      BY <2>1, <2>2, <2>3 DEF FireLeaving, TypeOK
    <2>5. stats' \in Stats
      <3>1. Bump(stats, [windows_fired |-> 1]) \in Stats
        BY BumpType DEF TypeOK
      <3> QED
        BY <2>1, <3>1, SideEffectsType DEF FireLeaving
    <2>6. windows' \subseteq [key : Key, id : Nat]
      BY <2>1 DEF FireLeaving, TypeOK
    <2> QED
      BY <2>1, <2>4, <2>5, <2>6 DEF FireLeaving, TypeOK
  <1>4. ASSUME FlushDone PROVE TypeOK'
    BY <1>4 DEF FlushDone, TypeOK
  <1> QED
    BY <1>1, <1>2, <1>3, <1>4 DEF FlushStep

LEMMA StutterType ==
  ASSUME TypeOK, UNCHANGED vars
  PROVE  TypeOK'
  BY DEF vars, engineVars, TypeOK

LEMMA InitType ==
  ASSUME Init
  PROVE  TypeOK
  <1>1. stats \in Stats
    BY DEF Init, InitEngine, Stats, Counter
  <1>2. buffer \in Seq(Article) /\ fired \in Seq([key : Key, ids : SUBSET Nat])
    BY EmptySeq DEF Init, InitEngine
  <1> QED
    BY <1>1, <1>2, ValueAssumption DEF Init, InitEngine, TypeOK

LEMMA TypeStep ==
  ASSUME TypeOK, [Next]_vars
  PROVE  TypeOK'
  <1>1. CASE OfferNext
    <2>1. PICK ts \in EventTime, T \in SUBSET Ticker :
            /\ stats.raw_in < MaxRaw
            /\ Offer([id |-> stats.raw_in + 1, ts |-> ts, tickers |-> T])
      BY <1>1 DEF OfferNext
    <2> DEFINE a == [id |-> stats.raw_in + 1, ts |-> ts, tickers |-> T]
    <2>2. a \in Article
      <3>1. stats.raw_in \in Nat
        BY DEF TypeOK, Stats, Counter
      <3> QED
        BY <2>1, <3>1, BoundAssumption DEF Article
    <2> QED
      BY <2>1, <2>2, OfferType
  <1> QED
    BY <1>1, ElapseType, TickType, FlushStepType, StutterType DEF Next, Tick

\* Every variable keeps its type: no sequence of offers, ticks and flushes, and
\* no failing sink or enrichment outage, takes the engine outside it.
THEOREM TypeCorrect == Spec => []TypeOK
  <1>1. Init => TypeOK
    BY InitType
  <1>2. TypeOK /\ [Next]_vars => TypeOK'
    BY TypeStep
  <1> QED
    BY <1>1, <1>2, PTL DEF Spec

-----------------------------------------------------------------------------
(* Firing order.                                                           *)

\* The watermark is past every window that has fired, ...
FiredIsPast == \A i \in DOMAIN fired : Passed(fired[i].key.window, watermark)

\* ... and a window that is still open has not fired and ends no earlier than any
\* that has.
FiredBeforeOpen ==
  \A i \in DOMAIN fired : \A k \in OpenKeys :
    /\ fired[i].key # k
    /\ fired[i].key.window.end <= k.window.end

OrderInv ==
  /\ NothingDueWhenIdle
  /\ FiredIsPast
  /\ FiredBeforeOpen
  /\ FiresAtMostOnce
  /\ FiresInEventTimeOrder

LEMMA KeyWindow ==
  ASSUME NEW k \in Key
  PROVE  k.window.start \in Int /\ k.window.end \in Int
  BY DEF Key

LEMMA FiredKeys ==
  ASSUME TypeOK, NEW i \in DOMAIN fired
  PROVE  fired[i].key \in Key
  <1>1. fired \in Seq([key : Key, ids : SUBSET Nat])
    BY DEF TypeOK
  <1>2. fired[i] \in [key : Key, ids : SUBSET Nat]
    BY <1>1, LenProperties, ElementOfSeq
  <1> QED
    BY <1>2

\* Placing an article opens no window that the watermark has passed.
LEMMA PlaceOpens ==
  ASSUME TypeOK, NEW a \in batch, PlaceArticle(a)
  PROVE  \A k \in OpenKeys' :
           k \in Key /\ (k \in OpenKeys \/ ~ Passed(k.window, watermark))
  <1> DEFINE onTime == {k \in KeysOf(a) : ~ Passed(k.window, watermark)}
  <1>1. a \in Article
    BY DEF TypeOK
  <1>2. onTime \subseteq Key
    BY <1>1, KeysAroundTimestamp
  <1>3. windows' = windows \cup {[key |-> k, id |-> a.id] : k \in onTime}
    BY DEF PlaceArticle, PlaceIn
  <1>4. \A k \in onTime : ~ Passed(k.window, watermark)
    OBVIOUS
  <1> HIDE DEF onTime
  <1> QED
    BY <1>2, <1>3, <1>4 DEF OpenKeys, TypeOK

\* A step that leaves windows, watermark and results alone keeps the invariant
\* unless it ends a flush with a due window still open.
LEMMA OrderFrame ==
  ASSUME OrderInv, UNCHANGED <<windows, watermark, fired>>,
         phase' # "firing" => \A k \in OpenKeys : ~ Passed(k.window, watermark)
  PROVE  OrderInv'
  <1>1. OpenKeys' = OpenKeys
    BY DEF OpenKeys
  <1> QED
    BY <1>1 DEF OrderInv, NothingDueWhenIdle, FiredIsPast, FiredBeforeOpen,
                FiresAtMostOnce, FiresInEventTimeOrder

LEMMA OrderPlace ==
  ASSUME TypeOK, OrderInv, NEW a \in batch, PlaceArticle(a)
  PROVE  OrderInv'
  <1>1. phase = "placing" /\ UNCHANGED <<phase, watermark, fired>>
    BY DEF PlaceArticle, PlaceIn
  <1>2. \A k \in OpenKeys' : k \in Key /\ (k \in OpenKeys \/ ~ Passed(k.window, watermark))
    BY PlaceOpens
  <1>3. NothingDueWhenIdle'
    BY <1>1, <1>2 DEF OrderInv, NothingDueWhenIdle
  <1>4. FiredBeforeOpen'
    <2> SUFFICES ASSUME NEW i \in DOMAIN fired, NEW k \in OpenKeys'
                 PROVE  fired[i].key # k /\ fired[i].key.window.end <= k.window.end
      BY <1>1 DEF FiredBeforeOpen
    <2>1. CASE k \in OpenKeys
      BY <2>1 DEF OrderInv, FiredBeforeOpen
    <2>2. CASE ~ Passed(k.window, watermark)
      <3>1. Passed(fired[i].key.window, watermark)
        BY DEF OrderInv, FiredIsPast
      <3>2. fired[i].key \in Key /\ k \in Key
        BY <1>2, FiredKeys
      <3> QED
        BY <2>2, <3>1, <3>2, KeyWindow DEF Passed, TypeOK
    <2> QED
      BY <1>2, <2>1, <2>2
  <1> QED
    BY <1>1, <1>3, <1>4 DEF OrderInv, FiredIsPast, FiresAtMostOnce, FiresInEventTimeOrder

LEMMA OrderAdvance ==
  ASSUME TypeOK, OrderInv, AdvanceWatermark
  PROVE  OrderInv'
  <1>1. CASE UNCHANGED watermark /\ phase' = "idle"
    BY <1>1, OrderFrame DEF AdvanceWatermark, OrderInv, NothingDueWhenIdle
  <1>2. CASE watermark' > watermark /\ phase' = "firing"
    <2>1. UNCHANGED <<windows, fired>> /\ OpenKeys' = OpenKeys
      BY DEF AdvanceWatermark, OpenKeys
    <2>2. watermark' \in Int
      BY TypeStep DEF TypeOK, Next, FlushStep
    <2>3. FiredIsPast'
      <3> SUFFICES ASSUME NEW i \in DOMAIN fired
                   PROVE  fired[i].key.window.end - 1 <= watermark'
        BY <2>1 DEF FiredIsPast, Passed
      <3>1. fired[i].key.window.end \in Int
        BY KeyWindow, FiredKeys
      <3>2. fired[i].key.window.end - 1 <= watermark
        BY DEF OrderInv, FiredIsPast, Passed
      <3> QED
        BY <1>2, <2>2, <3>1, <3>2 DEF TypeOK
    <2> QED
      BY <1>2, <2>1, <2>3 DEF OrderInv, NothingDueWhenIdle, FiredBeforeOpen,
                              FiresAtMostOnce, FiresInEventTimeOrder
  <1> QED
    BY <1>1, <1>2, GeometryAssumption, ValueAssumption DEF AdvanceWatermark, TypeOK

\* Firing appends the popped window to the results and closes it.
LEMMA FireAppends ==
  ASSUME TypeOK, NEW k \in Due, FireWindow(k)
  PROVE  /\ k \in Key /\ k \in OpenKeys
         /\ DOMAIN fired = 1..Len(fired) /\ Len(fired) \in Nat
         /\ DOMAIN fired' = 1..(Len(fired) + 1)
         /\ fired'[Len(fired) + 1] = [key |-> k, ids |-> Contents(k)]
         /\ \A i \in 1..Len(fired) : fired'[i] = fired[i]
         /\ \A o \in OpenKeys' : o \in OpenKeys /\ o # k
  <1>1. k \in OpenKeys
    BY DEF Due
  <1>2. k \in Key
    BY <1>1 DEF OpenKeys, TypeOK
  <1>3. [key |-> k, ids |-> Contents(k)] \in [key : Key, ids : SUBSET Nat]
    BY <1>2 DEF Contents, TypeOK
  <1>4. fired' = Append(fired, [key |-> k, ids |-> Contents(k)])
    BY DEF FireWindow, FireLeaving
  <1>5. windows' = {m \in windows : m.key # k}
    BY DEF FireWindow, FireLeaving
  <1>6. \A o \in OpenKeys' : o \in OpenKeys /\ o # k
    BY <1>5 DEF OpenKeys
  <1>7. fired \in Seq([key : Key, ids : SUBSET Nat])
    BY DEF TypeOK
  <1>8. /\ DOMAIN fired = 1..Len(fired) /\ Len(fired) \in Nat
    BY <1>7, LenProperties
  <1>9. /\ Len(fired') = Len(fired) + 1
        /\ fired' \in Seq([key : Key, ids : SUBSET Nat])
        /\ \A i \in 1..Len(fired) : fired'[i] = fired[i]
        /\ fired'[Len(fired) + 1] = [key |-> k, ids |-> Contents(k)]
    BY <1>3, <1>4, <1>7, AppendProperties
  <1>10. DOMAIN fired' = 1..(Len(fired) + 1)
    BY <1>9, LenProperties
  <1> QED
    BY <1>1, <1>2, <1>6, <1>8, <1>9, <1>10

LEMMA OrderFire ==
  ASSUME TypeOK, OrderInv, NEW k \in Due, FireWindow(k)
  PROVE  OrderInv'
  <1> DEFINE n == Len(fired) + 1
  <1>1. /\ k \in Key /\ k \in OpenKeys
        /\ Len(fired) \in Nat
        /\ DOMAIN fired = 1..Len(fired)
        /\ DOMAIN fired' = 1..n
        /\ fired'[n] = [key |-> k, ids |-> Contents(k)]
        /\ \A i \in 1..Len(fired) : fired'[i] = fired[i]
        /\ \A o \in OpenKeys' : o \in OpenKeys /\ o # k
    BY FireAppends, Zenon
  <1>2. phase = "firing" /\ UNCHANGED <<phase, watermark>>
    BY DEF FireWindow, FireLeaving
  <1> HIDE DEF n
  <1>3. n \in Nat /\ \A i \in 1..n : i \in DOMAIN fired \/ i = n
    BY <1>1 DEF n
  <1>4. n \notin DOMAIN fired /\ \A i \in DOMAIN fired : i < n
    BY <1>1 DEF n
  <1>5. \A i \in DOMAIN fired : fired[i].key # k /\ fired[i].key.window.end <= k.window.end
    BY <1>1 DEF OrderInv, FiredBeforeOpen
  <1>6. FiredIsPast'
    BY <1>1, <1>2, <1>3 DEF OrderInv, FiredIsPast, Due
  <1>7. FiresAtMostOnce'
    BY <1>1, <1>3, <1>5 DEF OrderInv, FiresAtMostOnce
  <1>8. FiresInEventTimeOrder'
    <2> SUFFICES ASSUME NEW i \in 1..n, NEW j \in 1..n, i < j
                 PROVE  fired'[i].key.window.end <= fired'[j].key.window.end
      BY <1>1 DEF FiresInEventTimeOrder
    <2>1. i \in DOMAIN fired
      BY <1>1, <1>3 DEF n
    <2>2. CASE j = n
      BY <1>1, <1>5, <2>1, <2>2
    <2>3. CASE j \in DOMAIN fired
      BY <1>1, <2>1, <2>3 DEF OrderInv, FiresInEventTimeOrder
    <2> QED
      BY <1>3, <2>2, <2>3
  <1>9. FiredBeforeOpen'
    <2> SUFFICES ASSUME NEW i \in 1..n, NEW o \in OpenKeys, o \in OpenKeys', o # k
                 PROVE  fired'[i].key # o /\ fired'[i].key.window.end <= o.window.end
      BY <1>1 DEF FiredBeforeOpen
    <2>1. CASE i \in DOMAIN fired
      BY <1>1, <2>1 DEF OrderInv, FiredBeforeOpen
    <2>2. CASE i = n
      <3>1. o \in Key
        BY DEF OpenKeys, TypeOK
      <3>2. k.window.end <= o.window.end
        <4>1. CASE o \in Due
          BY <4>1 DEF FireWindow
        <4>2. CASE o \notin Due
          BY <1>1, <3>1, <4>2, KeyWindow DEF Due, Passed, TypeOK
        <4> QED
          BY <4>1, <4>2
      <3> QED
        BY <1>1, <2>2, <3>2
    <2> QED
      BY <1>3, <2>1, <2>2
  <1>10. NothingDueWhenIdle'
    BY <1>2 DEF NothingDueWhenIdle
  <1> QED
    BY <1>6, <1>7, <1>8, <1>9, <1>10 DEF OrderInv

LEMMA OrderStep ==
  ASSUME TypeOK, OrderInv, [Next]_vars
  PROVE  OrderInv'
  <1>1. ASSUME OfferNext PROVE OrderInv'
    BY <1>1, OrderFrame DEF OfferNext, Offer, BufferArticle, FillBatch, Flush,
                            OrderInv, NothingDueWhenIdle
  <1>2. ASSUME Elapse PROVE OrderInv'
    BY <1>2, OrderFrame DEF Elapse, OrderInv, NothingDueWhenIdle
  <1>3. ASSUME Tick PROVE OrderInv'
    BY <1>3, OrderFrame DEF Tick, TickAt, Flush, OrderInv, NothingDueWhenIdle
  <1>4. ASSUME FlushDone PROVE OrderInv'
    BY <1>4, OrderFrame DEF FlushDone, Due
  <1>5. ASSUME UNCHANGED vars PROVE OrderInv'
    BY <1>5, OrderFrame DEF vars, engineVars, OrderInv, NothingDueWhenIdle
  <1> QED
    BY <1>1, <1>2, <1>3, <1>4, <1>5, OrderPlace, OrderAdvance, OrderFire
    DEF Next, FlushStep

LEMMA OrderStarts ==
  ASSUME Init
  PROVE  OrderInv
  <1>1. OpenKeys = {} /\ DOMAIN fired = {}
    BY DEF Init, InitEngine, OpenKeys
  <1> QED
    BY <1>1 DEF OrderInv, NothingDueWhenIdle, FiredIsPast, FiredBeforeOpen,
                FiresAtMostOnce, FiresInEventTimeOrder

LEMMA OrderInvariant == Spec => [](TypeOK /\ OrderInv)
  <1>1. Init => OrderInv
    BY OrderStarts
  <1>2. TypeOK /\ OrderInv /\ [Next]_vars => OrderInv'
    BY OrderStep
  <1> QED
    BY <1>1, <1>2, TypeCorrect, PTL DEF Spec

\* No (ticker, window) reaches on_window twice, however late its mentions arrive
\* and however the articles are batched.
THEOREM WindowsFireAtMostOnce == Spec => []FiresAtMostOnce
  <1>1. OrderInv => FiresAtMostOnce
    BY DEF OrderInv
  <1> QED
    BY <1>1, OrderInvariant, PTL

\* Results come out in event-time order over the whole life of the engine.
THEOREM WindowsFireInOrder == Spec => []FiresInEventTimeOrder
  <1>1. OrderInv => FiresInEventTimeOrder
    BY DEF OrderInv
  <1> QED
    BY <1>1, OrderInvariant, PTL

\* Outside _fire_due no open window is due.
THEOREM NoDueWindowIsLeft == Spec => []NothingDueWhenIdle
  <1>1. OrderInv => NothingDueWhenIdle
    BY DEF OrderInv
  <1> QED
    BY <1>1, OrderInvariant, PTL

-----------------------------------------------------------------------------
(* The flush timer.                                                        *)

LEMMA FlushDisarms ==
  ASSUME NEW pending, NEW s, Flush(pending, s)
  PROVE  TimerArmedIffBuffered'
  <1>1. buffer' = <<>> /\ flushIn' = None
    BY DEF Flush
  <1>2. Len(buffer') = 0
    BY <1>1
  <1> QED
    BY <1>1, <1>2, BatchAssumption DEF TimerArmedIffBuffered

LEMMA TimerStep ==
  ASSUME TypeOK, TimerArmedIffBuffered, [Next]_vars
  PROVE  TimerArmedIffBuffered'
  <1>1. ASSUME NEW a, BufferArticle(a) PROVE TimerArmedIffBuffered'
    <2>1. buffer' # <<>> /\ Len(buffer') = Len(buffer) + 1
      BY <1>1 DEF BufferArticle, TypeOK
    <2>2. flushIn' # None
      BY <1>1, BatchAssumption, ValueAssumption DEF BufferArticle
    <2> QED
      BY <1>1, <2>1, <2>2 DEF BufferArticle, TimerArmedIffBuffered
  <1>2. ASSUME Elapse PROVE TimerArmedIffBuffered'
    BY <1>2, ValueAssumption DEF Elapse, TimerArmedIffBuffered, TypeOK
  <1>3. ASSUME Tick PROVE TimerArmedIffBuffered'
    BY <1>3, FlushDisarms DEF Tick, TickAt, TimerArmedIffBuffered
  <1>4. ASSUME UNCHANGED <<buffer, flushIn>> PROVE TimerArmedIffBuffered'
    BY <1>4 DEF TimerArmedIffBuffered
  <1> QED
    BY <1>1, <1>2, <1>3, <1>4, FlushDisarms
    DEF Next, OfferNext, Offer, FillBatch, FlushStep, PlaceArticle, PlaceIn, AdvanceWatermark,
        FireWindow, FireLeaving, FlushDone, vars, engineVars

\* Every buffered article has a deadline, for any batch size and timeout.
THEOREM BufferedHasDeadline == Spec => []TimerArmedIffBuffered
  <1>1. Init => TimerArmedIffBuffered
    <2> SUFFICES ASSUME Init PROVE TimerArmedIffBuffered
      OBVIOUS
    <2>1. buffer = <<>> /\ flushIn = None /\ Len(buffer) = 0
      BY DEF Init, InitEngine
    <2> QED
      BY <2>1, BatchAssumption DEF TimerArmedIffBuffered
  <1>2. TypeOK /\ TimerArmedIffBuffered /\ [Next]_vars => TimerArmedIffBuffered'
    BY TimerStep
  <1> QED
    BY <1>1, <1>2, TypeCorrect, PTL DEF Spec

-----------------------------------------------------------------------------
(* The watermark and lateness.                                             *)

\* The watermark never moves back, moves to the newest event time less the
\* delay, and only once a batch is placed.
THEOREM WatermarkIsDisciplined == Spec => WatermarkDiscipline
  <1> DEFINE A == watermark' # watermark =>
                    /\ batch = {} /\ maxTs # None
                    /\ watermark' > watermark
                    /\ watermark' = maxTs - Delay - 1
  <1>1. TypeOK /\ [Next]_vars => [A]_vars
    BY ValueAssumption, GeometryAssumption
    DEF Next, OfferNext, Offer, BufferArticle, FillBatch, Flush, Elapse, Tick, TickAt, FlushStep,
        PlaceArticle, PlaceIn, AdvanceWatermark, FireWindow, FireLeaving, FlushDone, vars,
        engineVars, TypeOK
  <1> QED
    BY <1>1, TypeCorrect, PTL DEF Spec, WatermarkDiscipline

\* `wm` trails the event time `ts` by the delay, or nothing was seen yet.
Trails(wm, ts) == IF ts = None THEN wm = NoWatermark ELSE wm <= ts - Delay - 1

TrailInv ==
  /\ Trails(watermark, maxTs)
  /\ \A j \in judged : Trails(j.wm, j.maxTs)

LEMMA TrailStep ==
  ASSUME TypeOK, TrailInv, [Next]_vars
  PROVE  TrailInv'
  <1>1. ASSUME NEW a \in batch, PlaceArticle(a) PROVE TrailInv'
    <2>1. /\ watermark' = watermark
          /\ maxTs' = IF a.tickers = {} THEN maxTs ELSE Later(a.ts)
          /\ judged' = judged \cup {[article |-> a, wm |-> watermark, maxTs |-> maxTs]}
      BY <1>1 DEF PlaceArticle, PlaceIn
    <2>2. a.ts \in EventTime
      BY DEF TypeOK, Article
    <2>3. /\ a.ts \in Int /\ NoWatermark < a.ts - Delay - 1 /\ NoWatermark \in Int
          /\ None \notin Int /\ Delay \in Nat /\ watermark \in Int
          /\ maxTs \in Int \cup {None}
      BY <2>2, ValueAssumption, GeometryAssumption DEF TypeOK
    <2>4. Trails(watermark', maxTs')
      BY <2>1, <2>3 DEF TrailInv, Trails, Later
    <2> QED
      BY <2>1, <2>4 DEF TrailInv
  <1>2. ASSUME AdvanceWatermark PROVE TrailInv'
    <2>1. Trails(watermark', maxTs')
      BY <1>2, ValueAssumption, GeometryAssumption DEF AdvanceWatermark, TrailInv, Trails, TypeOK
    <2> QED
      BY <1>2, <2>1 DEF AdvanceWatermark, TrailInv
  <1>3. ASSUME UNCHANGED <<watermark, maxTs, judged>> PROVE TrailInv'
    BY <1>3 DEF TrailInv
  <1> QED
    BY <1>1, <1>2, <1>3
    DEF Next, OfferNext, Offer, BufferArticle, FillBatch, Flush, Elapse, Tick, TickAt, FlushStep,
        FireWindow, FireLeaving, FlushDone, vars, engineVars

\* A watermark that trails the event times leaves an article that is little enough
\* behind them a window that has not passed.
LEMMA TrailTolerates ==
  ASSUME TypeOK, TrailInv
  PROVE  LatenessTolerance
  <1> SUFFICES ASSUME Slide <= Size, NEW j \in judged,
                      j.maxTs # None => j.article.ts >= j.maxTs - (Size - Slide + Delay)
               PROVE  \E w \in AssignWindows(j.article.ts, Size, Slide, 0) : ~ Passed(w, j.wm)
    BY DEF LatenessTolerance
  <1> DEFINE ts == j.article.ts
  <1>1. j \in JudgedRecord
    BY DEF TypeOK
  <1>2. ts \in EventTime /\ j.wm \in Int /\ j.maxTs \in EventTime \cup {None}
    BY <1>1 DEF JudgedRecord, Article
  <1>3. ts \in Int /\ NoWatermark \in Int /\ NoWatermark < ts - Delay - 1
        /\ j.maxTs \in Int \cup {None}
    BY <1>2, ValueAssumption
  <1> HIDE DEF ts
  <1>4. PICK w \in AssignWindows(ts, Size, Slide, 0) : w.end > ts + Size - Slide
    <2>1. 0 \in Int /\ ts \in Int /\ Size \in Nat \ {0} /\ Slide \in Nat \ {0} /\ Slide <= Size
      BY <1>3, GeometryAssumption
    <2>2. \E w \in AssignWindows(ts, Size, Slide, 0) : w.end > ts + Size - Slide
      BY <2>1, LatestWindowReach, Zenon
    <2> QED
      BY <2>2
  <1>5. w.end \in Int
    <2>1. 0 \in Int /\ ts \in Int /\ Size \in Nat \ {0} /\ Slide \in Nat \ {0}
      BY <1>3, GeometryAssumption
    <2> QED
      BY <1>4, <2>1, AssignedWindowsContain, Zenon
  <1>6. Trails(j.wm, j.maxTs)
    BY DEF TrailInv
  <1>7. ~ (w.end - 1 <= j.wm)
    <2>1. CASE j.maxTs = None
      BY <1>2, <1>3, <1>4, <1>5, <1>6, <2>1, GeometryAssumption DEF Trails
    <2>2. CASE j.maxTs # None
      <3>1. ts >= j.maxTs - (Size - Slide + Delay)
        BY <2>2 DEF ts
      <3> QED
        BY <1>2, <1>3, <1>4, <1>5, <1>6, <2>2, <3>1, GeometryAssumption DEF Trails
    <2> QED
      BY <2>1, <2>2
  <1> QED
    BY <1>4, <1>7 DEF Passed, ts

\* An article at most Size - Slide + Delay behind the newest one placed before it
\* is never dropped as late, whatever the geometry.
THEOREM FreshArticlesCount == Spec => []LatenessTolerance
  <1>1. Init => TrailInv
    BY DEF Init, InitEngine, TrailInv, Trails
  <1>2. TypeOK /\ TrailInv /\ [Next]_vars => TrailInv'
    BY TrailStep
  <1>3. TypeOK /\ TrailInv => LatenessTolerance
    BY TrailTolerates
  <1> QED
    BY <1>1, <1>2, <1>3, TypeCorrect, PTL DEF Spec

-----------------------------------------------------------------------------
(* Window contents.                                                        *)

\* Nothing in an open window is late or foreign to it, ...
ContentsSound == \A m \in windows : m.id \in OnTime(m.key)

\* ... every on-time arrival is in its open window or in one that has fired, ...
ArrivalsKept ==
  \A j \in judged : \A k \in KeysOf(j.article) :
    ~ Passed(k.window, j.wm) =>
      \/ [key |-> k, id |-> j.article.id] \in windows
      \/ \E i \in DOMAIN fired : fired[i].key = k

\* ... and what has fired was complete.
ResultsComplete == \A i \in DOMAIN fired : fired[i].ids = OnTime(fired[i].key)

CompleteInv == ContentsSound /\ ArrivalsKept /\ ResultsComplete

LEMMA OpenIsComplete ==
  ASSUME OrderInv, CompleteInv, NEW k \in OpenKeys
  PROVE  Contents(k) = OnTime(k)
  <1>1. \A id \in Contents(k) : id \in OnTime(k)
    BY DEF Contents, CompleteInv, ContentsSound
  <1>2. ASSUME NEW id \in OnTime(k) PROVE id \in Contents(k)
    <2>1. PICK j \in judged : /\ k \in KeysOf(j.article)
                              /\ ~ Passed(k.window, j.wm)
                              /\ id = j.article.id
      BY <1>2 DEF OnTime
    <2>2. \A i \in DOMAIN fired : fired[i].key # k
      BY DEF OrderInv, FiredBeforeOpen
    <2>3. [key |-> k, id |-> id] \in windows
      BY <2>1, <2>2 DEF CompleteInv, ArrivalsKept
    <2> QED
      BY <2>3 DEF Contents
  <1> QED
    BY <1>1, <1>2

LEMMA CompletePlace ==
  ASSUME TypeOK, OrderInv, CompleteInv, NEW a \in batch, PlaceArticle(a)
  PROVE  CompleteInv'
  <1> DEFINE onTime == {k \in KeysOf(a) : ~ Passed(k.window, watermark)}
             r == [article |-> a, wm |-> watermark, maxTs |-> maxTs]
  <1>1. /\ windows' = windows \cup {[key |-> k, id |-> a.id] : k \in onTime}
        /\ judged' = judged \cup {r}
        /\ fired' = fired
    BY DEF PlaceArticle, PlaceIn
  <1>2. \A k : OnTime(k) \subseteq OnTime(k)'
    BY <1>1 DEF OnTime
  <1>3. \A k \in onTime : a.id \in OnTime(k)'
    <2> SUFFICES ASSUME NEW k \in onTime PROVE a.id \in OnTime(k)'
      OBVIOUS
    <2>1. r \in judged' /\ r.article = a /\ r.wm = watermark
      BY <1>1
    <2>2. k \in KeysOf(r.article) /\ ~ Passed(k.window, r.wm)
      BY <2>1
    <2> HIDE DEF r
    <2>3. \E j \in judged' : /\ k \in KeysOf(j.article)
                            /\ ~ Passed(k.window, j.wm)
                            /\ a.id = j.article.id
      BY <2>1, <2>2
    <2> QED
      BY <2>3 DEF OnTime
  <1>4. \A k : k \notin onTime => OnTime(k)' = OnTime(k)
    BY <1>1 DEF OnTime
  <1>5. ContentsSound'
    <2> HIDE DEF onTime, r
    <2> SUFFICES ASSUME NEW m \in windows' PROVE m.id \in OnTime(m.key)'
      BY DEF ContentsSound
    <2>1. CASE m \in windows
      BY <1>2, <2>1 DEF CompleteInv, ContentsSound
    <2>2. CASE m \in {[key |-> k, id |-> a.id] : k \in onTime}
      BY <1>3, <2>2
    <2> QED
      BY <1>1, <2>1, <2>2
  <1>6. ArrivalsKept'
    <2> SUFFICES ASSUME NEW j \in judged', NEW k \in KeysOf(j.article), ~ Passed(k.window, j.wm)
                 PROVE  \/ [key |-> k, id |-> j.article.id] \in windows'
                        \/ \E i \in DOMAIN fired : fired[i].key = k
      BY <1>1 DEF ArrivalsKept
    <2>1. CASE j \in judged
      BY <1>1, <2>1 DEF CompleteInv, ArrivalsKept
    <2>2. CASE j = r
      BY <1>1, <2>2
    <2> QED
      BY <1>1, <2>1, <2>2
  <1>7. ResultsComplete'
    <2>1. \A i \in DOMAIN fired : fired[i].key \notin onTime
      BY DEF OrderInv, FiredIsPast
    <2> HIDE DEF onTime, r
    <2> QED
      BY <1>1, <1>4, <2>1 DEF CompleteInv, ResultsComplete
  <1> QED
    BY <1>5, <1>6, <1>7 DEF CompleteInv

LEMMA CompleteFire ==
  ASSUME TypeOK, OrderInv, CompleteInv, NEW k \in Due, FireWindow(k)
  PROVE  CompleteInv'
  <1> DEFINE n == Len(fired) + 1
  <1>1. /\ k \in OpenKeys
        /\ Len(fired) \in Nat
        /\ DOMAIN fired = 1..Len(fired)
        /\ DOMAIN fired' = 1..n
        /\ fired'[n] = [key |-> k, ids |-> Contents(k)]
        /\ \A i \in 1..Len(fired) : fired'[i] = fired[i]
    BY FireAppends, Zenon
  <1>2. windows' = {m \in windows : m.key # k} /\ judged' = judged
    BY DEF FireWindow, FireLeaving
  <1> HIDE DEF n
  <1>3. n \in 1..n /\ (\A i \in 1..n : i \in DOMAIN fired \/ i = n) /\ DOMAIN fired \subseteq 1..n
    BY <1>1 DEF n
  <1>4. \A o : OnTime(o)' = OnTime(o)
    BY <1>2 DEF OnTime
  <1>5. ContentsSound'
    BY <1>2, <1>4 DEF CompleteInv, ContentsSound
  <1>6. ArrivalsKept'
    <2> SUFFICES ASSUME NEW j \in judged, NEW o \in KeysOf(j.article), ~ Passed(o.window, j.wm)
                 PROVE  \/ [key |-> o, id |-> j.article.id] \in windows'
                        \/ \E i \in DOMAIN fired' : fired'[i].key = o
      BY <1>2 DEF ArrivalsKept
    <2>1. CASE o = k
      <3>1. n \in DOMAIN fired' /\ fired'[n].key = o
        BY <1>1, <1>3, <2>1
      <3> QED
        BY <3>1
    <2>2. CASE o # k /\ [key |-> o, id |-> j.article.id] \in windows
      BY <1>2, <2>2
    <2>3. ASSUME NEW i \in DOMAIN fired, fired[i].key = o
          PROVE  \E x \in DOMAIN fired' : fired'[x].key = o
      BY <1>1, <1>3, <2>3
    <2> QED
      BY <2>1, <2>2, <2>3 DEF CompleteInv, ArrivalsKept
  <1>7. ResultsComplete'
    <2>1. fired'[n].ids = OnTime(fired'[n].key)
      BY <1>1, OpenIsComplete
    <2>2. \A i \in DOMAIN fired : fired'[i].ids = OnTime(fired'[i].key)
      BY <1>1 DEF CompleteInv, ResultsComplete
    <2> QED
      BY <1>1, <1>3, <1>4, <2>1, <2>2 DEF ResultsComplete
  <1> QED
    BY <1>5, <1>6, <1>7 DEF CompleteInv

LEMMA CompleteStep ==
  ASSUME TypeOK, OrderInv, CompleteInv, [Next]_vars
  PROVE  CompleteInv'
  <1>1. ASSUME UNCHANGED <<windows, judged, fired>> PROVE CompleteInv'
    <2>1. \A o : OnTime(o)' = OnTime(o)
      BY <1>1 DEF OnTime
    <2> QED
      BY <1>1, <2>1 DEF CompleteInv, ContentsSound, ArrivalsKept, ResultsComplete
  <1> QED
    BY <1>1, CompletePlace, CompleteFire
    DEF Next, OfferNext, Offer, BufferArticle, FillBatch, Flush, Elapse, Tick, TickAt, FlushStep,
        AdvanceWatermark, FlushDone, vars, engineVars

LEMMA CompleteStarts ==
  ASSUME Init
  PROVE  CompleteInv
  <1>1. windows = {} /\ judged = {} /\ DOMAIN fired = {}
    BY DEF Init, InitEngine
  <1> QED
    BY <1>1 DEF CompleteInv, ContentsSound, ArrivalsKept, ResultsComplete

LEMMA CompleteInvariant == Spec => [](TypeOK /\ OrderInv /\ CompleteInv)
  <1>1. Init => CompleteInv
    BY CompleteStarts
  <1>2. TypeOK /\ OrderInv /\ CompleteInv /\ [Next]_vars => CompleteInv'
    BY CompleteStep
  <1> QED
    BY <1>1, <1>2, OrderInvariant, PTL DEF Spec

\* What is scored for a window is exactly the on-time news about its ticker.
THEOREM WindowsHoldTheirNews == Spec => []WindowsAreComplete
  <1>1. OrderInv /\ CompleteInv => WindowsAreComplete
    <2> SUFFICES ASSUME OrderInv, CompleteInv PROVE WindowsAreComplete
      OBVIOUS
    <2>1. \A k \in OpenKeys : Contents(k) = OnTime(k)
      BY OpenIsComplete
    <2>2. ASSUME NEW j \in judged, NEW k \in KeysOf(j.article), OnTime(k) # {}
          PROVE  k \in OpenKeys \/ \E i \in DOMAIN fired : fired[i].key = k
      <3>1. PICK x \in judged : k \in KeysOf(x.article) /\ ~ Passed(k.window, x.wm)
        BY <2>2 DEF OnTime
      <3>2. CASE [key |-> k, id |-> x.article.id] \in windows
        BY <3>2 DEF OpenKeys
      <3> QED
        BY <3>1, <3>2 DEF CompleteInv, ArrivalsKept
    <2> QED
      BY <2>1, <2>2 DEF WindowsAreComplete, CompleteInv, ResultsComplete
  <1> QED
    BY <1>1, CompleteInvariant, PTL

-----------------------------------------------------------------------------
(* Refinement: the engine is an event-time window operator.                *)

LEMMA ReceivedIsOnTime ==
  ASSUME NEW k, NEW id
  PROVE  [key |-> k, id |-> id] \in Received <=> id \in OnTime(k)
  <1>1. ASSUME [key |-> k, id |-> id] \in Received PROVE id \in OnTime(k)
    <2>1. PICK j \in judged : [key |-> k, id |-> id] \in Contribution(j)
      BY <1>1 DEF Received
    <2>2. k \in KeysOf(j.article) /\ ~ Passed(k.window, j.wm) /\ id = j.article.id
      BY <2>1 DEF Contribution
    <2> QED
      BY <2>2 DEF OnTime
  <1>2. ASSUME id \in OnTime(k) PROVE [key |-> k, id |-> id] \in Received
    <2>1. PICK j \in judged : /\ k \in KeysOf(j.article)
                              /\ ~ Passed(k.window, j.wm)
                              /\ id = j.article.id
      BY <1>2 DEF OnTime
    <2>2. [key |-> k, id |-> id] \in Contribution(j)
      BY <2>1 DEF Contribution
    <2> QED
      BY <2>2 DEF Received
  <1> QED
    BY <1>1, <1>2

LEMMA ReceivedRecord ==
  ASSUME NEW x \in Received
  PROVE  x = [key |-> x.key, id |-> x.id]
  <1>1. PICK j \in judged : x \in Contribution(j)
    BY DEF Received
  <1> QED
    BY <1>1 DEF Contribution

LEMMA AbstractElements ==
  ASSUME NEW k
  PROVE  Operator!Elements(k) = OnTime(k)
  <1>1. Operator!Elements(k) = {r.id : r \in {x \in Received : x.key = k}}
    BY DEF Operator!Elements
  <1>2. ASSUME NEW id \in OnTime(k) PROVE id \in Operator!Elements(k)
    <2>1. [key |-> k, id |-> id] \in Received
      BY <1>2, ReceivedIsOnTime
    <2> QED
      BY <1>1, <2>1
  <1>3. ASSUME NEW id \in Operator!Elements(k) PROVE id \in OnTime(k)
    <2>1. PICK x \in Received : x.key = k /\ x.id = id
      BY <1>1
    <2>2. [key |-> k, id |-> id] \in Received
      BY <2>1, ReceivedRecord
    <2> QED
      BY <2>2, ReceivedIsOnTime
  <1> QED
    BY <1>2, <1>3

LEMMA AbstractWaiting ==
  ASSUME OrderInv, CompleteInv
  PROVE  Operator!Waiting = OpenKeys
  <1>1. Operator!Waiting = {k \in {x.key : x \in Received} : ~ \E i \in DOMAIN fired : fired[i].key = k}
    BY DEF Operator!Waiting, Operator!Emitted
  <1>2. ASSUME NEW k \in OpenKeys PROVE k \in Operator!Waiting
    <2>1. PICK m \in windows : m.key = k
      BY DEF OpenKeys
    <2>2. m.id \in OnTime(k)
      BY <2>1 DEF CompleteInv, ContentsSound
    <2>3. [key |-> k, id |-> m.id] \in Received
      BY <2>2, ReceivedIsOnTime
    <2>4. k \in {x.key : x \in Received}
      BY <2>3
    <2> QED
      BY <1>1, <2>4 DEF OrderInv, FiredBeforeOpen
  <1>3. ASSUME NEW k \in Operator!Waiting PROVE k \in OpenKeys
    <2>1. PICK x \in Received : x.key = k
      BY <1>1
    <2>2. PICK j \in judged : /\ k \in KeysOf(j.article)
                              /\ ~ Passed(k.window, j.wm)
      <3>1. x.id \in OnTime(k)
        BY <2>1, ReceivedRecord, ReceivedIsOnTime
      <3> QED
        BY <3>1 DEF OnTime
    <2>3. [key |-> k, id |-> j.article.id] \in windows
      BY <1>1, <2>2 DEF CompleteInv, ArrivalsKept
    <2> QED
      BY <2>3 DEF OpenKeys
  <1> QED
    BY <1>2, <1>3

LEMMA PlaceArrives ==
  ASSUME TypeOK, NEW a \in batch, PlaceArticle(a)
  PROVE  Operator!Next
  <1>1. a.id \in 1..MaxRaw /\ a.ts \in EventTime /\ a.tickers \in SUBSET Ticker
    BY DEF TypeOK, Article
  <1> DEFINE r == [article |-> a, wm |-> watermark, maxTs |-> maxTs]
  <1>2. judged' = judged \cup {r} /\ UNCHANGED <<watermark, fired>>
    BY DEF PlaceArticle, PlaceIn
  <1>3. Contribution(r) = {[key |-> k, id |-> a.id] :
                             k \in {x \in KeysOf(a) : ~ Passed(x.window, watermark)}}
    BY DEF Contribution
  <1>4. Received' = Received \cup Contribution(r)
    <2> HIDE DEF r
    <2> QED
      BY <1>2 DEF Received, Contribution
  <1>5. Operator!KeysAt(a.ts, a.tickers) = KeysOf(a)
    BY DEF Operator!KeysAt, KeysOf, Operator!AssignWindows, Operator!AssignedStarts,
           Operator!WindowStartWithOffset, Operator!FloorMod, Operator!Window,
           AssignWindows, AssignedStarts, WindowStartWithOffset, FloorMod, Window
  <1>6. Operator!Arrive(a.id, a.ts, a.tickers)
    BY <1>2, <1>3, <1>4, <1>5 DEF Operator!Arrive, Operator!Closed, Passed
  <1> QED
    BY <1>1, <1>6 DEF Operator!Next

LEMMA FireEmits ==
  ASSUME TypeOK, OrderInv, CompleteInv, NEW k \in Due, FireWindow(k)
  PROVE  Operator!Next
  <1>1. k \in OpenKeys /\ Passed(k.window, watermark)
    BY DEF Due
  <1>2. /\ fired' = Append(fired, [key |-> k, ids |-> Contents(k)])
        /\ UNCHANGED <<watermark, judged>>
    BY DEF FireWindow, FireLeaving
  <1>3. Contents(k) = Operator!Elements(k)
    BY <1>1, OpenIsComplete, AbstractElements
  <1>4. ASSUME NEW o \in OpenKeys PROVE k.window.end <= o.window.end
    <2>1. CASE o \in Due
      BY <2>1 DEF FireWindow
    <2>2. CASE o \notin Due
      <3>1. k \in Key /\ o \in Key
        BY <1>1 DEF OpenKeys, TypeOK
      <3> QED
        BY <1>1, <2>2, <3>1, KeyWindow DEF Due, Passed, TypeOK
    <2> QED
      BY <2>1, <2>2
  <1>5. Operator!Waiting = OpenKeys
    BY AbstractWaiting
  <1>6. UNCHANGED Received
    BY <1>2 DEF Received, Contribution
  <1>7. Operator!Emit(k)
    BY <1>6, <1>1, <1>2, <1>3, <1>4, <1>5 DEF Operator!Emit, Operator!Closed, Passed
  <1> QED
    BY <1>1, <1>5, <1>7 DEF Operator!Next, Operator!EmitNext

\* Batching, the buffer, the timer and the pops implement the abstract event-time
\* window operator, for every geometry and batch size (its safety part; that due
\* windows are emitted eventually is checked by TLC).
THEOREM EngineIsWindowOperator == Spec => Operator!Safety
  <1>1. Init => Operator!Init
    <2> SUFFICES ASSUME Init PROVE Operator!Init
      OBVIOUS
    <2>1. judged = {} /\ fired = <<>> /\ watermark = NoWatermark
      BY DEF Init, InitEngine
    <2>2. Received = {}
      BY <2>1 DEF Received
    <2> QED
      BY <2>1, <2>2 DEF Operator!Init
  <1>2. ASSUME TypeOK, TypeOK', OrderInv, CompleteInv, [Next]_vars
        PROVE  [Operator!Next]_(Operator!absVars)
    <2>1. ASSUME UNCHANGED <<watermark, fired, judged>>
          PROVE  UNCHANGED Operator!absVars
      BY <2>1 DEF Operator!absVars, Received, Contribution
    <2>2. ASSUME AdvanceWatermark
          PROVE  Operator!Next \/ UNCHANGED Operator!absVars
      <3>1. CASE watermark' > watermark
        <4>1. watermark' \in Int
          BY <1>2 DEF TypeOK
        <4>2. UNCHANGED <<fired, Received>>
          BY <2>2 DEF AdvanceWatermark, Received, Contribution
        <4> QED
          BY <3>1, <4>1, <4>2 DEF Operator!Next, Operator!AdvanceTo
      <3>2. CASE UNCHANGED watermark
        BY <2>1, <2>2, <3>2 DEF AdvanceWatermark
      <3> QED
        BY <2>2, <3>1, <3>2, GeometryAssumption, ValueAssumption DEF AdvanceWatermark, TypeOK
    <2> QED
      BY <1>2, <2>1, <2>2, PlaceArrives, FireEmits
      DEF Next, OfferNext, Offer, BufferArticle, FillBatch, Flush, Elapse, Tick, TickAt, FlushStep,
          FlushDone, vars, engineVars
  <1> QED
    BY <1>1, <1>2, CompleteInvariant, PTL DEF Spec, Operator!Safety

-----------------------------------------------------------------------------
(* The counters.                                                           *)

\* Articles of the buffer and of the batch were offered and are not placed yet.
Unplaced(a) == a.id <= stats.raw_in /\ \A j \in judged : j.article # a

CountInv ==
  /\ IsFiniteSet(batch) /\ IsFiniteSet(judged)
  /\ phase = "idle" => batch = {}
  /\ phase # "idle" => buffer = <<>>
  /\ phase = "firing" => batch = {}
  /\ \A i \in DOMAIN buffer : Unplaced(buffer[i])
  /\ \A a \in batch : Unplaced(a)
  /\ \A j \in judged : j.article.id <= stats.raw_in
  /\ ArticlesAccountedFor

LEMMA StatFacts ==
  ASSUME NEW s \in Stats
  PROVE  s.raw_in \in Nat /\ s.enriched \in Nat /\ s.enrich_dropped \in Nat
BY DEF Stats, Counter

\* What a bump does to the counters that account for articles.
LEMMA BumpFacts ==
  ASSUME NEW s \in Stats, NEW inc
  PROVE  /\ Bump(s, inc).raw_in = IF "raw_in" \in DOMAIN inc THEN s.raw_in + inc["raw_in"] ELSE s.raw_in
         /\ Bump(s, inc).enriched =
              IF "enriched" \in DOMAIN inc THEN s.enriched + inc["enriched"] ELSE s.enriched
         /\ Bump(s, inc).enrich_dropped =
              IF "enrich_dropped" \in DOMAIN inc THEN s.enrich_dropped + inc["enrich_dropped"]
              ELSE s.enrich_dropped
BY DEF Bump, Counter

LEMMA CountedRaw ==
  ASSUME TypeOK
  PROVE  /\ CountRaw \in Stats
         /\ CountRaw.raw_in = stats.raw_in + 1
         /\ CountRaw.enriched = stats.enriched
         /\ CountRaw.enrich_dropped = stats.enrich_dropped
  <1>1. stats \in Stats
    BY DEF TypeOK
  <1>2. CountRaw = Bump(stats, [raw_in |-> 1])
    BY DEF CountRaw
  <1>3. CountRaw \in Stats
    BY <1>1, <1>2, BumpType
  <1> QED
    BY <1>1, <1>2, <1>3, BumpFacts

\* A flush moves every pending article to the batch or to the dropped ones.
LEMMA FlushCounts ==
  ASSUME CountInv, TypeOK, phase = "idle", NEW pending \in Seq(Article), NEW s \in Stats,
         s.raw_in = Len(pending) + s.enriched + s.enrich_dropped,
         s.enriched = stats.enriched, s.raw_in >= stats.raw_in,
         \A i \in DOMAIN pending : pending[i].id <= s.raw_in /\ \A j \in judged : j.article # pending[i],
         Flush(pending, s)
  PROVE  CountInv'
  <1>1. PICK e \in SUBSET {pending[i] : i \in DOMAIN pending} :
          /\ batch' = e
          /\ stats' = Bump(s, [batches |-> 1, enriched |-> Cardinality(e),
                               enrich_dropped |-> Len(pending) - Cardinality(e)])
    BY DEF Flush
  <1>2. /\ IsFiniteSet(e) /\ Cardinality(e) \in Nat /\ Len(pending) - Cardinality(e) \in Nat
        /\ Len(pending) \in Nat
    BY BatchFinite, LenProperties
  <1>3. buffer' = <<>> /\ phase' = "placing" /\ judged' = judged
    BY DEF Flush
  <1>4. /\ stats'.raw_in = s.raw_in /\ stats'.enriched = s.enriched + Cardinality(e)
        /\ stats'.enrich_dropped = s.enrich_dropped + (Len(pending) - Cardinality(e))
    BY <1>1, BumpFacts
  <1>5. batch = {} /\ Cardinality(batch) = 0 /\ Cardinality(judged) \in Nat
    BY FS_EmptySet, FS_CardinalityType DEF CountInv
  <1>6. s.raw_in \in Nat /\ s.enriched \in Nat /\ s.enrich_dropped \in Nat /\ stats.raw_in \in Nat
    BY StatFacts DEF TypeOK
  <1>7. ArticlesAccountedFor'
    <2>1. Len(buffer') = 0
      BY <1>3
    <2>2. stats'.raw_in = Len(buffer') + stats'.enriched + stats'.enrich_dropped
      <3> DEFINE c == Cardinality(e)
                 l == Len(pending)
                 n == s.enriched
                 d == s.enrich_dropped
      <3>1. c \in Nat /\ l \in Nat /\ n \in Nat /\ d \in Nat /\ s.raw_in = l + n + d
        BY <1>2, <1>6
      <3>2. /\ stats'.raw_in = s.raw_in /\ stats'.enriched = n + c
            /\ stats'.enrich_dropped = d + (l - c) /\ Len(buffer') = 0
        BY <1>4, <2>1
      <3> HIDE DEF c, l, n, d
      <3> QED
        BY <3>1, <3>2
    <2>3. stats'.enriched = Cardinality(batch') + Cardinality(judged')
      BY <1>1, <1>2, <1>3, <1>4, <1>5, <1>6 DEF CountInv, ArticlesAccountedFor
    <2> QED
      BY <2>2, <2>3 DEF ArticlesAccountedFor
  <1>8. \A a \in batch' : Unplaced(a)'
    BY <1>1, <1>3, <1>4 DEF Unplaced
  <1>9. \A j \in judged' : j.article.id <= stats'.raw_in
    <2>1. \A j \in judged : j.article.id \in Nat
      BY BoundAssumption DEF TypeOK, JudgedRecord, Article
    <2> QED
      BY <2>1, <1>3, <1>4, <1>6 DEF CountInv
  <1>10. \A i \in DOMAIN buffer' : Unplaced(buffer[i])'
    BY <1>3
  <1>11. IsFiniteSet(batch') /\ IsFiniteSet(judged')
    BY <1>1, <1>2, <1>3 DEF CountInv
  <1> QED
    BY <1>3, <1>7, <1>8, <1>9, <1>10, <1>11 DEF CountInv

LEMMA OfferCounts ==
  ASSUME CountInv, TypeOK, OfferNext
  PROVE  CountInv'
  <1>1. PICK ts \in EventTime, T \in SUBSET Ticker :
          /\ stats.raw_in < MaxRaw
          /\ Offer([id |-> stats.raw_in + 1, ts |-> ts, tickers |-> T])
    BY DEF OfferNext
  <1> DEFINE a == [id |-> stats.raw_in + 1, ts |-> ts, tickers |-> T]
  <1>2. /\ stats.raw_in \in Nat /\ stats.enriched \in Nat /\ stats.enrich_dropped \in Nat
        /\ buffer \in Seq(Article) /\ Len(buffer) \in Nat
    BY StatFacts, LenProperties DEF TypeOK
  <1>3. a \in Article /\ a.id = stats.raw_in + 1
    BY <1>1, <1>2, BoundAssumption DEF Article
  <1>4. Offer(a)
    BY <1>1
  <1> HIDE DEF a
  <1>5. /\ Append(buffer, a) \in Seq(Article) /\ Len(Append(buffer, a)) = Len(buffer) + 1
        /\ DOMAIN Append(buffer, a) = DOMAIN buffer \cup {Len(buffer) + 1}
        /\ \A i \in DOMAIN buffer : Append(buffer, a)[i] = buffer[i]
        /\ Append(buffer, a)[Len(buffer) + 1] = a
    BY <1>2, <1>3
  <1>6. \A j \in judged : j.article # a /\ j.article.id \in Nat /\ j.article.id <= stats.raw_in
    BY <1>2, <1>3, BoundAssumption DEF CountInv, TypeOK, JudgedRecord, Article
  <1>7. \A i \in DOMAIN buffer : buffer[i].id \in Nat
    <2>1. \A i \in DOMAIN buffer : buffer[i] \in Article
      BY <1>2
    <2> QED
      BY <2>1, BoundAssumption DEF Article
  <1>8. \A i \in DOMAIN Append(buffer, a) :
          /\ Append(buffer, a)[i].id <= stats.raw_in + 1
          /\ \A j \in judged : j.article # Append(buffer, a)[i]
    BY <1>2, <1>3, <1>5, <1>6, <1>7 DEF CountInv, Unplaced
  <1>9. CASE BufferArticle(a)
    <2>1. /\ phase = "idle" /\ buffer' = Append(buffer, a) /\ stats' = CountRaw
          /\ UNCHANGED <<batch, phase, judged>>
      BY <1>9 DEF BufferArticle
    <2>2. ArticlesAccountedFor'
      BY <1>2, <1>5, <2>1, CountedRaw DEF CountInv, ArticlesAccountedFor
    <2>3. stats'.raw_in = stats.raw_in + 1
      BY <2>1, CountedRaw
    <2>4. \A i \in DOMAIN buffer' : Unplaced(buffer[i])'
      BY <1>8, <2>1, <2>3 DEF Unplaced
    <2>5. \A j \in judged' : j.article.id <= stats'.raw_in
      BY <1>2, <1>6, <2>1, <2>3
    <2> QED
      BY <2>1, <2>2, <2>4, <2>5 DEF CountInv
  <1>10. CASE FillBatch(a)
    <2>1. phase = "idle" /\ Flush(Append(buffer, a), CountRaw)
      BY <1>10 DEF FillBatch
    <2>2. CountRaw.raw_in = Len(Append(buffer, a)) + CountRaw.enriched + CountRaw.enrich_dropped
      BY <1>2, <1>5, CountedRaw DEF CountInv, ArticlesAccountedFor
    <2>3. \A i \in DOMAIN Append(buffer, a) :
            /\ Append(buffer, a)[i].id <= CountRaw.raw_in
            /\ \A j \in judged : j.article # Append(buffer, a)[i]
      BY <1>8, CountedRaw
    <2>4. CountRaw \in Stats /\ CountRaw.enriched = stats.enriched /\ CountRaw.raw_in >= stats.raw_in
      BY <1>2, CountedRaw
    <2> HIDE DEF CountRaw
    <2> QED
      BY <1>5, <2>1, <2>2, <2>3, <2>4, FlushCounts
  <1> QED
    BY <1>4, <1>9, <1>10 DEF Offer

LEMMA PlaceCounts ==
  ASSUME CountInv, TypeOK, NEW a \in batch, PlaceArticle(a)
  PROVE  CountInv'
  <1> DEFINE r == [article |-> a, wm |-> watermark, maxTs |-> maxTs]
  <1>1. /\ phase = "placing" /\ batch' = batch \ {a} /\ judged' = judged \cup {r}
        /\ UNCHANGED <<buffer, phase>>
    BY DEF PlaceArticle, PlaceIn
  <1>2. /\ stats'.raw_in = stats.raw_in /\ stats'.enriched = stats.enriched
        /\ stats'.enrich_dropped = stats.enrich_dropped
    <2> DEFINE onTime == {k \in KeysOf(a) : ~ Passed(k.window, watermark)}
               inc == [mentions     |-> Cardinality(a.tickers),
                       late_dropped |-> IF onTime = {} THEN Cardinality(a.tickers) ELSE 0]
               s == Bump(stats, inc)
    <2>1. SideEffects(s, 2)
      BY DEF PlaceArticle, PlaceIn
    <2>2. Cardinality(a.tickers) \in Nat
      BY MentionCount DEF TypeOK
    <2> HIDE DEF onTime
    <2>3. DOMAIN inc = {"mentions", "late_dropped"} /\ \A c \in DOMAIN inc : inc[c] \in Nat
      BY <2>2
    <2> HIDE DEF inc
    <2>4. s \in Stats /\ stats \in Stats
      BY <2>3, BumpType DEF TypeOK
    <2>5. s.raw_in = stats.raw_in /\ s.enriched = stats.enriched /\ s.enrich_dropped = stats.enrich_dropped
      BY <2>3, <2>4, BumpFacts
    <2> HIDE DEF s
    <2>6. PICK x \in 0..2 : stats' = Bump(s, [stage_errors |-> x])
      BY <2>1 DEF SideEffects
    <2>7. /\ stats'.raw_in = s.raw_in /\ stats'.enriched = s.enriched
          /\ stats'.enrich_dropped = s.enrich_dropped
      BY <2>4, <2>6, BumpFacts
    <2> QED
      BY <2>5, <2>7
  <1>3. r.article = a
    OBVIOUS
  <1> HIDE DEF r
  <1>4. r \notin judged
    BY <1>3 DEF CountInv, Unplaced
  <1>5. /\ IsFiniteSet(batch') /\ Cardinality(batch') = Cardinality(batch) - 1
        /\ IsFiniteSet(judged') /\ Cardinality(judged') = Cardinality(judged) + 1
        /\ Cardinality(batch) \in Nat /\ Cardinality(judged) \in Nat
    BY <1>1, <1>4, FS_RemoveElement, FS_AddElement, FS_CardinalityType DEF CountInv
  <1>6. ArticlesAccountedFor'
    <2>1. stats.raw_in \in Nat /\ stats.enriched \in Nat /\ stats.enrich_dropped \in Nat
      BY StatFacts DEF TypeOK
    <2>2. Len(buffer') = Len(buffer)
      BY <1>1
    <2> QED
      BY <1>2, <1>5, <2>1, <2>2 DEF CountInv, ArticlesAccountedFor
  <1>7. \A b \in batch' : Unplaced(b)'
    BY <1>1, <1>2, <1>3 DEF CountInv, Unplaced
  <1>8. \A j \in judged' : j.article.id <= stats'.raw_in
    BY <1>1, <1>2, <1>3 DEF CountInv, Unplaced
  <1>9. buffer' = <<>> /\ \A i \in DOMAIN buffer' : Unplaced(buffer[i])'
    BY <1>1 DEF CountInv
  <1> QED
    BY <1>1, <1>5, <1>6, <1>7, <1>8, <1>9 DEF CountInv

\* The other steps count neither articles nor drops.
LEMMA QuietCounts ==
  ASSUME CountInv, TypeOK,
         UNCHANGED <<buffer, batch, judged>>,
         stats'.raw_in = stats.raw_in, stats'.enriched = stats.enriched,
         stats'.enrich_dropped = stats.enrich_dropped,
         phase' # phase => phase # "idle" /\ batch = {}
  PROVE  CountInv'
  BY DEF CountInv, ArticlesAccountedFor, Unplaced

LEMMA CountStep ==
  ASSUME CountInv, TypeOK, [Next]_vars
  PROVE  CountInv'
  <1>1. CASE OfferNext
    BY <1>1, OfferCounts
  <1>2. CASE Elapse
    BY <1>2, QuietCounts DEF Elapse
  <1>3. CASE Tick
    <2>1. CASE buffer = <<>>
      BY <1>3, <2>1, QuietCounts DEF Tick, TickAt
    <2>2. CASE buffer # <<>>
      <3>1. phase = "idle" /\ Flush(buffer, stats)
        BY <1>3, <2>2 DEF Tick, TickAt
      <3>2. stats \in Stats /\ buffer \in Seq(Article) /\ stats.raw_in \in Nat
        BY StatFacts DEF TypeOK
      <3>3. /\ \A i \in DOMAIN buffer : buffer[i].id <= stats.raw_in
                                        /\ \A j \in judged : j.article # buffer[i]
            /\ stats.raw_in = Len(buffer) + stats.enriched + stats.enrich_dropped
        BY DEF CountInv, Unplaced, ArticlesAccountedFor
      <3>4. stats.raw_in >= stats.raw_in
        BY <3>2
      <3> QED
        BY <3>1, <3>2, <3>3, <3>4, FlushCounts
    <2> QED
      BY <2>1, <2>2
  <1>4. ASSUME NEW a \in batch, PlaceArticle(a) PROVE CountInv'
    BY <1>4, PlaceCounts
  <1>5. CASE AdvanceWatermark
    BY <1>5, QuietCounts DEF AdvanceWatermark
  <1>6. ASSUME NEW k, FireWindow(k) PROVE CountInv'
    <2>1. /\ UNCHANGED <<buffer, batch, phase, judged>>
          /\ SideEffects(Bump(stats, [windows_fired |-> 1]), 1)
      BY <1>6 DEF FireWindow, FireLeaving
    <2>2. stats \in Stats /\ Bump(stats, [windows_fired |-> 1]) \in Stats
      BY BumpType DEF TypeOK
    <2>3. PICK e \in 0..1 : stats' = Bump(Bump(stats, [windows_fired |-> 1]), [stage_errors |-> e])
      BY <2>1 DEF SideEffects
    <2>4. /\ stats'.raw_in = stats.raw_in /\ stats'.enriched = stats.enriched
          /\ stats'.enrich_dropped = stats.enrich_dropped
      BY <2>2, <2>3, BumpFacts
    <2> QED
      BY <2>1, <2>4, QuietCounts
  <1>7. CASE FlushDone
    BY <1>7, QuietCounts DEF FlushDone, CountInv
  <1>8. CASE UNCHANGED vars
    BY <1>8, QuietCounts DEF vars, engineVars
  <1> QED
    BY <1>1, <1>2, <1>3, <1>4, <1>5, <1>6, <1>7, <1>8 DEF Next, FlushStep

\* No article leaves the counters: each one offered is waiting, dropped, being
\* placed or placed.
THEOREM ArticlesAreAccountedFor == Spec => []ArticlesAccountedFor
  <1>1. Init => CountInv
    <2> SUFFICES ASSUME Init PROVE CountInv
      OBVIOUS
    <2>1. /\ buffer = <<>> /\ batch = {} /\ judged = {} /\ phase = "idle"
          /\ stats.raw_in = 0 /\ stats.enriched = 0 /\ stats.enrich_dropped = 0
      BY DEF Init, InitEngine, Counter
    <2>2. IsFiniteSet({}) /\ Cardinality({}) = 0 /\ Len(buffer) = 0
      BY <2>1, FS_EmptySet
    <2> QED
      BY <2>1, <2>2 DEF CountInv, ArticlesAccountedFor
  <1>2. CountInv /\ TypeOK /\ [Next]_vars => CountInv'
    BY CountStep
  <1>3. CountInv => ArticlesAccountedFor
    BY DEF CountInv
  <1> QED
    BY <1>1, <1>2, <1>3, TypeCorrect, PTL DEF Spec

-----------------------------------------------------------------------------
(* LiteProcessor: what the committed offset promises.                      *)

\* Offsets are numbers; the topic's records and the buffer's articles are articles,
\* numbered by offset.
Shape ==
  /\ topic \in Seq(Article) /\ buffer \in Seq(Article)
  /\ \A o \in DOMAIN topic : topic[o].id = o
  /\ committed \in Nat \cup {None} /\ base \in Nat \cup {None}
  /\ position \in Nat /\ offered \in Nat /\ started \in Nat
  /\ fetched \subseteq Nat
  /\ pc \in Pcs

\* How the offsets of the running process and of the group relate.
Offsets ==
  /\ committed = None <=> base = None
  /\ committed # None => base <= committed /\ committed <= Len(topic)
  /\ pc # "down" =>
       /\ started <= offered /\ offered <= position /\ position <= Len(topic)
       /\ pc # "offer" => offered = position
       /\ committed # None => base <= started /\ started <= committed /\ committed <= position

\* What this process handed to its engine was enriched or is in the buffer.
Handed == pc # "down" => \A o \in (started + 1)..offered : o \in enrichedIds \cup Ids(buffer)

ProcInv == Shape /\ Offsets /\ Handed /\ CommittedIsEnriched

-----------------------------------------------------------------------------
LEMMA ConstantFacts == None \notin Nat
BY ValueAssumption

\* The ids of a buffer that grew by an article.
LEMMA IdsAppend ==
  ASSUME NEW s \in Seq(Article), NEW a \in Article
  PROVE  Ids(Append(s, a)) = Ids(s) \cup {a.id}
<1>1. DOMAIN Append(s, a) = DOMAIN s \cup {Len(s) + 1}
  BY SMT
<1>2. \A i \in DOMAIN s : Append(s, a)[i] = s[i]
  BY SMT
<1>3. Append(s, a)[Len(s) + 1] = a
  BY SMT
<1> QED
  BY <1>1, <1>2, <1>3, Zenon DEF Ids

LEMMA IdsEmpty == Ids(<<>>) = {}
BY SMT DEF Ids

\* Offer keeps the article in the buffer or empties it.
LEMMA OfferMoves ==
  ASSUME NEW a, Offer(a)
  PROVE  buffer' = Append(buffer, a) \/ buffer' = <<>>
BY DEF Offer, BufferArticle, FillBatch, Flush

LEMMA TickMoves ==
  ASSUME TickAt(TRUE)
  PROVE  buffer' = <<>>
BY DEF TickAt, Flush

\* The steps of a flush leave the buffer alone.
LEMMA FlushStepMoves ==
  ASSUME FlushStep \/ Elapse
  PROVE  buffer' = buffer
BY DEF FlushStep, PlaceArticle, PlaceIn, AdvanceWatermark, FireWindow, FireLeaving, FlushDone, Elapse

\* While the topic, the offsets and the process stay, the invariant does.
LEMMA Untouched ==
  ASSUME ProcInv, UNCHANGED <<topic, buffer, committed, base, position, offered, started,
                              fetched, enrichedIds>>,
         pc' \in Pcs, pc' # "down" => pc # "down" /\ (pc' # "offer" => offered = position)
  PROVE  ProcInv'
BY DEF ProcInv, Shape, Offsets, Handed, CommittedIsEnriched, Ids

LEMMA ProduceKeeps ==
  ASSUME ProcInv, Produce
  PROVE  ProcInv'
<1> USE DEF ProcInv
<1>1. PICK ts \in EventTime, T \in SUBSET Ticker :
        topic' = Append(topic, [id |-> Len(topic) + 1, ts |-> ts, tickers |-> T])
  BY DEF Produce
<1>2. Len(topic) < MaxRaw /\ Len(topic) \in Nat /\ MaxRaw \in Nat
  BY BoundAssumption DEF Produce, Shape
<1> DEFINE a == [id |-> Len(topic) + 1, ts |-> ts, tickers |-> T]
<1>3. a \in Article
  BY <1>2 DEF Article
<1>4. UNCHANGED <<vars, committed, loopVars, historyVars>>
  BY DEF Produce
<1>5. UNCHANGED <<buffer, committed, pc, position, offered, fetched, enrichedIds, started, base>>
  BY <1>4 DEF vars, engineVars, loopVars, historyVars
<1> HIDE DEF a
<1>6. topic' \in Seq(Article) /\ Len(topic') = Len(topic) + 1
  BY <1>1, <1>3 DEF Shape, a
<1>7. \A o \in DOMAIN topic' : topic'[o].id = o
  <2> SUFFICES ASSUME NEW o \in DOMAIN topic' PROVE topic'[o].id = o
    OBVIOUS
  <2>1. topic' = Append(topic, a)
    BY <1>1 DEF a
  <2>2. CASE o = Len(topic) + 1
    <3>1. topic'[o] = a
      BY <2>1, <2>2, <1>3 DEF Shape
    <3> QED
      BY <3>1, <2>2 DEF a
  <2>3. CASE o # Len(topic) + 1
    BY <2>1, <2>3, <1>3 DEF Shape
  <2> QED
    BY <2>2, <2>3
<1>8. Shape'
  BY <1>5, <1>6, <1>7 DEF Shape
<1>9. Offsets'
  BY <1>5, <1>6, <1>2, ConstantFacts DEF Offsets, Shape
<1>10. Handed' /\ CommittedIsEnriched'
  BY <1>5 DEF Handed, CommittedIsEnriched, Ids
<1> QED
  BY <1>8, <1>9, <1>10

LEMMA StartKeeps ==
  ASSUME ProcInv, Start
  PROVE  ProcInv'
<1>1. UNCHANGED <<topic, buffer, committed, fetched, enrichedIds, base>>
  BY DEF Start, vars, engineVars, kafkaVars
<1>2. /\ pc' = "poll"
      /\ position' = StartOffset /\ offered' = StartOffset /\ started' = StartOffset
  BY DEF Start
<1>3. StartOffset \in Nat /\ StartOffset <= Len(topic) /\ (committed # None => StartOffset = committed)
  BY DEF ProcInv, Shape, Offsets, StartOffset
<1>4. Shape'
  BY <1>1, <1>2, <1>3 DEF ProcInv, Shape, Pcs
<1>5. Offsets'
  BY <1>1, <1>2, <1>3 DEF ProcInv, Shape, Offsets
<1>6. Handed' /\ CommittedIsEnriched'
  BY <1>1, <1>2, <1>3 DEF ProcInv, Handed, CommittedIsEnriched, Ids
<1> QED
  BY <1>4, <1>5, <1>6 DEF ProcInv

LEMMA PollKeeps ==
  ASSUME ProcInv, Poll
  PROVE  ProcInv'
<1>1. PICK n \in 0..MaxPoll : /\ n <= Len(topic) - position
                              /\ position' = position + n
                              /\ fetched' = fetched \cup (position + 1)..(position + n)
  BY DEF Poll
<1>2. UNCHANGED <<topic, buffer, committed, offered, started, enrichedIds, base>>
  BY DEF Poll, vars, engineVars, kafkaVars
<1>3. pc = "poll" /\ pc' = "offer"
  BY DEF Poll
<1>4. n \in Nat
  BY <1>1, ProcessorAssumption
<1>5. Shape'
  BY <1>1, <1>2, <1>3, <1>4 DEF ProcInv, Shape, Pcs
<1>6. Offsets'
  BY <1>1, <1>2, <1>3, <1>4 DEF ProcInv, Shape, Offsets
<1>7. Handed' /\ CommittedIsEnriched'
  BY <1>2, <1>3 DEF ProcInv, Handed, CommittedIsEnriched, Ids
<1> QED
  BY <1>5, <1>6, <1>7 DEF ProcInv

\* Articles that leave the buffer were enriched: `articles` is what it would have
\* held.
LEMMA TakenOrKept ==
  ASSUME ProcInv, NEW articles, TakenFrom(articles), buffer' = articles \/ buffer' = <<>>
  PROVE  /\ enrichedIds \subseteq enrichedIds'
         /\ Ids(articles) \subseteq enrichedIds' \cup Ids(buffer)'
BY DEF TakenFrom, Ids

LEMMA OfferPolledKeeps ==
  ASSUME ProcInv, OfferPolled
  PROVE  ProcInv'
<1> DEFINE a == topic[offered + 1]
<1>1. /\ Offer(a) /\ TakenFrom(Append(buffer, a))
      /\ pc = "offer" /\ offered < position /\ offered' = offered + 1
  BY DEF OfferPolled
<1>2. UNCHANGED <<topic, committed, pc, position, fetched, started, base>>
  BY DEF OfferPolled, kafkaVars
<1>3. offered + 1 \in DOMAIN topic
  BY <1>1 DEF ProcInv, Shape, Offsets
<1>4. a \in Article /\ a.id = offered + 1
  BY <1>3 DEF ProcInv, Shape
<1> HIDE DEF a
<1>5. buffer' = Append(buffer, a) \/ buffer' = <<>>
  BY <1>1, OfferMoves
<1>6. /\ enrichedIds \subseteq enrichedIds'
      /\ Ids(Append(buffer, a)) \subseteq enrichedIds' \cup Ids(buffer)'
  BY <1>1, <1>5, TakenOrKept
<1>7. Ids(Append(buffer, a)) = Ids(buffer) \cup {offered + 1}
  BY <1>4, IdsAppend DEF ProcInv, Shape
<1>8. Shape'
  <2>1. buffer' \in Seq(Article)
    <3>1. buffer \in Seq(Article) /\ <<>> \in Seq(Article)
      BY DEF ProcInv, Shape
    <3>2. Append(buffer, a) \in Seq(Article)
      BY <3>1, <1>4
    <3> QED
      BY <3>1, <3>2, <1>5
  <2>2. offered' \in Nat
    BY <1>1 DEF ProcInv, Shape
  <2> QED
    BY <1>2, <2>1, <2>2 DEF ProcInv, Shape
<1>9. Offsets'
  BY <1>1, <1>2 DEF ProcInv, Shape, Offsets
<1>10. Handed'
  <2> SUFFICES ASSUME NEW o \in (started + 1)..(offered + 1) PROVE o \in enrichedIds' \cup Ids(buffer)'
    BY <1>1, <1>2 DEF Handed
  <2>1. o \in (started + 1)..offered \/ o = offered + 1
    BY DEF ProcInv, Shape
  <2>2. o \in enrichedIds \cup Ids(buffer) \cup {offered + 1}
    BY <2>1, <1>1 DEF ProcInv, Handed
  <2> QED
    BY <2>2, <1>6, <1>7
<1>11. CommittedIsEnriched'
  BY <1>2, <1>6 DEF ProcInv, CommittedIsEnriched
<1> QED
  BY <1>8, <1>9, <1>10, <1>11 DEF ProcInv

\* A tick of the loop, or the one of its finally clause: the buffer is flushed or
\* stays.
LEMMA FlushKeeps ==
  ASSUME ProcInv,
         \/ TickAt(TRUE) /\ TakenFrom(buffer)
         \/ UNCHANGED <<vars, enrichedIds>>,
         UNCHANGED <<kafkaVars, position, offered, fetched, started, base>>,
         offered = position, pc # "down", pc' \in Pcs
  PROVE  ProcInv'
<1>1. UNCHANGED <<topic, committed>>
  BY DEF kafkaVars
<1>2. /\ enrichedIds \subseteq enrichedIds'
      /\ Ids(buffer) \subseteq enrichedIds' \cup Ids(buffer)'
      /\ buffer' \in Seq(Article)
  <2>1. CASE TickAt(TRUE) /\ TakenFrom(buffer)
    <3>1. buffer' = <<>>
      BY <2>1, TickMoves
    <3> QED
      BY <2>1, <3>1, TakenOrKept
  <2>2. CASE UNCHANGED <<vars, enrichedIds>>
    <3>1. buffer' = buffer /\ enrichedIds' = enrichedIds
      BY <2>2 DEF vars, engineVars
    <3> QED
      BY <3>1 DEF ProcInv, Shape, Ids
  <2> QED
    BY <2>1, <2>2
<1>3. Shape'
  BY <1>1, <1>2 DEF ProcInv, Shape
<1>4. Offsets'
  BY <1>1 DEF ProcInv, Shape, Offsets
<1>5. Handed' /\ CommittedIsEnriched'
  BY <1>1, <1>2 DEF ProcInv, Handed, CommittedIsEnriched
<1> QED
  BY <1>3, <1>4, <1>5 DEF ProcInv

LEMMA CommitKeeps ==
  ASSUME ProcInv, Commit
  PROVE  ProcInv' /\ (committed # None => committed' # None /\ committed' >= committed)
<1>1. UNCHANGED <<topic, buffer, position, offered, fetched, enrichedIds, started>>
  BY DEF Commit, CommitWhen, vars, engineVars
<1>2. pc = "commit" /\ pc' = "poll"
  BY DEF Commit, CommitWhen
<1>3. CASE UNCHANGED <<committed, uncommitted, base>>
  BY <1>1, <1>2, <1>3, Untouched DEF ProcInv, Offsets, Shape, Pcs
<1>4. CASE /\ buffer = <<>>
           /\ committed' = position
           /\ base' = IF base = None THEN started ELSE base
  <2>1. /\ started <= position /\ position <= Len(topic) /\ offered = position
        /\ position \in Nat /\ started \in Nat
        /\ committed # None => base <= started /\ started <= committed /\ committed <= position
        /\ committed = None <=> base = None
        /\ Len(topic) \in Nat
    BY <1>2 DEF ProcInv, Offsets, Shape
  <2>2. committed \in Nat \cup {None} /\ base \in Nat \cup {None} /\ committed' # None /\ base' # None
    BY <1>4, <2>1, ConstantFacts DEF ProcInv, Shape
  <2>3. Shape'
    BY <1>1, <1>2, <1>4, <2>1, <2>2 DEF ProcInv, Shape, Pcs
  <2>4. Offsets'
    BY <1>1, <1>2, <1>4, <2>1, <2>2 DEF Offsets
  <2>5. Handed'
    BY <1>1, <1>2 DEF ProcInv, Handed, Ids
  <2>6. \A o \in (started + 1)..position : o \in enrichedIds
    BY <1>2, <1>4, <2>1, IdsEmpty DEF ProcInv, Handed
  <2>7. \A o \in (base' + 1)..position : o \in enrichedIds
    <3>1. CASE base = None
      BY <3>1, <1>4, <2>6
    <3>2. CASE base # None
      <4>1. \A o \in (base + 1)..committed : o \in enrichedIds
        BY <3>2, <2>1 DEF ProcInv, CommittedIsEnriched
      <4> QED
        BY <3>2, <4>1, <2>1, <2>2, <2>6, <1>4
    <3> QED
      BY <3>1, <3>2
  <2>8. CommittedIsEnriched'
    BY <1>1, <1>4, <2>7 DEF CommittedIsEnriched
  <2> QED
    BY <2>1, <2>2, <2>3, <2>4, <2>5, <2>8, <1>4 DEF ProcInv
<1> QED
  BY <1>3, <1>4 DEF Commit, CommitWhen, ProcInv, Shape

\* The process ends: what is in Kafka and the histories stay.
LEMMA ExitKeeps ==
  ASSUME ProcInv, Exit
  PROVE  ProcInv'
<1>1. /\ UNCHANGED <<topic, committed, fetched, enrichedIds, started, base>>
      /\ pc' = "down" /\ position' = 0 /\ offered' = 0 /\ buffer' = <<>>
  BY DEF Exit, ResetEngine, kafkaVars, historyVars
<1>2. Shape'
  BY <1>1 DEF ProcInv, Shape, Pcs
<1>3. Offsets' /\ Handed' /\ CommittedIsEnriched'
  BY <1>1 DEF ProcInv, Offsets, Handed, CommittedIsEnriched
<1> QED
  BY <1>2, <1>3 DEF ProcInv

-----------------------------------------------------------------------------
\* The invariant holds of every step of the processor.
LEMMA StepKeeps ==
  ASSUME ProcInv, ProcNext
  PROVE  ProcInv'
<1>1. CASE Produce
  BY <1>1, ProduceKeeps
<1>2. CASE Start
  BY <1>2, StartKeeps
<1>3. CASE Poll
  BY <1>3, PollKeeps
<1>4. CASE OfferPolled
  BY <1>4, OfferPolledKeeps
<1>5. CASE TickLoop
  <2>1. \/ TickAt(TRUE) /\ TakenFrom(buffer)
        \/ UNCHANGED <<vars, enrichedIds>>
    BY <1>5 DEF TickLoop
  <2> QED
    BY <2>1, <1>5, FlushKeeps DEF TickLoop, Pcs
<1>6. CASE Commit
  BY <1>6, CommitKeeps
<1>7. CASE Drain
  <2>1. \/ TickAt(TRUE) /\ TakenFrom(buffer)
        \/ UNCHANGED <<vars, enrichedIds>>
    BY <1>7 DEF Drain
  <2>2. offered = position
    BY <1>7 DEF Drain, ProcInv, Offsets
  <2> QED
    BY <2>1, <2>2, <1>7, FlushKeeps DEF Drain, Pcs
<1>8. CASE Close \/ Crash
  BY <1>8, ExitKeeps DEF Close, Crash
<1>9. CASE FlushRaises \/ Stop
  <2>1. UNCHANGED <<topic, buffer, committed, base, position, offered, started, fetched, enrichedIds>>
    BY <1>9 DEF FlushRaises, Stop, vars, engineVars, kafkaVars, historyVars
  <2>2. pc' = "drain" /\ pc \in {"commit", "poll"}
    BY <1>9 DEF FlushRaises, Stop
  <2>3. offered = position
    BY <2>2 DEF ProcInv, Offsets
  <2> QED
    BY <2>1, <2>2, <2>3, Untouched DEF Pcs
<1>10. CASE Engine
  <2>1. buffer' = buffer
    BY <1>10, FlushStepMoves DEF Engine
  <2>2. UNCHANGED <<topic, committed, base, position, offered, started, fetched, enrichedIds, pc>>
    BY <1>10 DEF Engine, procVars, kafkaVars, loopVars, historyVars
  <2> QED
    BY <2>1, <2>2, Untouched DEF ProcInv, Shape, Offsets
<1> QED
  BY <1>1, <1>2, <1>3, <1>4, <1>5, <1>6, <1>7, <1>8, <1>9, <1>10 DEF ProcNext, LoopStep

LEMMA StutterKeeps ==
  ASSUME ProcInv, UNCHANGED allVars
  PROVE  ProcInv'
<1>1. UNCHANGED <<topic, buffer, committed, base, position, offered, started, fetched, enrichedIds, pc>>
  BY DEF allVars, vars, engineVars, procVars, kafkaVars, loopVars, historyVars
<1> QED
  BY <1>1, Untouched DEF ProcInv, Shape, Offsets

LEMMA InitHolds == ProcInit => ProcInv
<1> SUFFICES ASSUME ProcInit PROVE ProcInv
  OBVIOUS
<1>1. /\ topic = <<>> /\ buffer = <<>> /\ committed = None /\ base = None /\ pc = "down"
      /\ position = 0 /\ offered = 0 /\ started = 0 /\ fetched = {}
  BY DEF ProcInit, Init, InitEngine
<1> QED
  BY <1>1 DEF ProcInv, Shape, Offsets, Handed, CommittedIsEnriched, Pcs

\* The inductive invariant of the processor.
THEOREM ProcInvariant == ProcSpec => []ProcInv
<1>1. ProcInv /\ [ProcNext]_allVars => ProcInv'
  BY StepKeeps, StutterKeeps
<1> QED
  BY <1>1, InitHolds, PTL DEF ProcSpec

\* The committed offset never covers a record that was not enriched, from the start
\* of the first process that committed on (main.py commits with the buffer empty).
THEOREM CommitsCoverEnriched == ProcSpec => []CommittedIsEnriched
<1>1. ProcInv => CommittedIsEnriched
  BY DEF ProcInv
<1> QED
  BY <1>1, ProcInvariant, PTL

\* Whatever is fetched from the first committing process on is enriched, still held
\* by the process, or read again by the next one.
THEOREM NothingIsLostOnceCommitted == ProcSpec => []NoLossOnceCommitted
<1>1. ProcInv => NoLossOnceCommitted
  <2> SUFFICES ASSUME ProcInv, base # None, NEW o \in fetched, o > base PROVE Safe(o)
    BY DEF NoLossOnceCommitted
  <2>1. committed # None /\ committed \in Nat /\ base \in Nat /\ o \in Nat
    BY DEF ProcInv, Shape, Offsets
  <2>2. CASE o <= committed
    <3>1. o \in (base + 1)..committed
      BY <2>1, <2>2
    <3> QED
      BY <3>1, <2>1 DEF ProcInv, CommittedIsEnriched, Safe
  <2>3. CASE o > committed
    BY <2>1, <2>3 DEF Safe
  <2> QED
    BY <2>1, <2>2, <2>3
<1> QED
  BY <1>1, ProcInvariant, PTL

\* The group's offset never moves back, through restarts, failed commits and stops.
THEOREM OffsetsNeverGoBack == ProcSpec => OffsetMonotone
<1>1. ProcInv /\ [ProcNext]_allVars
        => [committed # None => committed' # None /\ committed' >= committed]_allVars
  <2> SUFFICES ASSUME ProcInv, ProcNext, committed # None
               PROVE  committed' # None /\ committed' >= committed
    OBVIOUS
  <2>1. CASE Commit
    BY <2>1, CommitKeeps
  <2>2. CASE ~ Commit
    <3>1. committed' = committed
      BY <2>2 DEF ProcNext, LoopStep, Produce, Start, Poll, OfferPolled, TickLoop, Drain, Close,
                  Crash, Exit, Engine, FlushRaises, Stop, kafkaVars, procVars
    <3>2. committed \in Nat
      BY DEF ProcInv, Shape
    <3> QED
      BY <3>1, <3>2
  <2> QED
    BY <2>1, <2>2
<1> QED
  BY <1>1, ProcInvariant, PTL DEF ProcSpec, OffsetMonotone
\* What this process holds was read by some poll.
Polled == Ids(buffer) \cup (offered + 1)..position \subseteq fetched

ProcTypeInv == ProcInv /\ ProcTypeOK /\ Polled

\* The ids of a buffer that is flushed or stays are enriched or still held.
LEMMA FlushEnriches ==
  ASSUME ProcTypeInv,
         \/ TickAt(TRUE) /\ TakenFrom(buffer)
         \/ UNCHANGED <<vars, enrichedIds>>,
         UNCHANGED fetched
  PROVE  TypeOK' /\ enrichedIds' \subseteq fetched' /\ Ids(buffer)' \subseteq fetched'
<1>1. CASE TickAt(TRUE) /\ TakenFrom(buffer)
  <2>1. TypeOK' /\ buffer' = <<>>
    BY <1>1, TickType, TickMoves DEF ProcTypeInv, ProcTypeOK
  <2>2. enrichedIds' = enrichedIds \cup Ids(buffer)
    BY <1>1, <2>1 DEF TakenFrom
  <2>3. Ids(buffer)' = {}
    BY <2>1, IdsEmpty DEF Ids
  <2> QED
    BY <2>1, <2>2, <2>3 DEF ProcTypeInv, ProcTypeOK, Polled
<1>2. CASE UNCHANGED <<vars, enrichedIds>>
  <2>1. UNCHANGED vars /\ enrichedIds' = enrichedIds
    BY <1>2
  <2>2. TypeOK' /\ buffer' = buffer
    BY <2>1, StutterType DEF vars, engineVars, ProcTypeInv, ProcTypeOK
  <2> QED
    BY <2>1, <2>2 DEF ProcTypeInv, ProcTypeOK, Polled, Ids
<1> QED
  BY <1>1, <1>2

\* The topic holds no more records than there are ids.
LEMMA TopicBounded ==
  ASSUME NEW s \in Seq(Article), \A o \in DOMAIN s : s[o].id = o
  PROVE  Len(s) \in 0..MaxRaw
<1>1. Len(s) \in Nat /\ MaxRaw \in Nat
  BY BoundAssumption
<1>2. CASE Len(s) # 0
  <2>1. Len(s) \in DOMAIN s /\ s[Len(s)] \in Article
    BY <1>1, <1>2
  <2>2. s[Len(s)].id = Len(s)
    BY <2>1
  <2> QED
    BY <2>1, <2>2, <1>1 DEF Article
<1> QED
  BY <1>1, <1>2

\* The steps that move no engine variable.
LEMMA LoopTypes ==
  ASSUME ProcTypeInv, ProcInv', UNCHANGED vars, Produce \/ Start \/ Poll \/ Commit \/ FlushRaises \/ Stop
  PROVE  ProcTypeInv'
<1>1. TypeOK' /\ buffer' = buffer
  BY StutterType DEF vars, engineVars, ProcTypeInv, ProcTypeOK
<1>2. /\ Len(topic) \in 0..MaxRaw /\ Len(topic') \in 0..MaxRaw
      /\ position \in Nat /\ offered \in Nat /\ MaxExits \in Nat
      /\ topic' \in Seq(Article)
  <2>1. topic \in Seq(Article) /\ \A o \in DOMAIN topic : topic[o].id = o
    BY DEF ProcTypeInv, ProcInv, Shape
  <2>2. topic' \in Seq(Article) /\ \A o \in DOMAIN topic' : topic'[o].id = o
    BY DEF ProcInv, Shape
  <2> QED
    BY <2>1, <2>2, TopicBounded, ProcessorAssumption DEF ProcTypeInv, ProcInv, Shape
<1> USE DEF ProcTypeInv, ProcTypeOK, Polled
<1>3. CASE Produce
  <2>1. UNCHANGED <<committed, loopVars, historyVars>> /\ Len(topic') = Len(topic) + 1
    BY <1>3 DEF Produce
  <2> QED
    BY <1>1, <1>2, <2>1 DEF loopVars, historyVars, Ids
<1>4. CASE Start
  <2>1. /\ UNCHANGED <<topic, committed, exits, fetched, enrichedIds, base>>
        /\ pc' = "poll" /\ uncommitted' = FALSE
        /\ position' = StartOffset /\ offered' = StartOffset /\ started' = StartOffset
    BY <1>4 DEF Start, kafkaVars
  <2>2. StartOffset \in 0..Len(topic)
    BY DEF StartOffset, ProcInv, Shape, Offsets
  <2>3. (offered' + 1)..position' = {} /\ started' \in 0..MaxRaw
    BY <1>2, <2>1, <2>2, BoundAssumption
  <2>4. position' \in 0..Len(topic') /\ offered' \in 0..position'
    BY <2>1, <2>2
  <2>5. fetched' \subseteq 1..Len(topic') /\ Ids(buffer)' \subseteq fetched'
    BY <1>1, <2>1 DEF Ids
  <2> QED
    BY <1>1, <1>2, <2>1, <2>3, <2>4, <2>5 DEF Pcs
<1>5. CASE Poll
  <2>1. PICK n \in 0..MaxPoll : /\ n <= Len(topic) - position
                                /\ position' = position + n
                                /\ fetched' = fetched \cup (position + 1)..(position + n)
    BY <1>5 DEF Poll
  <2>2. /\ UNCHANGED <<topic, committed, offered, uncommitted, exits, enrichedIds, started, base>>
        /\ pc' = "offer"
    BY <1>5 DEF Poll, kafkaVars
  <2>3. n \in Nat
    BY <2>1, ProcessorAssumption
  <2>4. position' \in 0..Len(topic') /\ offered' \in 0..position'
    BY <1>2, <2>1, <2>2, <2>3
  <2>5. fetched' \subseteq 1..Len(topic') /\ (offered' + 1)..position' \subseteq fetched'
    BY <1>2, <2>1, <2>2, <2>3
  <2> QED
    BY <1>1, <1>2, <2>1, <2>2, <2>4, <2>5 DEF Ids, Pcs
<1>6. CASE Commit
  <2>1. /\ UNCHANGED <<topic, position, offered, exits, fetched, enrichedIds, started>>
        /\ pc' = "poll"
        /\ committed' \in {committed, position} /\ base' \in {base, started}
        /\ uncommitted' \in {uncommitted, FALSE}
    BY <1>6 DEF Commit, CommitWhen
  <2>2. committed' \in 0..MaxRaw \cup {None} /\ base' \in 0..MaxRaw \cup {None}
    BY <1>2, <2>1, BoundAssumption
  <2> QED
    BY <1>1, <1>2, <2>1, <2>2 DEF Ids, Pcs
<1>7. CASE FlushRaises \/ Stop
  <2>1. /\ UNCHANGED <<topic, committed, position, offered, uncommitted, exits, fetched,
                       enrichedIds, started, base>>
        /\ pc' = "drain"
    BY <1>7 DEF FlushRaises, Stop, kafkaVars, historyVars
  <2> QED
    BY <1>1, <2>1 DEF Ids, Pcs
<1> QED
  BY <1>3, <1>4, <1>5, <1>6, <1>7

LEMMA OfferPolledTypes ==
  ASSUME ProcTypeInv, ProcInv', OfferPolled
  PROVE  ProcTypeInv'
<1> DEFINE a == topic[offered + 1]
<1>1. /\ Offer(a) /\ TakenFrom(Append(buffer, a))
      /\ offered < position /\ offered' = offered + 1 /\ uncommitted' = TRUE
      /\ UNCHANGED <<topic, committed, pc, position, exits, fetched, started, base>>
  BY DEF OfferPolled, kafkaVars
<1>2. /\ offered + 1 \in DOMAIN topic /\ offered + 1 \in (offered + 1)..position
      /\ offered' \in 0..position
  BY <1>1 DEF ProcTypeInv, ProcTypeOK
<1>3. a \in Article /\ a.id = offered + 1
  BY <1>2 DEF ProcTypeInv, ProcInv, Shape
<1> HIDE DEF a
<1>4. buffer' = Append(buffer, a) \/ buffer' = <<>>
  BY <1>1, OfferMoves
<1>5. Ids(Append(buffer, a)) = Ids(buffer) \cup {offered + 1}
  BY <1>3, IdsAppend DEF ProcTypeInv, ProcInv, Shape
<1>6. Ids(Append(buffer, a)) \subseteq fetched
  BY <1>2, <1>5 DEF ProcTypeInv, Polled
<1>7. Ids(buffer)' \subseteq fetched'
  <2>1. Ids(buffer)' = Ids(Append(buffer, a)) \/ Ids(buffer)' = {}
    BY <1>4, IdsEmpty DEF Ids
  <2> QED
    BY <2>1, <1>1, <1>6
<1>8. enrichedIds' \subseteq fetched'
  BY <1>1, <1>6 DEF TakenFrom, ProcTypeInv, ProcTypeOK
<1>9. TypeOK'
  BY <1>1, <1>3, OfferType DEF ProcTypeInv, ProcTypeOK
<1>10. (offered' + 1)..position' \subseteq fetched'
  <2>1. (offered + 2)..position \subseteq (offered + 1)..position
    BY DEF ProcTypeInv, ProcInv, Shape
  <2> QED
    BY <2>1, <1>1 DEF ProcTypeInv, Polled, ProcInv, Shape
<1> QED
  BY <1>1, <1>2, <1>7, <1>8, <1>9, <1>10 DEF ProcTypeInv, ProcTypeOK, Polled

LEMMA FlushingTypes ==
  ASSUME ProcTypeInv, ProcInv', TickLoop \/ Drain
  PROVE  ProcTypeInv'
<1>1. /\ \/ TickAt(TRUE) /\ TakenFrom(buffer)
         \/ UNCHANGED <<vars, enrichedIds>>
      /\ UNCHANGED <<topic, committed, position, offered, uncommitted, exits, fetched, started, base>>
      /\ pc' \in {"commit", "close"}
  BY DEF TickLoop, Drain, kafkaVars
<1>2. TypeOK' /\ enrichedIds' \subseteq fetched' /\ Ids(buffer)' \subseteq fetched'
  BY <1>1, FlushEnriches
<1> QED
  BY <1>1, <1>2 DEF ProcTypeInv, ProcTypeOK, Polled, Pcs

LEMMA ExitTypes ==
  ASSUME ProcTypeInv, ProcInv', Exit
  PROVE  ProcTypeInv'
<1>1. /\ exits' \in 0..MaxExits /\ pc' = "down" /\ uncommitted' = FALSE
      /\ position' = 0 /\ offered' = 0
      /\ UNCHANGED <<topic, committed, fetched, enrichedIds, started, base>>
  BY ProcessorAssumption DEF Exit, kafkaVars, historyVars, ProcTypeInv, ProcTypeOK
<1>2. TypeOK'
  <2>1. stats' \in Stats
    BY DEF Exit, ResetEngine, Stats, Counter
  <2>2. buffer' \in Seq(Article) /\ fired' \in Seq([key : Key, ids : SUBSET Nat])
    BY EmptySeq DEF Exit, ResetEngine
  <2> QED
    BY <2>1, <2>2, ValueAssumption DEF Exit, ResetEngine, TypeOK
<1>3. Ids(buffer)' = {} /\ (offered' + 1)..position' = {}
  BY <1>1, IdsEmpty DEF Exit, ResetEngine, Ids
<1>4. Len(topic) \in Nat
  BY DEF ProcTypeInv, ProcInv, Shape
<1>5. position' \in 0..Len(topic') /\ offered' \in 0..position'
  BY <1>1, <1>4
<1>6. ProcTypeOK'
  BY <1>1, <1>2, <1>5 DEF ProcTypeInv, ProcTypeOK, Pcs
<1>7. Polled'
  BY <1>3 DEF Polled
<1> QED
  BY <1>6, <1>7 DEF ProcTypeInv

LEMMA EngineTypes ==
  ASSUME ProcTypeInv, ProcInv', FlushStep \/ Elapse \/ UNCHANGED vars, UNCHANGED procVars
  PROVE  ProcTypeInv'
<1>1. TypeOK'
  BY FlushStepType, ElapseType, StutterType DEF ProcTypeInv, ProcTypeOK
<1>2. buffer' = buffer
  BY FlushStepMoves DEF vars, engineVars
<1> QED
  BY <1>1, <1>2 DEF procVars, kafkaVars, loopVars, historyVars, ProcTypeInv, ProcTypeOK, Polled, Ids

\* Every variable of the loop keeps its type, and so do the engine's, whose articles
\* come from the topic here: the process never offers more than it polled, nor polls
\* past the end of the topic, and only what some poll returned is enriched.
THEOREM ProcTypeCorrect == ProcSpec => []ProcTypeOK
<1>1. ProcInit => ProcTypeInv
  <2> SUFFICES ASSUME ProcInit PROVE ProcTypeInv
    OBVIOUS
  <2>1. TypeOK
    BY InitType DEF ProcInit
  <2>2. /\ topic = <<>> /\ buffer = <<>> /\ committed = None /\ base = None /\ pc = "down"
        /\ position = 0 /\ offered = 0 /\ started = 0 /\ fetched = {} /\ exits = 0
        /\ uncommitted = FALSE /\ enrichedIds = {}
    BY DEF ProcInit, Init, InitEngine
  <2>3. Ids(buffer) = {} /\ (offered + 1)..position = {} /\ Len(topic) = 0 /\ topic \in Seq(Article)
    BY <2>2, IdsEmpty
  <2>4. started \in 0..MaxRaw /\ exits \in 0..MaxExits
    BY <2>2, BoundAssumption, ProcessorAssumption
  <2>5. position \in 0..Len(topic) /\ offered \in 0..position
    BY <2>2, <2>3
  <2>6. ProcTypeOK
    BY <2>1, <2>2, <2>3, <2>4, <2>5 DEF ProcTypeOK, Pcs
  <2>7. Polled
    BY <2>3 DEF Polled
  <2> QED
    BY <2>6, <2>7, InitHolds DEF ProcTypeInv
<1>2. ProcTypeInv /\ ProcInv' /\ [ProcNext]_allVars => ProcTypeInv'
  <2> SUFFICES ASSUME ProcTypeInv, ProcInv', [ProcNext]_allVars PROVE ProcTypeInv'
    OBVIOUS
  <2>1. CASE Produce \/ Start \/ Poll \/ Commit \/ FlushRaises \/ Stop
    <3>1. UNCHANGED vars
      BY <2>1 DEF Produce, Start, Poll, Commit, CommitWhen, FlushRaises, Stop
    <3> QED
      BY <2>1, <3>1, LoopTypes
  <2>2. CASE Engine \/ UNCHANGED allVars
    BY <2>2, EngineTypes DEF Engine, allVars
  <2> QED
    BY <2>1, <2>2, OfferPolledTypes, FlushingTypes, ExitTypes DEF ProcNext, LoopStep, Close, Crash
<1>3. ProcTypeInv => ProcTypeOK
  BY DEF ProcTypeInv
<1> QED
  BY <1>1, <1>2, <1>3, ProcInvariant, PTL DEF ProcSpec

-----------------------------------------------------------------------------
(* Standalone: the node's engine is the engine, and what its threads hand  *)
(* on to it.                                                               *)

\* Entries of the bus, and articles a sweep is about to put there.
Entry == [kind : {"news"}, n : Id, ts : EventTime]
           \cup [kind : {"crisis", "filler"}, n : 0..MaxSims, ts : EventTime]
Parcel == [id : Id, ts : EventTime, sweep : Nat]

\* Everything this process has put on the bus, in order.
Line == origins \o bus

NodeTypes ==
  /\ now \in 0..MaxTime /\ begun \in 0..MaxTime /\ sweepNow \in 0..MaxTime
  /\ stamp \in [Id -> FeedDate \cup {None}]
  /\ expiry \in [Id -> Nat \cup {None}]
  /\ todo \subseteq Id /\ gone \subseteq Id
  /\ outbox \in Seq(Parcel) /\ bus \in Seq(Entry) /\ origins \in Seq(Entry)
  /\ slot \in Nat \cup {None} /\ sims \in 0..MaxSims /\ filler \in EventTime \cup {None}

\* As in IngestionProofs: the clocks of the sweep in progress, the age of what it
\* fetched, and that a claim lasts longer than its article stays inside the filter.
NodeSweeps ==
  /\ sweepNow <= now
  /\ sweep \in {"fetch", "claim", "send"} => begun <= now /\ now <= begun + MaxSweep
  /\ sweep \in {"claim", "send"} => begun <= sweepNow /\ now <= sweepNow + MaxClaiming
  /\ sweep # "claim" => todo = {}
  /\ sweep \notin {"claim", "send"} => outbox = <<>>
  /\ \A i \in Id : stamp[i] # None => stamp[i] <= now + MaxSkew
  /\ \A i \in todo : /\ stamp[i] \in FeedDate /\ stamp[i] >= begun - MaxAge
                     /\ stamp[i] <= sweepNow + MaxSkew
  /\ \A i \in Id : expiry[i] # None =>
       stamp[i] # None /\ stamp[i] <= expiry[i] - SeenTtl + MaxSkew

\* The clocks are numbers, and so are the dates and claims that are set.
LEMMA NodeNumbers ==
  /\ MaxTime \in Nat /\ MaxSims \in Nat /\ SlotTtl \in Nat /\ Margin \in Nat /\ Delay \in Nat
  /\ Size \in Nat \ {0} /\ Slide \in Nat \ {0}
  /\ MaxAge \in Nat /\ ClampAge \in Nat /\ SeenTtl \in Nat /\ MaxSkew \in Nat
  /\ MaxSweep \in Nat /\ MaxClaiming \in Nat
  /\ EventTime \subseteq Int /\ FeedDate \subseteq EventTime /\ 0..MaxTime \subseteq EventTime
  /\ None \notin Int /\ None \notin Id
  /\ \A t \in 0..MaxTime : FillerStamp(t) \in EventTime
<1>1. None \notin Id
  BY FeedAssumption
<1>2. \A t \in 0..MaxTime : FillerStamp(t) \in EventTime
  BY StampAssumption
<1>3. FeedDate \subseteq EventTime /\ 0..MaxTime \subseteq EventTime
  BY StampAssumption
<1> QED
  BY <1>1, <1>2, <1>3, NodeBounds, NodeAssumption, FeedAssumption, GeometryAssumption, ValueAssumption

\* What an entry of the bus carries.
LEMMA EntryFacts ==
  ASSUME NEW e \in Entry
  PROVE  /\ e.kind \in {"news", "crisis", "filler"}
         /\ e.ts \in EventTime /\ e.ts \in Int
         /\ e.kind = "news" => e.n \in Id
         /\ e.kind # "news" => e.n \in 0..MaxSims /\ e.n \in Int
<1>1. EventTime \subseteq Int /\ MaxSims \in Nat
  BY NodeNumbers
<1>2. CASE e \in [kind : {"news"}, n : Id, ts : EventTime]
  BY <1>1, <1>2
<1>3. CASE e \in [kind : {"crisis", "filler"}, n : 0..MaxSims, ts : EventTime]
  <2>1. e.kind \in {"crisis", "filler"} /\ e.n \in 0..MaxSims /\ e.ts \in EventTime
    BY <1>3
  <2>2. e.kind # "news"
    BY <2>1
  <2>3. \A x \in 0..MaxSims : x \in Int
    BY <1>1
  <2> QED
    BY <1>1, <2>1, <2>2, <2>3, Zenon
<1> QED
  BY <1>2, <1>3 DEF Entry

\* What an article in the outbox carries.
LEMMA ParcelFacts ==
  ASSUME NEW p \in Parcel
  PROVE  p.id \in Id /\ p.ts \in EventTime /\ p.ts \in Int
<1>1. EventTime \subseteq Int
  BY NodeNumbers
<1> QED
  BY <1>1 DEF Parcel

\* Appending and taking the tail, as the steps below use them.
LEMMA AppendFacts ==
  ASSUME NEW S, NEW s \in Seq(S), NEW e \in S
  PROVE  /\ Append(s, e) \in Seq(S)
         /\ Len(s) \in Nat /\ DOMAIN s = 1..Len(s)
         /\ Len(Append(s, e)) = Len(s) + 1
         /\ DOMAIN Append(s, e) = 1..(Len(s) + 1)
         /\ Append(s, e)[Len(s) + 1] = e
         /\ \A i \in 1..Len(s) : Append(s, e)[i] = s[i] /\ s[i] \in S
  BY AppendProperties, LenProperties, ElementOfSeq

LEMMA TailFacts ==
  ASSUME NEW S, NEW s \in Seq(S), s # <<>>
  PROVE  /\ Tail(s) \in Seq(S) /\ Head(s) \in S
         /\ Len(s) \in Nat \ {0} /\ DOMAIN s = 1..Len(s)
         /\ Len(Tail(s)) = Len(s) - 1
         /\ DOMAIN Tail(s) = 1..(Len(s) - 1)
         /\ Head(s) = s[1]
         /\ \A i \in 1..(Len(s) - 1) : Tail(s)[i] = s[i + 1]
  <1>1. Len(s) \in Nat \ {0}
    BY EmptySeq, LenProperties
  <1> QED
    BY <1>1, HeadTailProperties, LenProperties

LEMMA SeqFacts ==
  ASSUME NEW S, NEW s \in Seq(S)
  PROVE  Len(s) \in Nat /\ DOMAIN s = 1..Len(s) /\ \A i \in DOMAIN s : s[i] \in S
  BY LenProperties, ElementOfSeq

-----------------------------------------------------------------------------
\* Everything on the bus has gone through Put.
LEMMA PutTypes ==
  ASSUME NodeTypes, NEW r \in Entry, Put(r)
  PROVE  bus' \in Seq(Entry) /\ gone' \subseteq Id
<1>1. bus \in Seq(Entry) /\ gone \subseteq Id /\ (r.kind = "news" => r.n \in Id)
  BY EntryFacts DEF NodeTypes
<1>2. Append(bus, r) \in Seq(Entry)
  BY <1>1, AppendFacts
<1> QED
  BY <1>1, <1>2 DEF Put

\* What the steps of the sweep are, one by one.
LEMMA SweepSteps ==
  ASSUME SweepClaims
  PROVE  /\ UNCHANGED <<now, stamp, faults, vars, bus, round, simVars, origins, gone>>
         /\ \/ /\ sweep = "down" /\ sweep' = "idle"
               /\ UNCHANGED <<expiry, begun, sweepNow, todo, outbox>>
            \/ /\ sweep = "idle" /\ sweep' = "fetch" /\ begun' = now
               /\ UNCHANGED <<expiry, sweepNow, todo, outbox>>
            \/ /\ sweep = "fetch" /\ sweep' = "claim" /\ sweepNow' = now
               /\ todo' \subseteq {i \in Id : stamp[i] \in {ts \in FeedDate : ts >= begun - MaxAge}}
               /\ UNCHANGED <<expiry, begun, outbox>>
            \/ /\ sweep = "claim" /\ sweep' = "send" /\ todo = {}
               /\ UNCHANGED <<expiry, begun, sweepNow, todo, outbox>>
            \/ \E i \in todo :
               /\ sweep = "claim" /\ todo' = todo \ {i} /\ UNCHANGED <<sweep, begun, sweepNow>>
               /\ \/ expiry[i] # None /\ now < expiry[i] /\ UNCHANGED <<expiry, outbox>>
                  \/ /\ ~ (expiry[i] # None /\ now < expiry[i])
                     /\ expiry' = [expiry EXCEPT ![i] = now + SeenTtl]
                     /\ outbox' = Append(outbox, [id |-> i, sweep |-> sweepNow,
                          ts |-> IF stamp[i] >= sweepNow - ClampAge THEN stamp[i] ELSE sweepNow])
BY DEF SweepClaims, Sweep!Restart, Sweep!StartSweep, Sweep!FetchAll, Sweep!FetchWith, Sweep!ClaimsDone,
       Sweep!ClaimAndClamp, Sweep!Claimed, Sweep!Clamp, Sweep!kafkaVars

\* A claim that lapsed belongs to an article the age filter no longer lets through.
LEMMA LapsedAtNode ==
  ASSUME NodeTypes, NodeSweeps, sweep = "claim", NEW i \in todo,
         ~ (expiry[i] # None /\ now < expiry[i])
  PROVE  /\ expiry[i] = None /\ i \in Id /\ stamp[i] \in FeedDate /\ stamp[i] \in Int
         /\ begun <= sweepNow /\ stamp[i] <= sweepNow + MaxSkew
<1>1. /\ i \in Id /\ stamp[i] \in FeedDate /\ stamp[i] \in Int
      /\ now \in Int /\ begun \in Int /\ sweepNow \in Int
  BY NodeNumbers DEF NodeTypes, NodeSweeps
<1>2. /\ stamp[i] >= begun - MaxAge /\ now <= begun + MaxSweep
      /\ begun <= sweepNow /\ stamp[i] <= sweepNow + MaxSkew
  BY DEF NodeSweeps
<1>3. ASSUME expiry[i] # None PROVE FALSE
  <2>1. expiry[i] \in Nat /\ expiry[i] <= now
    BY <1>1, <1>3 DEF NodeTypes
  <2>2. stamp[i] <= expiry[i] - SeenTtl + MaxSkew
    BY <1>1, <1>3 DEF NodeSweeps
  <2>3. MaxAge + MaxSkew + MaxSweep < SeenTtl
    BY FeedAssumption
  <2> QED
    BY <1>1, <1>2, <2>1, <2>2, <2>3, NodeNumbers
<1> QED
  BY <1>1, <1>2, <1>3

\* What is held are articles.
LEMMA HeldAreIds ==
  ASSUME NodeTypes
  PROVE  Outbox \subseteq Id /\ Held \subseteq Id
<1>1. \A i \in DOMAIN outbox : outbox[i].id \in Id
  BY SeqFacts, ParcelFacts DEF NodeTypes
<1>2. \A i \in DOMAIN bus : bus[i].kind = "news" => bus[i].n \in Id
  BY SeqFacts, EntryFacts DEF NodeTypes
<1>3. \A i \in DOMAIN origins : origins[i].kind = "news" => origins[i].n \in Id
  BY SeqFacts, EntryFacts DEF NodeTypes
<1> QED
  BY <1>1, <1>2, <1>3 DEF Outbox, Held

\* What the steps of the pipeline thread and of a flush leave alone.
OutsideEngine == <<now, stamp, expiry, begun, sweepNow, todo, outbox, sweep, bus, slot, sims, filler,
                   origins, gone>>

LEMMA PipelineSteps ==
  ASSUME BusEmpty \/ TickRound \/ FlushRound \/ UNCHANGED nodeState
  PROVE  UNCHANGED OutsideEngine
BY DEF BusEmpty, TickRound, FlushRound, nodeState, nodeVars, feedVars, simVars, OutsideEngine

\* Every step of every thread keeps the types.
LEMMA NodeTypesStep ==
  ASSUME NodeTypes, NodeSweeps, [NodeNext]_nodeState
  PROVE  NodeTypes'
<1>0. /\ 0..MaxTime \subseteq EventTime /\ MaxTime \in Nat /\ SlotTtl \in Nat /\ MaxSims \in Nat
      /\ SeenTtl \in Nat
  BY NodeNumbers
<1>1. CASE Tock
  <2>1. now' \in 0..MaxTime
    BY <1>0, <1>1 DEF Tock, Sweep!Elapse, NodeTypes
  <2> QED
    BY <1>1, <2>1 DEF Tock, Sweep!Elapse, Sweep!sweepVars, simVars, NodeTypes
<1>2. ASSUME NEW i \in Id, NEW ts \in FeedDate, Publish(i, ts) PROVE NodeTypes'
  BY <1>2 DEF Publish, Sweep!Publish, Sweep!sweepVars, simVars, NodeTypes
<1>3. CASE SweepClaims
  <2>0. UNCHANGED <<now, stamp, simVars, bus, origins, gone>>
    BY <1>3, SweepSteps
  <2>1. begun' \in 0..MaxTime /\ sweepNow' \in 0..MaxTime /\ todo' \subseteq Id
    BY <1>3, SweepSteps DEF NodeTypes
  <2>2. expiry' \in [Id -> Nat \cup {None}] /\ outbox' \in Seq(Parcel)
    <3>1. CASE UNCHANGED <<expiry, outbox>>
      BY <3>1 DEF NodeTypes
    <3>2. ASSUME NEW i \in todo, sweep = "claim",
                 ~ (expiry[i] # None /\ now < expiry[i]),
                 expiry' = [expiry EXCEPT ![i] = now + SeenTtl],
                 outbox' = Append(outbox, [id |-> i, sweep |-> sweepNow,
                             ts |-> IF stamp[i] >= sweepNow - ClampAge THEN stamp[i] ELSE sweepNow])
          PROVE  expiry' \in [Id -> Nat \cup {None}] /\ outbox' \in Seq(Parcel)
      <4> DEFINE t == IF stamp[i] >= sweepNow - ClampAge THEN stamp[i] ELSE sweepNow
      <4>1. i \in Id /\ stamp[i] \in FeedDate
        BY <3>2, LapsedAtNode
      <4>2. t \in EventTime
        BY <1>0, <4>1, NodeNumbers DEF NodeTypes
      <4>3. now + SeenTtl \in Nat /\ sweepNow \in Nat
        BY <1>0 DEF NodeTypes
      <4> HIDE DEF t
      <4>4. [id |-> i, sweep |-> sweepNow, ts |-> t] \in Parcel
        BY <4>1, <4>2, <4>3 DEF Parcel
      <4>5. Append(outbox, [id |-> i, sweep |-> sweepNow, ts |-> t]) \in Seq(Parcel)
        BY <4>4, AppendFacts DEF NodeTypes
      <4> QED
        BY <3>2, <4>3, <4>5 DEF t, NodeTypes
    <3> QED
      BY <1>3, SweepSteps, <3>1, <3>2
  <2> QED
    BY <2>0, <2>1, <2>2 DEF NodeTypes, simVars
<1>4. CASE SendToBus
  <2>1. Head(outbox) \in Parcel /\ Tail(outbox) \in Seq(Parcel)
    BY <1>4, TailFacts DEF SendToBus, NodeTypes
  <2>2. [kind |-> "news", n |-> Head(outbox).id, ts |-> Head(outbox).ts] \in Entry
    BY <2>1, ParcelFacts DEF Entry
  <2>3. bus' \in Seq(Entry) /\ gone' \subseteq Id
    BY <1>4, <2>2, PutTypes DEF SendToBus
  <2> QED
    BY <1>4, <2>1, <2>3 DEF SendToBus, NodeTypes, simVars
<1>5. CASE SweepEnds
  BY <1>5 DEF SweepEnds, NodeTypes, simVars
<1>6. CASE SweepRaises
  <2>1. <<>> \in Seq(Parcel) /\ Outbox \subseteq Id
    BY EmptySeq, HeldAreIds
  <2> QED
    BY <1>6, <2>1 DEF SweepRaises, Sweep!SweepFails, NodeTypes, simVars
<1>7. CASE PublishCrisis
  <2>1. sims' \in 0..MaxSims /\ now \in EventTime /\ now + SlotTtl \in Nat
    BY <1>0, <1>7 DEF PublishCrisis, NodeTypes
  <2>2. [kind |-> "crisis", n |-> sims', ts |-> now] \in Entry
    BY <2>1 DEF Entry
  <2>3. bus' \in Seq(Entry) /\ gone' \subseteq Id
    BY <1>7, <2>2, PutTypes DEF PublishCrisis
  <2>4. FillerStamp(now) \in EventTime
    BY NodeNumbers DEF NodeTypes
  <2> QED
    BY <1>7, <2>1, <2>3, <2>4 DEF PublishCrisis, NodeTypes, feedVars
<1>8. CASE PublishFiller
  <2>1. filler \in EventTime
    BY <1>8 DEF PublishFiller, NodeTypes
  <2>2. bus' \in Seq(Entry) /\ gone' \subseteq Id
    <3>1. [kind |-> "filler", n |-> sims, ts |-> filler] \in Entry
      BY <2>1 DEF Entry, NodeTypes
    <3> QED
      BY <1>8, <3>1, PutTypes DEF PublishFiller
  <2> QED
    BY <1>8, <2>2 DEF PublishFiller, NodeTypes, feedVars
<1>9. CASE OfferFromBus
  <2>1. Head(bus) \in Entry /\ Tail(bus) \in Seq(Entry)
    BY <1>9, TailFacts DEF OfferFromBus, NodeTypes
  <2>2. Append(origins, Head(bus)) \in Seq(Entry)
    BY <2>1, AppendFacts DEF NodeTypes
  <2> QED
    BY <1>9, <2>1, <2>2 DEF OfferFromBus, NodeTypes, feedVars, simVars
<1>10. CASE BusEmpty \/ TickRound \/ FlushRound \/ UNCHANGED nodeState
  BY <1>10, PipelineSteps DEF OutsideEngine, NodeTypes
<1>11. CASE RestartNode
  <2>1. <<>> \in Seq(Parcel) /\ <<>> \in Seq(Entry) /\ Held \subseteq Id
    BY EmptySeq, HeldAreIds
  <2> QED
    BY <1>0, <1>11, <2>1 DEF RestartNode, NodeTypes
<1> QED
  BY <1>1, <1>2, <1>3, <1>4, <1>5, <1>6, <1>7, <1>8, <1>9, <1>10, <1>11 DEF NodeNext, OtherThread

\* Every step keeps the clocks of a sweep and the lapse of the claims in order.
LEMMA NodeSweepsStep ==
  ASSUME NodeTypes, NodeSweeps, [NodeNext]_nodeState
  PROVE  NodeSweeps'
<1>0. /\ now \in Int /\ begun \in Int /\ sweepNow \in Int
      /\ MaxAge \in Nat /\ ClampAge \in Nat /\ SeenTtl \in Nat /\ MaxSkew \in Nat
      /\ MaxSweep \in Nat /\ MaxClaiming \in Nat
      /\ \A i \in Id : stamp[i] # None => stamp[i] \in Int /\ stamp[i] \in FeedDate
      /\ \A i \in Id : expiry[i] # None => expiry[i] \in Int
      /\ \A ts \in FeedDate : ts \in Int
      /\ None \notin Int
  <2>1. \A ts \in FeedDate : ts \in Int
    BY NodeNumbers
  <2>2. \A i \in Id : stamp[i] \in FeedDate \cup {None} /\ expiry[i] \in Nat \cup {None}
    BY DEF NodeTypes
  <2>3. now \in Int /\ begun \in Int /\ sweepNow \in Int
    BY NodeNumbers DEF NodeTypes
  <2>4. /\ MaxAge \in Nat /\ ClampAge \in Nat /\ SeenTtl \in Nat /\ MaxSkew \in Nat
        /\ MaxSweep \in Nat /\ MaxClaiming \in Nat /\ None \notin Int
    BY NodeNumbers
  <2>5. \A i \in Id : expiry[i] # None => expiry[i] \in Int
    BY <2>2
  <2> QED
    BY <2>1, <2>2, <2>3, <2>4, <2>5
<1>1. CASE Tock
  <2>1. /\ now' = now + 1
        /\ sweep \in {"claim", "send"} => now < sweepNow + MaxClaiming
        /\ sweep \in {"fetch", "claim", "send"} => now < begun + MaxSweep
        /\ UNCHANGED <<stamp, expiry, begun, sweepNow, todo, outbox, sweep>>
    BY <1>1 DEF Tock, Sweep!Elapse, Sweep!Sweeping, Sweep!sweepVars
  <2> QED
    BY <1>0, <2>1 DEF NodeSweeps
<1>2. ASSUME NEW i \in Id, NEW ts \in FeedDate, Publish(i, ts) PROVE NodeSweeps'
  <2>1. /\ stamp[i] = None /\ ts <= now + MaxSkew
        /\ stamp' = [stamp EXCEPT ![i] = ts] /\ stamp \in [Id -> FeedDate \cup {None}]
        /\ UNCHANGED <<now, expiry, begun, sweepNow, todo, outbox, sweep>>
    BY <1>2 DEF Publish, Sweep!Publish, Sweep!sweepVars, NodeTypes
  <2>2. stamp'[i] = ts /\ \A x \in Id \ {i} : stamp'[x] = stamp[x]
    BY <2>1
  <2>3. i \notin todo /\ expiry[i] = None
    BY <1>0, <2>1 DEF NodeSweeps
  <2> QED
    BY <1>0, <2>1, <2>2, <2>3 DEF NodeSweeps, NodeTypes
<1>3. CASE SweepClaims
  <2>0. UNCHANGED <<now, stamp>>
    BY <1>3, SweepSteps
  <2>1. CASE sweep = "down" /\ sweep' = "idle" /\ UNCHANGED <<expiry, begun, sweepNow, todo, outbox>>
    BY <2>0, <2>1 DEF NodeSweeps
  <2>2. CASE sweep = "idle" /\ sweep' = "fetch" /\ begun' = now
             /\ UNCHANGED <<expiry, sweepNow, todo, outbox>>
    BY <1>0, <2>0, <2>2 DEF NodeSweeps
  <2>3. CASE /\ sweep = "fetch" /\ sweep' = "claim" /\ sweepNow' = now
             /\ todo' \subseteq {i \in Id : stamp[i] \in {ts \in FeedDate : ts >= begun - MaxAge}}
             /\ UNCHANGED <<expiry, begun, outbox>>
    BY <1>0, <2>0, <2>3 DEF NodeSweeps
  <2>4. CASE sweep = "claim" /\ sweep' = "send" /\ todo = {}
             /\ UNCHANGED <<expiry, begun, sweepNow, todo, outbox>>
    BY <2>0, <2>4 DEF NodeSweeps
  <2>5. ASSUME NEW i \in todo, sweep = "claim", todo' = todo \ {i}, UNCHANGED <<sweep, begun, sweepNow>>,
               UNCHANGED expiry
        PROVE  NodeSweeps'
    BY <2>0, <2>5 DEF NodeSweeps
  <2>6. ASSUME NEW i \in todo, sweep = "claim", todo' = todo \ {i}, UNCHANGED <<sweep, begun, sweepNow>>,
               ~ (expiry[i] # None /\ now < expiry[i]),
               expiry' = [expiry EXCEPT ![i] = now + SeenTtl]
        PROVE  NodeSweeps'
    <3>1. stamp[i] \in Int /\ i \in Id /\ stamp[i] <= now + MaxSkew
      BY <2>6, LapsedAtNode, <1>0 DEF NodeSweeps
    <3>2. expiry'[i] = now + SeenTtl /\ \A x \in Id \ {i} : expiry'[x] = expiry[x]
      BY <2>6, <3>1 DEF NodeTypes
    <3>3. \A x \in Id : expiry'[x] # None =>
            stamp[x] # None /\ stamp[x] <= expiry'[x] - SeenTtl + MaxSkew
      BY <1>0, <3>1, <3>2 DEF NodeSweeps
    <3> QED
      BY <2>0, <2>6, <3>3 DEF NodeSweeps
  <2> QED
    BY <1>3, SweepSteps, <2>1, <2>2, <2>3, <2>4, <2>5, <2>6
<1>4. CASE SendToBus
  BY <1>4 DEF SendToBus, NodeSweeps
<1>5. CASE SweepEnds
  BY <1>5 DEF SweepEnds, NodeSweeps
<1>6. CASE SweepRaises
  BY <1>6 DEF SweepRaises, Sweep!SweepFails, NodeSweeps
<1>7. CASE PublishCrisis \/ PublishFiller
  BY <1>7 DEF PublishCrisis, PublishFiller, feedVars, NodeSweeps
<1>9. CASE OfferFromBus
  BY <1>9 DEF OfferFromBus, feedVars, NodeSweeps
<1>10. CASE BusEmpty \/ TickRound \/ FlushRound \/ UNCHANGED nodeState
  BY <1>10, PipelineSteps DEF OutsideEngine, NodeSweeps
<1>11. CASE RestartNode
  BY <1>0, <1>11 DEF RestartNode, NodeSweeps, NodeTypes
<1> QED
  BY <1>1, <1>2, <1>3, <1>4, <1>5, <1>6, <1>7, <1>9, <1>10, <1>11 DEF NodeNext, OtherThread

-----------------------------------------------------------------------------
(* The line: what the engine was offered, followed by what the bus holds.  *)

NewsIn(s) == {s[i].n : i \in {x \in DOMAIN s : s[x].kind = "news"}}

\* The line, index by index.
LEMMA LineFacts ==
  ASSUME NodeTypes
  PROVE  /\ Line \in Seq(Entry) /\ Len(origins) \in Nat /\ Len(bus) \in Nat
         /\ Len(Line) = Len(origins) + Len(bus)
         /\ DOMAIN Line = 1..(Len(origins) + Len(bus))
         /\ DOMAIN origins = 1..Len(origins) /\ DOMAIN bus = 1..Len(bus)
         /\ \A i \in 1..Len(origins) : Line[i] = origins[i]
         /\ \A i \in 1..Len(bus) : Line[Len(origins) + i] = bus[i]
<1>1. origins \in Seq(Entry) /\ bus \in Seq(Entry)
  BY DEF NodeTypes
<1>2. /\ Line \in Seq(Entry) /\ Len(Line) = Len(origins) + Len(bus)
      /\ \A i \in 1..Len(Line) :
           Line[i] = IF i <= Len(origins) THEN origins[i] ELSE bus[i - Len(origins)]
  BY <1>1, ConcatProperties DEF Line
<1>3. Len(origins) \in Nat /\ Len(bus) \in Nat /\ DOMAIN origins = 1..Len(origins) /\ DOMAIN bus = 1..Len(bus)
      /\ DOMAIN Line = 1..Len(Line)
  BY <1>1, <1>2, LenProperties
<1> QED
  BY <1>2, <1>3

LEMMA LineEntries ==
  ASSUME NodeTypes, NEW i \in DOMAIN Line
  PROVE  Line[i] \in Entry /\ i \in Nat
BY LineFacts, SeqFacts

\* An entry put on the bus is at the end of the line.
LEMMA LinePut ==
  ASSUME NodeTypes, NEW r \in Entry, bus' = Append(bus, r), UNCHANGED origins
  PROVE  Line' = Append(Line, r)
<1>1. origins \in Seq(Entry) /\ bus \in Seq(Entry) /\ <<r>> \in Seq(Entry)
  BY DEF NodeTypes
<1>2. Append(bus, r) = bus \o <<r>>
  BY <1>1, AppendIsConcat
<1>3. Append(origins \o bus, r) = (origins \o bus) \o <<r>>
  <2>1. origins \o bus \in Seq(Entry)
    BY <1>1, ConcatProperties
  <2> QED
    BY <2>1, AppendIsConcat
<1>4. origins \o (bus \o <<r>>) = (origins \o bus) \o <<r>>
  BY <1>1, ConcatAssociative
<1> QED
  BY <1>2, <1>3, <1>4 DEF Line

\* Draining the bus moves the line's middle, not the line.
LEMMA LineMoves ==
  ASSUME NodeTypes, bus # <<>>, bus' = Tail(bus), origins' = Append(origins, Head(bus))
  PROVE  Line' = Line
<1>1. origins \in Seq(Entry) /\ bus \in Seq(Entry) /\ Head(bus) \in Entry /\ Tail(bus) \in Seq(Entry)
      /\ <<Head(bus)>> \in Seq(Entry)
  BY TailFacts DEF NodeTypes
<1>2. Append(origins, Head(bus)) = origins \o <<Head(bus)>>
  BY <1>1, AppendIsConcat
<1>3. (origins \o <<Head(bus)>>) \o Tail(bus) = origins \o (<<Head(bus)>> \o Tail(bus))
  BY <1>1, ConcatAssociative
<1>4. bus = <<Head(bus)>> \o Tail(bus)
  BY <1>1, SMT
<1> QED
  BY <1>2, <1>3, <1>4 DEF Line

\* The news of the line after an entry more, ...
LEMMA NewsAppend ==
  ASSUME NEW s \in Seq(Entry), NEW r \in Entry
  PROVE  NewsIn(Append(s, r)) = NewsIn(s) \cup (IF r.kind = "news" THEN {r.n} ELSE {})
<1>1. /\ DOMAIN s = 1..Len(s) /\ DOMAIN Append(s, r) = 1..(Len(s) + 1) /\ Len(s) \in Nat
      /\ Append(s, r)[Len(s) + 1] = r /\ \A i \in 1..Len(s) : Append(s, r)[i] = s[i]
  BY AppendFacts
<1>2. DOMAIN Append(s, r) = DOMAIN s \cup {Len(s) + 1}
  BY <1>1
<1> QED
  BY <1>1, <1>2, Zenon DEF NewsIn

\* ... and the outbox after a parcel more.
LEMMA OutboxAppend ==
  ASSUME NEW s \in Seq(Parcel), NEW p \in Parcel
  PROVE  Ids(Append(s, p)) = Ids(s) \cup {p.id}
<1>1. /\ DOMAIN s = 1..Len(s) /\ DOMAIN Append(s, p) = 1..(Len(s) + 1) /\ Len(s) \in Nat
      /\ Append(s, p)[Len(s) + 1] = p /\ \A i \in 1..Len(s) : Append(s, p)[i] = s[i]
  BY AppendFacts
<1>2. DOMAIN Append(s, p) = DOMAIN s \cup {Len(s) + 1}
  BY <1>1
<1> QED
  BY <1>1, <1>2, Zenon DEF Ids

\* Held in terms of the line.
LEMMA HeldIs ==
  ASSUME NodeTypes
  PROVE  Held = Outbox \cup NewsIn(Line)
<1>1. /\ DOMAIN Line = 1..(Len(origins) + Len(bus)) /\ Len(origins) \in Nat /\ Len(bus) \in Nat
      /\ DOMAIN origins = 1..Len(origins) /\ DOMAIN bus = 1..Len(bus)
      /\ \A i \in 1..Len(origins) : Line[i] = origins[i]
      /\ \A i \in 1..Len(bus) : Line[Len(origins) + i] = bus[i]
  BY LineFacts
<1>2. ASSUME NEW i \in DOMAIN Line
      PROVE  i \in DOMAIN origins \/ (i - Len(origins) \in DOMAIN bus /\ Line[i] = bus[i - Len(origins)])
  BY <1>1
<1>3. \A i \in DOMAIN bus : Len(origins) + i \in DOMAIN Line
  BY <1>1
<1>4. \A i \in DOMAIN origins : i \in DOMAIN Line
  BY <1>1
<1>5. \A x \in NewsIn(Line) : x \in Held
  BY <1>1, <1>2 DEF NewsIn, Held
<1>6. \A x \in Held : x \in Outbox \/ x \in NewsIn(Line)
  BY <1>1, <1>3, <1>4 DEF NewsIn, Held
<1>7. Outbox \subseteq Held
  BY DEF Held
<1> QED
  BY <1>5, <1>6, <1>7

-----------------------------------------------------------------------------
(* Where claimed articles are.                                             *)

\* A claimed article is gone, in the outbox or in the line, and there only once.
Whereabouts ==
  /\ \A i \in Id : expiry[i] # None <=> i \in gone \cup Outbox \cup NewsIn(Line)
  /\ gone \cap Outbox = {} /\ gone \cap NewsIn(Line) = {} /\ Outbox \cap NewsIn(Line) = {}
  /\ \A i, j \in DOMAIN outbox : outbox[i].id = outbox[j].id => i = j
  /\ \A i, j \in DOMAIN Line :
       Line[i].kind = "news" /\ Line[j].kind = "news" /\ Line[i].n = Line[j].n => i = j

\* What moves no article leaves them where they are.
LEMMA WhereFrame ==
  ASSUME Whereabouts, UNCHANGED <<expiry, outbox, gone>>, Line' = Line
  PROVE  Whereabouts'
BY DEF Whereabouts, Outbox

LEMMA LineSame ==
  ASSUME UNCHANGED <<bus, origins>>
  PROVE  Line' = Line
BY DEF Line

\* What Put does to the line, for an entry r.
LEMMA PutLine ==
  ASSUME NodeTypes, NEW r \in Entry, Put(r), UNCHANGED origins
  PROVE  \/ Line' = Append(Line, r) /\ UNCHANGED gone
         \/ Line' = Line /\ gone' = gone \cup (IF r.kind = "news" THEN {r.n} ELSE {})
<1>1. CASE Len(bus) < BusMax
  BY <1>1, LinePut DEF Put
<1>2. CASE ~ (Len(bus) < BusMax)
  BY <1>2, LineSame DEF Put
<1> QED
  BY <1>1, <1>2

\* What an entry more does to the news in the line.
LEMMA LineAppend ==
  ASSUME NodeTypes, NEW r \in Entry, Line' = Append(Line, r)
  PROVE  /\ NewsIn(Line') = NewsIn(Line) \cup (IF r.kind = "news" THEN {r.n} ELSE {})
         /\ Len(Line) \in Nat /\ DOMAIN Line = 1..Len(Line)
         /\ DOMAIN Line' = DOMAIN Line \cup {Len(Line) + 1}
         /\ Line'[Len(Line) + 1] = r
         /\ \A i \in DOMAIN Line : Line'[i] = Line[i] /\ i < Len(Line) + 1
         /\ \A i \in DOMAIN Line : Line[i].kind = "news" => Line[i].n \in NewsIn(Line)
<1>1. Line \in Seq(Entry)
  BY LineFacts
<1>2. /\ DOMAIN Line = 1..Len(Line) /\ DOMAIN Line' = 1..(Len(Line) + 1) /\ Len(Line) \in Nat
      /\ Line'[Len(Line) + 1] = r /\ \A i \in 1..Len(Line) : Line'[i] = Line[i]
  BY <1>1, AppendFacts
<1>3. NewsIn(Line') = NewsIn(Line) \cup (IF r.kind = "news" THEN {r.n} ELSE {})
  BY <1>1, NewsAppend
<1>4. \A i \in DOMAIN Line : Line[i].kind = "news" => Line[i].n \in NewsIn(Line)
  BY DEF NewsIn
<1> QED
  BY <1>2, <1>3, <1>4

\* A crisis or a filler moves no article.
LEMMA WherePutOther ==
  ASSUME NodeTypes, Whereabouts, NEW r \in Entry, r.kind # "news", Put(r),
         UNCHANGED <<expiry, outbox, origins>>
  PROVE  Whereabouts'
<1>1. CASE Line' = Line /\ UNCHANGED gone
  BY <1>1, WhereFrame
<1>2. CASE Line' = Append(Line, r) /\ UNCHANGED gone
  <2>1. NewsIn(Line)' = NewsIn(Line)
    BY <1>2, LineAppend DEF NewsIn
  <2>2. \A i, j \in DOMAIN Line' :
          Line'[i].kind = "news" /\ Line'[j].kind = "news" /\ Line'[i].n = Line'[j].n => i = j
    BY <1>2, LineAppend DEF Whereabouts
  <2>3. Outbox' = Outbox
    BY DEF Outbox
  <2> QED
    BY <1>2, <2>1, <2>2, <2>3 DEF Whereabouts
<1> QED
  BY <1>1, <1>2, PutLine

\* The next article of the outbox goes to the line, or is gone with a full bus.
LEMMA WhereSend ==
  ASSUME NodeTypes, Whereabouts, SendToBus
  PROVE  Whereabouts'
<1> DEFINE h == Head(outbox)
           r == [kind |-> "news", n |-> h.id, ts |-> h.ts]
<1>1. /\ h \in Parcel /\ DOMAIN outbox = 1..Len(outbox) /\ Len(outbox) \in Nat \ {0}
      /\ outbox' = Tail(outbox) /\ DOMAIN outbox' = 1..(Len(outbox) - 1) /\ h = outbox[1]
      /\ \A i \in 1..(Len(outbox) - 1) : outbox'[i] = outbox[i + 1]
  BY TailFacts DEF SendToBus, NodeTypes
<1>2. r \in Entry /\ r.kind = "news" /\ r.n = h.id /\ h.id \in Id
  BY <1>1, ParcelFacts DEF Entry
<1>3. Put(r) /\ UNCHANGED <<expiry, origins>>
  BY DEF SendToBus
<1> HIDE DEF r, h
<1>4. \A i \in DOMAIN outbox' : i + 1 \in DOMAIN outbox /\ i + 1 # 1 /\ outbox'[i] = outbox[i + 1]
  BY <1>1
<1>5. \A i \in DOMAIN outbox : i = 1 \/ (i - 1 \in DOMAIN outbox' /\ outbox'[i - 1] = outbox[i])
  BY <1>1
<1>6. 1 \in DOMAIN outbox /\ h.id \in Outbox
  BY <1>1 DEF Outbox
<1>7. h.id \notin Outbox'
  BY <1>1, <1>4, <1>6 DEF Whereabouts, Outbox
<1>8. Outbox = Outbox' \cup {h.id}
  <2>1. \A x \in Outbox' : x \in Outbox
    BY <1>4 DEF Outbox
  <2>2. \A x \in Outbox : x = h.id \/ x \in Outbox'
    BY <1>1, <1>5 DEF Outbox
  <2> QED
    BY <1>6, <2>1, <2>2
<1>9. \A i, j \in DOMAIN outbox' : outbox'[i].id = outbox'[j].id => i = j
  <2> SUFFICES ASSUME NEW i \in DOMAIN outbox', NEW j \in DOMAIN outbox', outbox'[i].id = outbox'[j].id
               PROVE  i = j
    OBVIOUS
  <2>1. i + 1 = j + 1 /\ i \in Nat /\ j \in Nat
    BY <1>1, <1>4 DEF Whereabouts
  <2> QED
    BY <2>1
<1>10. CASE Line' = Append(Line, r) /\ UNCHANGED gone
  <2>1. NewsIn(Line)' = NewsIn(Line) \cup {h.id}
    BY <1>2, <1>10, LineAppend DEF NewsIn
  <2>2. h.id \notin NewsIn(Line) /\ h.id \notin gone
    BY <1>6 DEF Whereabouts
  <2>3. \A i, j \in DOMAIN Line' :
          Line'[i].kind = "news" /\ Line'[j].kind = "news" /\ Line'[i].n = Line'[j].n => i = j
    BY <1>2, <1>10, <2>2, LineAppend DEF Whereabouts
  <2> QED
    BY <1>3, <1>7, <1>8, <1>9, <1>10, <2>1, <2>2, <2>3 DEF Whereabouts
<1>11. CASE Line' = Line /\ gone' = gone \cup {h.id}
  <2>1. NewsIn(Line)' = NewsIn(Line)
    BY <1>11 DEF NewsIn
  <2>2. h.id \notin NewsIn(Line)
    BY <1>6 DEF Whereabouts
  <2> QED
    BY <1>3, <1>7, <1>8, <1>9, <1>11, <2>1, <2>2 DEF Whereabouts
<1> QED
  BY <1>2, <1>3, <1>10, <1>11, PutLine

\* Only an article that was never claimed is claimed: see LapsedAtNode.
LEMMA WhereClaim ==
  ASSUME NodeTypes, NodeSweeps, Whereabouts, SweepClaims
  PROVE  Whereabouts'
<1>1. Line' = Line /\ UNCHANGED gone
  BY SweepSteps, LineSame
<1>2. CASE UNCHANGED <<expiry, outbox>>
  BY <1>1, <1>2, WhereFrame
<1>3. ASSUME NEW i \in todo, sweep = "claim", ~ (expiry[i] # None /\ now < expiry[i]),
             expiry' = [expiry EXCEPT ![i] = now + SeenTtl],
             outbox' = Append(outbox, [id |-> i, sweep |-> sweepNow,
                         ts |-> IF stamp[i] >= sweepNow - ClampAge THEN stamp[i] ELSE sweepNow])
      PROVE  Whereabouts'
  <2> DEFINE t == IF stamp[i] >= sweepNow - ClampAge THEN stamp[i] ELSE sweepNow
             p == [id |-> i, sweep |-> sweepNow, ts |-> t]
  <2>1. i \in Id /\ stamp[i] \in FeedDate /\ expiry[i] = None
    BY <1>3, LapsedAtNode
  <2>2. now + SeenTtl # None /\ sweepNow \in Nat /\ t \in EventTime
    <3>1. now \in 0..MaxTime /\ sweepNow \in 0..MaxTime
      BY DEF NodeTypes
    <3>2. MaxTime \in Nat /\ SeenTtl \in Nat /\ None \notin Int
      BY NodeNumbers
    <3>3. FeedDate \subseteq EventTime /\ 0..MaxTime \subseteq EventTime
      BY NodeNumbers
    <3>4. t \in EventTime
      BY <2>1, <3>1, <3>3
    <3> QED
      BY <3>1, <3>2, <3>4
  <2> HIDE DEF t
  <2>3. p \in Parcel /\ p.id = i
    BY <2>1, <2>2 DEF Parcel
  <2> HIDE DEF p
  <2>4. outbox' = Append(outbox, p)
    BY <1>3, Zenon DEF p, t
  <2>5. expiry'[i] = now + SeenTtl /\ \A x \in Id \ {i} : expiry'[x] = expiry[x]
    BY <1>3, <2>1 DEF NodeTypes
  <2>6. Outbox' = Outbox \cup {i}
    <3>1. Ids(Append(outbox, p)) = Ids(outbox) \cup {i}
      BY <2>3, OutboxAppend DEF NodeTypes
    <3>2. Outbox = Ids(outbox) /\ Outbox' = Ids(outbox')
      BY DEF Outbox, Ids
    <3> QED
      BY <2>4, <3>1, <3>2
  <2>7. i \notin gone /\ i \notin Outbox /\ i \notin NewsIn(Line)
    BY <2>1 DEF Whereabouts
  <2>8. NewsIn(Line)' = NewsIn(Line)
    BY <1>1 DEF NewsIn
  <2>9. \A x, y \in DOMAIN outbox' : outbox'[x].id = outbox'[y].id => x = y
    <3>1. /\ DOMAIN outbox = 1..Len(outbox) /\ Len(outbox) \in Nat
          /\ DOMAIN outbox' = 1..(Len(outbox) + 1) /\ outbox'[Len(outbox) + 1] = p
          /\ \A x \in 1..Len(outbox) : outbox'[x] = outbox[x]
      BY <2>3, <2>4, AppendFacts DEF NodeTypes
    <3>2. \A x \in DOMAIN outbox' : x = Len(outbox) + 1 \/ (x \in DOMAIN outbox /\ outbox'[x].id # i)
      BY <2>7, <3>1 DEF Outbox
    <3> QED
      BY <2>3, <3>1, <3>2 DEF Whereabouts
  <2>10. \A x \in Id : expiry'[x] # None <=> x \in gone \cup Outbox' \cup NewsIn(Line)
    BY <2>1, <2>2, <2>5, <2>6 DEF Whereabouts
  <2> QED
    BY <1>1, <2>6, <2>7, <2>8, <2>9, <2>10 DEF Whereabouts
<1> QED
  BY SweepSteps, <1>2, <1>3

LEMMA WhereStep ==
  ASSUME NodeTypes, NodeSweeps, Whereabouts, [NodeNext]_nodeState
  PROVE  Whereabouts'
<1>1. CASE Tock
  BY <1>1, LineSame, WhereFrame DEF Tock, Sweep!Elapse, Sweep!sweepVars
<1>2. ASSUME NEW i \in Id, NEW ts \in FeedDate, Publish(i, ts) PROVE Whereabouts'
  BY <1>2, LineSame, WhereFrame DEF Publish, Sweep!Publish, Sweep!sweepVars
<1>3. CASE SweepClaims
  BY <1>3, WhereClaim
<1>4. CASE SendToBus
  BY <1>4, WhereSend
<1>5. CASE SweepEnds
  BY <1>5, LineSame, WhereFrame DEF SweepEnds
<1>6. CASE SweepRaises
  <2>1. /\ outbox' = <<>> /\ gone' = gone \cup Outbox /\ UNCHANGED expiry
        /\ Line' = Line /\ DOMAIN <<>> = {}
    BY <1>6, LineSame DEF SweepRaises, Sweep!SweepFails
  <2>2. Outbox' = {} /\ NewsIn(Line)' = NewsIn(Line)
    BY <2>1 DEF Outbox, NewsIn
  <2> QED
    BY <2>1, <2>2 DEF Whereabouts
<1>7. CASE PublishCrisis
  <2>1. [kind |-> "crisis", n |-> sims', ts |-> now] \in Entry
    BY <1>7, NodeNumbers DEF PublishCrisis, NodeTypes, Entry
  <2> QED
    BY <1>7, <2>1, WherePutOther DEF PublishCrisis, feedVars
<1>8. CASE PublishFiller
  <2>1. [kind |-> "filler", n |-> sims, ts |-> filler] \in Entry
    BY <1>8 DEF PublishFiller, NodeTypes, Entry
  <2> QED
    BY <1>8, <2>1, WherePutOther DEF PublishFiller, feedVars
<1>9. CASE OfferFromBus
  BY <1>9, LineMoves, WhereFrame DEF OfferFromBus, feedVars
<1>10. CASE BusEmpty \/ TickRound \/ FlushRound \/ UNCHANGED nodeState
  BY <1>10, PipelineSteps, LineSame, WhereFrame DEF OutsideEngine
<1>11. CASE RestartNode
  <2>1. /\ outbox' = <<>> /\ bus' = <<>> /\ origins' = <<>> /\ gone' = gone \cup Held /\ UNCHANGED expiry
        /\ DOMAIN <<>> = {} /\ <<>> \o <<>> = <<>>
    BY <1>11 DEF RestartNode
  <2>2. Line' = <<>> /\ Outbox' = {} /\ NewsIn(Line)' = {}
    BY <2>1 DEF Line, Outbox, NewsIn
  <2> QED
    BY <2>1, <2>2, HeldIs DEF Whereabouts
<1> QED
  BY <1>1, <1>2, <1>3, <1>4, <1>5, <1>6, <1>7, <1>8, <1>9, <1>10, <1>11 DEF NodeNext, OtherThread

-----------------------------------------------------------------------------
(* The engine of the node.                                                 *)

\* An article the engine was offered for an entry of o.
FromEntry(a, o) ==
  /\ a.id \in DOMAIN o /\ a.ts = o[a.id].ts
  /\ a.tickers \in {{}, {TickerOf(o[a.id])}}

\* Every entry offered became one article, which is in the buffer, in the batch or
\* placed, in the order of the line.
Links ==
  /\ Len(origins) = stats.raw_in
  /\ phase # "placing" => batch = {}
  /\ phase # "idle" => buffer = <<>>
  /\ \A n \in DOMAIN buffer : FromEntry(buffer[n], origins)
  /\ \A a \in batch : FromEntry(a, origins)
  /\ \A j \in judged : FromEntry(j.article, origins)
  /\ \A m, n \in DOMAIN buffer : m < n => buffer[m].id < buffer[n].id
  /\ \A a, b \in batch : a.id = b.id => a = b
  /\ \A j \in judged : /\ \A a \in batch : j.article.id < a.id
                       /\ \A n \in DOMAIN buffer : j.article.id < buffer[n].id
  /\ \A i \in DOMAIN origins : i \in Ids(buffer) \cup {a.id : a \in batch} \/ Placed(i)

LEMMA LinksFrame ==
  ASSUME Links, UNCHANGED <<origins, buffer, batch, judged>>, stats'.raw_in = stats.raw_in,
         phase' # "placing" => batch = {}, phase' # "idle" => buffer = <<>>
  PROVE  Links'
BY DEF Links, Placed

\* What happens to the articles p that wait: they stay, or become the batch.
LEMMA LinksWaiting ==
  ASSUME NEW p \in Seq(Article),
         \/ buffer' = p /\ batch' = {} /\ phase' = "idle"
         \/ buffer' = <<>> /\ batch' = {p[n] : n \in DOMAIN p} /\ phase' = "placing",
         UNCHANGED judged, Len(origins') = stats'.raw_in,
         \A n \in DOMAIN p : FromEntry(p[n], origins'),
         \A j \in judged : FromEntry(j.article, origins'),
         \A m, n \in DOMAIN p : m < n => p[m].id < p[n].id,
         \A j \in judged : \A n \in DOMAIN p : j.article.id < p[n].id,
         \A i \in DOMAIN origins' : i \in Ids(p) \/ Placed(i)
  PROVE  Links'
<1>0. DOMAIN <<>> = {} /\ \A n \in DOMAIN p : n \in Nat /\ p[n].id \in Nat
  <2>1. \A n \in DOMAIN p : n \in Nat /\ p[n] \in Article
    BY SeqFacts
  <2> QED
    BY <2>1, BoundAssumption DEF Article
<1>1. \A i : Placed(i)' <=> Placed(i)
  BY DEF Placed
<1>2. CASE buffer' = p /\ batch' = {} /\ phase' = "idle"
  BY <1>1, <1>2 DEF Links
<1>3. CASE buffer' = <<>> /\ batch' = {p[n] : n \in DOMAIN p} /\ phase' = "placing"
  <2>1. \A a, b \in batch' : a.id = b.id => a = b
    <3> SUFFICES ASSUME NEW m \in DOMAIN p, NEW n \in DOMAIN p, p[m].id = p[n].id
                 PROVE  p[m] = p[n]
      BY <1>3
    <3>1. ~ (m < n) /\ ~ (n < m)
      BY <1>0
    <3> QED
      BY <1>0, <3>1
  <2>2. Ids(p) = {a.id : a \in batch'}
    BY <1>3 DEF Ids
  <2>3. \A a \in batch' : FromEntry(a, origins') /\ \A j \in judged : j.article.id < a.id
    BY <1>3
  <2>4. buffer' = <<>> /\ \A n \in DOMAIN buffer' : FALSE
    BY <1>0, <1>3
  <2>5. \A i \in DOMAIN origins' : i \in Ids(buffer)' \cup {a.id : a \in batch'} \/ Placed(i)'
    BY <1>1, <2>2
  <2>6. Len(origins') = stats'.raw_in /\ phase' = "placing" /\ judged' = judged
    BY <1>3
  <2> QED
    BY <2>1, <2>3, <2>4, <2>5, <2>6 DEF Links
<1> QED
  BY <1>2, <1>3

\* The article an entry of the bus becomes.
LEMMA OfferedArticle ==
  ASSUME TypeOK, NodeTypes, OfferFromBus
  PROVE  \E a \in Article :
           /\ a.id = stats.raw_in + 1 /\ a.ts = Head(bus).ts
           /\ a.tickers \in {{}, {TickerOf(Head(bus))}}
           /\ Offer(a) /\ LocalEnrich(Append(buffer, a)) /\ stats.raw_in < MaxRaw
<1>1. stats.raw_in \in Nat
  BY StatFacts DEF TypeOK
<1>2. Head(bus) \in Entry
  BY TailFacts DEF OfferFromBus, NodeTypes
<1>3. Head(bus).ts \in EventTime /\ Head(bus).kind \in {"news", "crisis", "filler"}
  BY <1>2, EntryFacts
<1>4. TickerOf(Head(bus)) \in Ticker
  BY <1>3, NodeAssumption DEF TickerOf
<1>5. PICK missed \in {0, 1} :
        LET a == [id |-> stats.raw_in + 1, ts |-> Head(bus).ts,
                  tickers |-> IF missed = 0 THEN {TickerOf(Head(bus))} ELSE {}]
        IN  Offer(a) /\ LocalEnrich(Append(buffer, a))
  BY DEF OfferFromBus
<1> DEFINE T == IF missed = 0 THEN {TickerOf(Head(bus))} ELSE {}
           a == [id |-> stats.raw_in + 1, ts |-> Head(bus).ts, tickers |-> T]
<1>6. T \in {{}, {TickerOf(Head(bus))}} /\ T \in SUBSET Ticker
  BY <1>4
<1>7. stats.raw_in < MaxRaw
  BY DEF OfferFromBus
<1>8. stats.raw_in + 1 \in 1..MaxRaw
  BY <1>1, <1>7, BoundAssumption
<1>9. Offer(a) /\ LocalEnrich(Append(buffer, a))
  BY <1>5
<1> HIDE DEF T
<1>10. a \in Article
  BY <1>3, <1>6, <1>8 DEF Article
<1>11. a.id = stats.raw_in + 1 /\ a.ts = Head(bus).ts /\ a.tickers \in {{}, {TickerOf(Head(bus))}}
  BY <1>6
<1> HIDE DEF a
<1> QED
  BY <1>7, <1>9, <1>10, <1>11

\* A flush counts batches and what became of them, not what was offered.
LEMMA FlushKeepsRaw ==
  ASSUME NEW p, NEW s \in Stats, Flush(p, s)
  PROVE  stats'.raw_in = s.raw_in
<1>1. PICK e \in SUBSET {p[i] : i \in DOMAIN p} :
        stats' = Bump(s, [batches |-> 1, enriched |-> Cardinality(e),
                          enrich_dropped |-> Len(p) - Cardinality(e)])
  BY DEF Flush
<1> QED
  BY <1>1, BumpFacts

\* The entry offered becomes the newest article.
LEMMA OfferKeepsLinks ==
  ASSUME TypeOK, NodeTypes, Links, OfferFromBus
  PROVE  Links'
<1>1. PICK a \in Article :
        /\ a.id = stats.raw_in + 1 /\ a.ts = Head(bus).ts
        /\ a.tickers \in {{}, {TickerOf(Head(bus))}}
        /\ Offer(a) /\ LocalEnrich(Append(buffer, a))
  BY OfferedArticle
<1>2. /\ phase = "idle" /\ origins' = Append(origins, Head(bus)) /\ Head(bus) \in Entry
      /\ origins \in Seq(Entry) /\ buffer \in Seq(Article) /\ batch = {}
  BY TailFacts DEF OfferFromBus, NodeTypes, TypeOK, Links
<1> DEFINE p == Append(buffer, a)
<1>3. /\ p \in Seq(Article) /\ DOMAIN buffer = 1..Len(buffer) /\ Len(buffer) \in Nat
      /\ DOMAIN p = 1..(Len(buffer) + 1) /\ p[Len(buffer) + 1] = a
      /\ \A n \in 1..Len(buffer) : p[n] = buffer[n]
  BY <1>2, AppendFacts
<1>4. /\ Len(origins) \in Nat /\ DOMAIN origins = 1..Len(origins) /\ Len(origins') = Len(origins) + 1
      /\ DOMAIN origins' = 1..(Len(origins) + 1) /\ origins'[Len(origins) + 1] = Head(bus)
      /\ \A i \in 1..Len(origins) : origins'[i] = origins[i]
  BY <1>2, AppendFacts
<1> HIDE DEF p
<1>5. stats'.raw_in = stats.raw_in + 1
  <2>1. CASE BufferArticle(a)
    BY <2>1, CountedRaw DEF BufferArticle
  <2>2. CASE FillBatch(a)
    <3>1. Flush(Append(buffer, a), CountRaw)
      BY <2>2 DEF FillBatch
    <3> QED
      BY <3>1, CountedRaw, FlushKeepsRaw
  <2> QED
    BY <1>1, <2>1, <2>2 DEF Offer
<1>6. \/ buffer' = p /\ batch' = {} /\ phase' = "idle"
      \/ buffer' = <<>> /\ batch' = {p[n] : n \in DOMAIN p} /\ phase' = "placing"
  <2>1. CASE BufferArticle(a)
    BY <1>2, <2>1 DEF BufferArticle, p
  <2>2. CASE FillBatch(a)
    <3>1. phase' = "placing" /\ buffer' = <<>>
      BY <2>2 DEF FillBatch, Flush
    <3> QED
      BY <1>1, <3>1 DEF LocalEnrich, p
  <2> QED
    BY <1>1, <2>1, <2>2 DEF Offer
<1>7. UNCHANGED judged
  BY <1>1 DEF Offer, BufferArticle, FillBatch, Flush
<1>8. a.id = Len(origins) + 1
  BY <1>1 DEF Links
<1>9. \A x : FromEntry(x, origins) => FromEntry(x, origins') /\ x.id < a.id /\ x.id \in Nat
  BY <1>4, <1>8 DEF FromEntry
<1>10. FromEntry(a, origins')
  BY <1>1, <1>4, <1>8 DEF FromEntry
<1>11. \A n \in DOMAIN p : n = Len(buffer) + 1 \/ n \in DOMAIN buffer
  BY <1>3
<1>12. \A n \in DOMAIN buffer : n \in DOMAIN p /\ p[n] = buffer[n] /\ n < Len(buffer) + 1
  BY <1>3
<1>13. \A n \in DOMAIN p : FromEntry(p[n], origins')
  BY <1>3, <1>9, <1>10, <1>11, <1>12 DEF Links
<1>14. \A j \in judged : FromEntry(j.article, origins')
  BY <1>9 DEF Links
<1>15. \A m, n \in DOMAIN p : m < n => p[m].id < p[n].id
  <2> SUFFICES ASSUME NEW m \in DOMAIN p, NEW n \in DOMAIN p, m < n PROVE p[m].id < p[n].id
    OBVIOUS
  <2>1. m \in DOMAIN buffer
    BY <1>3
  <2>2. CASE n = Len(buffer) + 1
    BY <1>3, <1>9, <1>12, <2>1, <2>2 DEF Links
  <2>3. CASE n \in DOMAIN buffer
    BY <1>12, <2>1, <2>3 DEF Links
  <2> QED
    BY <1>11, <2>2, <2>3
<1>16. \A j \in judged : \A n \in DOMAIN p : j.article.id < p[n].id
  BY <1>3, <1>9, <1>11, <1>12 DEF Links
<1>17. \A i \in DOMAIN origins' : i \in Ids(p) \/ Placed(i)
  <2>1. Ids(p) = Ids(buffer) \cup {a.id}
    BY <1>2, IdsAppend DEF p
  <2>2. \A i \in DOMAIN origins' : i = a.id \/ i \in DOMAIN origins
    BY <1>4, <1>8
  <2> QED
    BY <1>2, <2>1, <2>2 DEF Links
<1> QED
  BY <1>3, <1>4, <1>5, <1>6, <1>7, <1>13, <1>14, <1>15, <1>16, <1>17, LinksWaiting DEF Links

\* A tick makes the buffer the batch, or nothing happens.
LEMMA TickKeepsLinks ==
  ASSUME TypeOK, NodeTypes, Links, TickRound
  PROVE  Links'
<1>1. CASE UNCHANGED vars
  BY <1>1, LinksFrame DEF TickRound, vars, engineVars, Links
<1>2. CASE TickAt(TRUE) /\ LocalEnrich(buffer)
  <2>1. CASE buffer = <<>>
    BY <1>2, <2>1, LinksFrame DEF TickRound, TickAt, Links
  <2>2. CASE buffer # <<>>
    <3>1. Flush(buffer, stats) /\ phase = "idle" /\ UNCHANGED origins
      BY <1>2, <2>2 DEF TickRound, TickAt
    <3>2. buffer' = <<>> /\ phase' = "placing" /\ UNCHANGED judged
      BY <3>1 DEF Flush
    <3>3. batch' = {buffer[n] : n \in DOMAIN buffer} /\ batch = {}
      BY <1>2, <3>1, <3>2 DEF LocalEnrich, Links
    <3>4. buffer \in Seq(Article) /\ stats'.raw_in = stats.raw_in
      BY <3>1, FlushKeepsRaw DEF TypeOK
    <3>5. \A i \in DOMAIN origins : i \in Ids(buffer) \/ Placed(i)
      BY <3>3 DEF Links
    <3> QED
      BY <3>1, <3>2, <3>3, <3>4, <3>5, LinksWaiting DEF Links
  <2> QED
    BY <2>1, <2>2
<1> QED
  BY <1>1, <1>2 DEF TickRound

\* Side effects count nothing that was offered.
LEMMA SideEffectsKeepRaw ==
  ASSUME NEW s \in Stats, NEW n \in Nat, SideEffects(s, n)
  PROVE  stats'.raw_in = s.raw_in
<1>1. PICK e \in 0..n : stats' = Bump(s, [stage_errors |-> e])
  BY DEF SideEffects
<1> QED
  BY <1>1, BumpFacts

\* The oldest article of the batch is placed.
LEMMA PlaceKeepsLinks ==
  ASSUME TypeOK, Links, NEW a \in batch, PlaceArticle(a), UNCHANGED origins
  PROVE  Links'
<1>1. /\ phase = "placing" /\ \A b \in batch : a.id <= b.id
      /\ batch' = batch \ {a} /\ UNCHANGED <<buffer, phase>>
      /\ judged' = judged \cup {[article |-> a, wm |-> watermark, maxTs |-> maxTs]}
      /\ a \in Article /\ batch \subseteq Article
  BY DEF PlaceArticle, PlaceIn, TypeOK
<1> DEFINE r == [article |-> a, wm |-> watermark, maxTs |-> maxTs]
<1>2. judged' = judged \cup {r} /\ r.article = a
  BY <1>1
<1>3. stats'.raw_in = stats.raw_in
  <2> DEFINE onTime == {k \in KeysOf(a) : ~ Passed(k.window, watermark)}
             inc == [mentions |-> Cardinality(a.tickers),
                     late_dropped |-> IF onTime = {} THEN Cardinality(a.tickers) ELSE 0]
  <2>1. SideEffects(Bump(stats, inc), 2)
    BY DEF PlaceArticle, PlaceIn
  <2>2. \A c \in DOMAIN inc : inc[c] \in Nat
    BY <1>1, MentionCount
  <2>3. "raw_in" \notin DOMAIN inc
    OBVIOUS
  <2> HIDE DEF inc
  <2>4. Bump(stats, inc) \in Stats /\ Bump(stats, inc).raw_in = stats.raw_in
    BY <2>2, <2>3, BumpType, BumpFacts DEF TypeOK
  <2> QED
    BY <2>1, <2>4, SideEffectsKeepRaw
<1> HIDE DEF r
<1>4. \A b \in batch : b # a => a.id < b.id
  <2>1. \A b \in batch : b.id \in Nat /\ a.id \in Nat
    BY <1>1, BoundAssumption DEF Article
  <2> QED
    BY <1>1, <2>1 DEF Links
<1>5. buffer = <<>> /\ DOMAIN <<>> = {}
  BY <1>1 DEF Links
<1>6. \A i : Placed(i)' <=> Placed(i) \/ i = a.id
  BY <1>2 DEF Placed
<1>7. \A i \in DOMAIN origins : i \in Ids(buffer)' \cup {b.id : b \in batch'} \/ Placed(i)'
  BY <1>1, <1>6 DEF Links, Ids
<1>8. \A j \in judged' : FromEntry(j.article, origins)
  BY <1>2 DEF Links
<1>9. \A j \in judged' : \A b \in batch' : j.article.id < b.id
  BY <1>1, <1>2, <1>4 DEF Links
<1> QED
  BY <1>1, <1>3, <1>5, <1>7, <1>8, <1>9 DEF Links

LEMMA FlushStepKeepsLinks ==
  ASSUME TypeOK, Links, FlushStep, UNCHANGED origins
  PROVE  Links'
<1>1. ASSUME NEW a \in batch, PlaceArticle(a) PROVE Links'
  BY <1>1, PlaceKeepsLinks
<1>2. CASE AdvanceWatermark
  BY <1>2, LinksFrame DEF AdvanceWatermark, Links
<1>3. ASSUME NEW k \in Due, FireWindow(k) PROVE Links'
  <2>1. SideEffects(Bump(stats, [windows_fired |-> 1]), 1) /\ UNCHANGED <<buffer, batch, phase, judged>>
    BY <1>3 DEF FireWindow, FireLeaving
  <2>2. Bump(stats, [windows_fired |-> 1]) \in Stats
        /\ Bump(stats, [windows_fired |-> 1]).raw_in = stats.raw_in
    BY BumpType, BumpFacts DEF TypeOK
  <2>3. stats'.raw_in = stats.raw_in
    BY <2>1, <2>2, SideEffectsKeepRaw
  <2> QED
    BY <2>1, <2>3, LinksFrame DEF Links
<1>4. CASE FlushDone
  BY <1>4, LinksFrame DEF FlushDone, Links
<1> QED
  BY <1>1, <1>2, <1>3, <1>4 DEF FlushStep

\* What the other threads leave alone.
LEMMA OtherThreadSteps ==
  ASSUME OtherThread \/ BusEmpty \/ UNCHANGED nodeState
  PROVE  UNCHANGED <<vars, origins>>
BY SweepSteps DEF OtherThread, Tock, Publish, SendToBus, SweepEnds, SweepRaises, PublishCrisis,
                  PublishFiller, BusEmpty, nodeState, nodeVars

LEMMA LinksStep ==
  ASSUME TypeOK, NodeTypes, Links, [NodeNext]_nodeState
  PROVE  Links'
<1>1. CASE OtherThread \/ BusEmpty \/ UNCHANGED nodeState
  BY <1>1, OtherThreadSteps, LinksFrame DEF vars, engineVars, Links
<1>2. CASE FlushRound
  BY <1>2, FlushStepKeepsLinks DEF FlushRound, nodeVars
<1>3. CASE RestartNode
  <2>1. /\ buffer' = <<>> /\ batch' = {} /\ phase' = "idle" /\ judged' = {} /\ origins' = <<>>
        /\ stats'.raw_in = 0 /\ DOMAIN <<>> = {} /\ Len(<<>>) = 0
    BY <1>3 DEF RestartNode, Counter
  <2> QED
    BY <2>1 DEF Links
<1> QED
  BY <1>1, <1>2, <1>3, OfferKeepsLinks, TickKeepsLinks DEF NodeNext

-----------------------------------------------------------------------------
(* How many articles are held.                                             *)

\* A set listed without repetition by f has as many elements as f has indices.
LEMMA ListedOnce ==
  ASSUME NEW I, IsFiniteSet(I), NEW R, NEW f \in [I -> R],
         \A i, j \in I : f[i] = f[j] => i = j, \A r \in R : \E i \in I : f[i] = r
  PROVE  IsFiniteSet(R) /\ Cardinality(R) = Cardinality(I)
<1>1. DOMAIN f = I
  OBVIOUS
<1>2. f \in Injection(I, R)
  BY <1>1 DEF Injection, IsInjective
<1>3. f \in Surjection(I, R)
  BY DEF Surjection
<1>4. ExistsBijection(I, R)
  BY <1>2, <1>3 DEF Bijection, ExistsBijection
<1> QED
  BY <1>4, FS_Bijection

NewsAt(s) == {i \in DOMAIN s : s[i].kind = "news"}

\* The news in a part of the line.
LEMMA NewsCount ==
  ASSUME NEW s \in Seq(Entry),
         \A i, j \in DOMAIN s : s[i].kind = "news" /\ s[j].kind = "news" /\ s[i].n = s[j].n => i = j
  PROVE  /\ IsFiniteSet(NewsIn(s)) /\ IsFiniteSet(NewsAt(s))
         /\ Cardinality(NewsIn(s)) = Cardinality(NewsAt(s))
<1> DEFINE f == [i \in NewsAt(s) |-> s[i].n]
<1>1. Len(s) \in Nat /\ DOMAIN s = 1..Len(s)
  BY SeqFacts
<1>2. IsFiniteSet(1..Len(s)) /\ NewsAt(s) \in SUBSET (1..Len(s))
  <2>1. IsFiniteSet(1..Len(s))
    BY <1>1, CountUpTo
  <2> QED
    BY <1>1, <2>1 DEF NewsAt
<1>3. IsFiniteSet(NewsAt(s))
  BY <1>2, FS_Subset
<1>4. f \in [NewsAt(s) -> NewsIn(s)]
  BY DEF NewsAt, NewsIn
<1>5. \A i, j \in NewsAt(s) : f[i] = f[j] => i = j
  BY DEF NewsAt
<1>6. \A r \in NewsIn(s) : \E i \in NewsAt(s) : f[i] = r
  BY DEF NewsIn, NewsAt
<1> HIDE DEF f
<1> QED
  BY <1>3, <1>4, <1>5, <1>6, ListedOnce

\* Nothing is in the outbox twice.
LEMMA OutboxCount ==
  ASSUME NodeTypes, \A i, j \in DOMAIN outbox : outbox[i].id = outbox[j].id => i = j
  PROVE  IsFiniteSet(Outbox) /\ Cardinality(Outbox) = Len(outbox) /\ Len(outbox) \in Nat
<1> DEFINE f == [i \in DOMAIN outbox |-> outbox[i].id]
<1>1. Len(outbox) \in Nat /\ DOMAIN outbox = 1..Len(outbox)
  BY SeqFacts DEF NodeTypes
<1>2. IsFiniteSet(DOMAIN outbox) /\ Cardinality(DOMAIN outbox) = Len(outbox)
  BY <1>1, CountUpTo
<1>3. f \in [DOMAIN outbox -> Outbox]
  BY DEF Outbox
<1>4. \A i, j \in DOMAIN outbox : f[i] = f[j] => i = j
  OBVIOUS
<1>5. \A r \in Outbox : \E i \in DOMAIN outbox : f[i] = r
  BY DEF Outbox
<1> HIDE DEF f
<1> QED
  BY <1>1, <1>2, <1>3, <1>4, <1>5, ListedOnce

\* What is offered and what is still on the bus are two parts of the line.
LEMMA LineParts ==
  ASSUME NodeTypes, Whereabouts
  PROVE  /\ NewsIn(Line) = NewsIn(origins) \cup NewsIn(bus)
         /\ NewsIn(origins) \cap NewsIn(bus) = {}
         /\ \A i, j \in DOMAIN origins :
              origins[i].kind = "news" /\ origins[j].kind = "news" /\ origins[i].n = origins[j].n => i = j
         /\ \A i, j \in DOMAIN bus :
              bus[i].kind = "news" /\ bus[j].kind = "news" /\ bus[i].n = bus[j].n => i = j
<1>1. /\ DOMAIN Line = 1..(Len(origins) + Len(bus)) /\ Len(origins) \in Nat /\ Len(bus) \in Nat
      /\ DOMAIN origins = 1..Len(origins) /\ DOMAIN bus = 1..Len(bus)
      /\ \A i \in 1..Len(origins) : Line[i] = origins[i]
      /\ \A i \in 1..Len(bus) : Line[Len(origins) + i] = bus[i]
  BY LineFacts
<1>2. \A i \in DOMAIN origins : i \in DOMAIN Line /\ Line[i] = origins[i] /\ i <= Len(origins)
  BY <1>1
<1>3. \A i \in DOMAIN bus : /\ Len(origins) + i \in DOMAIN Line /\ Line[Len(origins) + i] = bus[i]
                            /\ ~ (Len(origins) + i <= Len(origins)) /\ i \in Int
  BY <1>1
<1>4. \A i \in DOMAIN Line : i \in DOMAIN origins \/ i - Len(origins) \in DOMAIN bus
  BY <1>1
<1>5. \A i, j \in DOMAIN Line :
        Line[i].kind = "news" /\ Line[j].kind = "news" /\ Line[i].n = Line[j].n => i = j
  BY DEF Whereabouts
<1>6. \A i \in DOMAIN Line : i \in DOMAIN origins \/ \E x \in DOMAIN bus : Line[i] = bus[x]
  BY <1>1, <1>4
<1>7. NewsIn(Line) = NewsIn(origins) \cup NewsIn(bus)
  <2>1. \A x \in NewsIn(Line) : x \in NewsIn(origins) \/ x \in NewsIn(bus)
    BY <1>2, <1>6 DEF NewsIn
  <2>2. \A x \in NewsIn(origins) : x \in NewsIn(Line)
    BY <1>2 DEF NewsIn
  <2>3. \A x \in NewsIn(bus) : x \in NewsIn(Line)
    BY <1>3 DEF NewsIn
  <2> QED
    BY <2>1, <2>2, <2>3
<1>8. NewsIn(origins) \cap NewsIn(bus) = {}
  <2> SUFFICES ASSUME NEW i \in DOMAIN origins, NEW j \in DOMAIN bus, origins[i].kind = "news",
                      bus[j].kind = "news", origins[i].n = bus[j].n
               PROVE  FALSE
    BY DEF NewsIn
  <2> QED
    BY <1>2, <1>3, <1>5
<1>9. \A i, j \in DOMAIN origins :
        origins[i].kind = "news" /\ origins[j].kind = "news" /\ origins[i].n = origins[j].n => i = j
  BY <1>2, <1>5
<1>10. \A i, j \in DOMAIN bus :
         bus[i].kind = "news" /\ bus[j].kind = "news" /\ bus[i].n = bus[j].n => i = j
  <2> SUFFICES ASSUME NEW i \in DOMAIN bus, NEW j \in DOMAIN bus, bus[i].kind = "news",
                      bus[j].kind = "news", bus[i].n = bus[j].n
               PROVE  i = j
    OBVIOUS
  <2>1. Len(origins) + i = Len(origins) + j
    BY <1>3, <1>5
  <2> QED
    BY <1>1, <1>3, <2>1
<1> QED
  BY <1>7, <1>8, <1>9, <1>10

\* What is held, counted by where it is.
LEMMA HeldCount ==
  ASSUME NodeTypes, Whereabouts
  PROVE  Cardinality(Held) = Len(outbox) + Cardinality(NewsAt(bus)) + Cardinality(NewsAt(origins))
<1>1. /\ IsFiniteSet(Outbox) /\ Cardinality(Outbox) = Len(outbox) /\ Len(outbox) \in Nat
  BY OutboxCount DEF Whereabouts
<1>2. /\ IsFiniteSet(NewsIn(bus)) /\ Cardinality(NewsIn(bus)) = Cardinality(NewsAt(bus))
      /\ IsFiniteSet(NewsIn(origins)) /\ Cardinality(NewsIn(origins)) = Cardinality(NewsAt(origins))
  BY LineParts, NewsCount DEF NodeTypes
<1>3. Held = Outbox \cup (NewsIn(origins) \cup NewsIn(bus))
  BY HeldIs, LineParts
<1>4. Outbox \cap (NewsIn(origins) \cup NewsIn(bus)) = {} /\ NewsIn(origins) \cap NewsIn(bus) = {}
  BY LineParts DEF Whereabouts
<1>5. /\ IsFiniteSet(NewsIn(origins) \cup NewsIn(bus))
      /\ Cardinality(NewsIn(origins) \cup NewsIn(bus))
           = Cardinality(NewsIn(origins)) + Cardinality(NewsIn(bus)) - Cardinality({})
  BY <1>2, <1>4, FS_Union
<1>6. Cardinality(Held) = Cardinality(Outbox) + Cardinality(NewsIn(origins) \cup NewsIn(bus))
                            - Cardinality({})
  BY <1>1, <1>3, <1>4, <1>5, FS_Union
<1>7. Cardinality({}) = 0 /\ Cardinality(NewsIn(origins)) \in Nat /\ Cardinality(NewsIn(bus)) \in Nat
  BY <1>2, FS_EmptySet, FS_CardinalityType
<1> QED
  BY <1>1, <1>2, <1>5, <1>6, <1>7

\* The invariants give the property.
LEMMA OnePlace ==
  ASSUME NodeTypes, Whereabouts, Links
  PROVE  ClaimedIsInOnePlace
<1>1. {i \in Id : expiry[i] # None} = gone \cup Held
  BY HeldIs, HeldAreIds DEF Whereabouts, NodeTypes
<1>2. gone \cap Held = {}
  BY HeldIs DEF Whereabouts
<1>3. Cardinality(Held) = Len(outbox) + Cardinality({i \in DOMAIN bus : bus[i].kind = "news"})
                                      + Cardinality(OfferedAs("news"))
  BY HeldCount DEF NewsAt, OfferedAs
<1>4. \A i \in DOMAIN origins :
        \/ i \in {buffer[n].id : n \in DOMAIN buffer} \cup {a.id : a \in batch}
        \/ Placed(i)
  BY DEF Links, Ids
<1> QED
  BY <1>1, <1>2, <1>3, <1>4 DEF ClaimedIsInOnePlace

-----------------------------------------------------------------------------
(* The node's engine is the engine of StreamEngine.                        *)

\* A step of the node is a step of the engine, or starts it anew.
LEMMA EngineAtNode ==
  ASSUME TypeOK, NodeTypes, [NodeNext]_nodeState
  PROVE  [Next]_vars \/ Init'
<1>1. CASE OtherThread \/ BusEmpty \/ UNCHANGED nodeState
  BY <1>1, OtherThreadSteps
<1>2. CASE OfferFromBus
  <2>1. PICK a \in Article : a.id = stats.raw_in + 1 /\ Offer(a) /\ stats.raw_in < MaxRaw
    BY <1>2, OfferedArticle
  <2>2. a = [id |-> stats.raw_in + 1, ts |-> a.ts, tickers |-> a.tickers]
        /\ a.ts \in EventTime /\ a.tickers \in SUBSET Ticker
    BY <2>1 DEF Article
  <2>3. OfferNext
    BY <2>1, <2>2 DEF OfferNext
  <2> QED
    BY <2>3 DEF Next
<1>3. CASE TickRound
  <2>1. CASE flushIn = 0 /\ TickAt(TRUE)
    BY <2>1 DEF TickAt, Tick, Next
  <2> QED
    BY <1>3, <2>1 DEF TickRound
<1>4. CASE FlushRound
  BY <1>4 DEF FlushRound, Next
<1>5. CASE RestartNode
  BY <1>5 DEF RestartNode, Init, InitEngine
<1> QED
  BY <1>1, <1>2, <1>3, <1>4, <1>5 DEF NodeNext

\* The inductive invariant behind ClaimedIsInOnePlace.
NodeInv == TypeOK /\ NodeTypes /\ NodeSweeps /\ Whereabouts /\ Links

LEMMA NodeStarts ==
  ASSUME NodeInit
  PROVE  NodeInv
<1>1. TypeOK
  BY InitType DEF NodeInit
<1>2. /\ now = 0 /\ begun = 0 /\ sweepNow = 0 /\ sweep = "down" /\ todo = {} /\ outbox = <<>>
      /\ stamp = [i \in Id |-> None] /\ expiry = [i \in Id |-> None]
      /\ bus = <<>> /\ origins = <<>> /\ gone = {}
      /\ slot = None /\ sims = 0 /\ filler = None
  BY DEF NodeInit, Sweep!Init
<1>3. /\ buffer = <<>> /\ batch = {} /\ phase = "idle" /\ judged = {} /\ stats.raw_in = 0
      /\ DOMAIN <<>> = {} /\ Len(<<>>) = 0 /\ <<>> \o <<>> = <<>>
  BY DEF NodeInit, Init, InitEngine, Counter
<1>4. NodeTypes
  BY <1>2, EmptySeq, NodeNumbers DEF NodeTypes
<1>5. NodeSweeps
  BY <1>2, NodeNumbers DEF NodeSweeps
<1>6. Whereabouts
  <2>1. Line = <<>> /\ Outbox = {}
    BY <1>2, <1>3 DEF Line, Outbox
  <2>2. NewsIn(Line) = {}
    BY <1>3, <2>1 DEF NewsIn
  <2> QED
    BY <1>2, <1>3, <2>1, <2>2 DEF Whereabouts
<1>7. Links
  BY <1>2, <1>3 DEF Links
<1> QED
  BY <1>1, <1>4, <1>5, <1>6, <1>7 DEF NodeInv

LEMMA NodeInvariant == NodeSpec => []NodeInv
<1>1. NodeInit => NodeInv
  BY NodeStarts
<1>2. NodeInv /\ [NodeNext]_nodeState => (NodeTypes /\ NodeSweeps /\ Whereabouts /\ Links)'
  BY NodeTypesStep, NodeSweepsStep, WhereStep, LinksStep DEF NodeInv
<1>3. NodeInv /\ [NodeNext]_nodeState => [Next]_vars \/ Init'
  BY EngineAtNode DEF NodeInv
<1>4. TypeOK /\ [Next]_vars => TypeOK'
  BY TypeStep
<1>5. Init => TypeOK
  BY InitType
<1>6. NodeInv => TypeOK
  BY DEF NodeInv
<1>7. TypeOK /\ NodeTypes /\ NodeSweeps /\ Whereabouts /\ Links => NodeInv
  BY DEF NodeInv
<1> QED
  BY <1>1, <1>2, <1>3, <1>4, <1>5, <1>6, <1>7, PTL DEF NodeSpec

\* From its claim on an article is in one place of the process, exactly once, until
\* the engine has placed it - or a full bus, a failed sweep or a restart took it;
\* whatever the feeds, the clocks, the size of the bus and the faults.
THEOREM ClaimedInOnePlace == NodeSpec => []ClaimedIsInOnePlace
<1>1. NodeInv => ClaimedIsInOnePlace
  BY OnePlace DEF NodeInv
<1> QED
  BY <1>1, NodeInvariant, PTL

-----------------------------------------------------------------------------
(* The event times the engine has seen.                                    *)

\* The newest event time is that of an article placed earlier, no placed article
\* that counts is newer, and between flushes the watermark has caught up with it.
Times ==
  /\ maxTs # None => \E k \in judged : k.article.ts = maxTs
  /\ \A j \in judged : j.maxTs # None =>
       \E k \in judged : k.article.id < j.article.id /\ k.article.ts = j.maxTs
  /\ \A j \in judged : j.article.tickers # {} => maxTs # None /\ j.article.ts <= maxTs
  /\ phase # "placing" /\ maxTs # None => watermark >= maxTs - Delay - 1

LEMMA TimesFrame ==
  ASSUME Times, UNCHANGED <<judged, maxTs, watermark>>, phase' = "placing" \/ phase # "placing"
  PROVE  Times'
BY DEF Times

\* An article is placed against the newest event time of those before it.
LEMMA TimesPlace ==
  ASSUME TypeOK, Links, Times, NEW a \in batch, PlaceArticle(a)
  PROVE  Times'
<1> DEFINE r == [article |-> a, wm |-> watermark, maxTs |-> maxTs]
<1>1. /\ maxTs' = IF a.tickers = {} THEN maxTs ELSE Later(a.ts)
      /\ judged' = judged \cup {r} /\ phase' = "placing"
  BY DEF PlaceArticle, PlaceIn
<1>2. /\ a.ts \in Int /\ a.ts \in EventTime /\ maxTs \in Int \cup {None} /\ None \notin Int
      /\ \A j \in judged : j.article.ts \in Int
  <2>1. a \in Article /\ \A j \in judged : j.article \in Article
    BY DEF TypeOK, JudgedRecord
  <2> QED
    BY <2>1, ValueAssumption DEF Article, TypeOK
<1>3. r.article = a /\ r.maxTs = maxTs /\ r \in judged'
  BY <1>1
<1> HIDE DEF r
<1>4. \A j \in judged' : j \in judged \/ j = r
  BY <1>1
<1>5. \A j \in judged : j \in judged' /\ j.article.id < a.id
  BY <1>1 DEF Links
<1>6. maxTs' # None => \E k \in judged' : k.article.ts = maxTs'
  <2>1. maxTs' = maxTs \/ maxTs' = a.ts
    BY <1>1 DEF Later
  <2>2. CASE maxTs' = maxTs
    BY <1>5, <2>2 DEF Times
  <2>3. CASE maxTs' = a.ts
    BY <1>3, <2>3
  <2> QED
    BY <2>1, <2>2, <2>3
<1>7. \A j \in judged' : j.maxTs # None =>
        \E k \in judged' : k.article.id < j.article.id /\ k.article.ts = j.maxTs
  <2>1. ASSUME NEW j \in judged, j.maxTs # None
        PROVE  \E k \in judged' : k.article.id < j.article.id /\ k.article.ts = j.maxTs
    BY <1>5, <2>1 DEF Times
  <2>2. ASSUME maxTs # None
        PROVE  \E k \in judged' : k.article.id < a.id /\ k.article.ts = maxTs
    BY <1>5, <2>2 DEF Times
  <2> QED
    BY <1>3, <1>4, <2>1, <2>2
<1>8. maxTs # None => maxTs' # None /\ maxTs <= maxTs'
  BY <1>1, <1>2 DEF Later
<1>9. a.tickers # {} => maxTs' # None /\ a.ts <= maxTs'
  BY <1>1, <1>2 DEF Later
<1>10. \A j \in judged' : j.article.tickers # {} => maxTs' # None /\ j.article.ts <= maxTs'
  <2>1. ASSUME NEW j \in judged, j.article.tickers # {}
        PROVE  maxTs' # None /\ j.article.ts <= maxTs'
    <3>1. maxTs # None /\ j.article.ts <= maxTs
      BY <2>1 DEF Times
    <3>2. maxTs' \in Int
      BY <1>1, <1>2, <1>8, <3>1 DEF Later
    <3> QED
      BY <1>2, <1>8, <3>1, <3>2
  <2> QED
    BY <1>3, <1>4, <1>9, <2>1
<1> QED
  BY <1>1, <1>6, <1>7, <1>10 DEF Times

\* Every step of the engine keeps Times; only AdvanceWatermark moves the watermark.
LEMMA TimesStep ==
  ASSUME TypeOK, Links, Times, [Next]_vars
  PROVE  Times'
<1>1. CASE OfferNext
  BY <1>1, TimesFrame DEF OfferNext, Offer, BufferArticle, FillBatch, Flush
<1>2. CASE Elapse
  BY <1>2, TimesFrame DEF Elapse
<1>3. CASE Tick
  BY <1>3, TimesFrame DEF Tick, TickAt, Flush
<1>4. CASE AdvanceWatermark
  <2>1. /\ UNCHANGED <<maxTs, judged>>
        /\ maxTs # None => watermark' >= maxTs - Delay - 1
    BY <1>4, ValueAssumption, GeometryAssumption DEF AdvanceWatermark, TypeOK
  <2> QED
    BY <2>1 DEF Times
<1>5. ASSUME NEW k \in Due, FireWindow(k) PROVE Times'
  BY <1>5, TimesFrame DEF FireWindow, FireLeaving
<1>6. CASE FlushDone
  BY <1>6, TimesFrame DEF FlushDone
<1>7. CASE UNCHANGED vars
  BY <1>7, TimesFrame DEF vars, engineVars
<1> QED
  BY <1>1, <1>2, <1>3, <1>4, <1>5, <1>6, <1>7, TimesPlace DEF Next, FlushStep

LEMMA TimesStart ==
  ASSUME Init
  PROVE  Times
BY DEF Init, InitEngine, Times

-----------------------------------------------------------------------------
(* The dates on the line.                                                  *)

\* How far behind the newest event time an article may be and still count.
Reach == Size - Slide + Delay

\* News is at most Reach behind what goes before it, fillers apart: what has been
\* put on the line is not dated far ahead of the clock, nor of the sweep's reading
\* of it, and what a sweep is about to put there not far behind that.
NewsFlow ==
  /\ \A i, j \in DOMAIN Line :
       i < j /\ Line[j].kind = "news" /\ Line[i].kind # "filler" => Line[j].ts >= Line[i].ts - Reach
  /\ \A i \in DOMAIN Line : Line[i].kind # "filler" =>
       /\ Line[i].ts <= now + MaxSkew
       /\ sweep \in {"claim", "send"} => Line[i].ts <= sweepNow - ClampAge + Reach
  /\ \A i \in DOMAIN outbox :
       sweepNow - ClampAge <= outbox[i].ts /\ outbox[i].ts <= sweepNow + MaxSkew

\* Nothing before a crisis reaches its first window, and its filler comes later: one
\* simulation at a time holds the slot, and the slot outlasts the slide.
CrisisFlow ==
  /\ \A i, j \in DOMAIN Line :
       i < j /\ Line[j].kind = "crisis" => Line[i].ts <= Line[j].ts + Delay + Margin
  /\ \A i, j \in DOMAIN Line :
       Line[i].kind = "crisis" /\ Line[j].kind = "filler" /\ Line[i].n = Line[j].n =>
         i < j /\ Line[j].ts = FillerStamp(Line[i].ts)
  /\ \A i \in DOMAIN Line :
       /\ Line[i].kind = "filler" => slot # None /\ Line[i].ts <= FillerStamp(slot - SlotTtl)
       /\ Line[i].kind # "news" => Line[i].n <= sims
       /\ Line[i].kind = "crisis" /\ Line[i].n = sims => slot # None /\ Line[i].ts = slot - SlotTtl
  /\ filler # None => slot # None /\ filler = FillerStamp(slot - SlotTtl)

\* What changes neither line, clock nor sweep.
LEMMA NewsFlowFrame ==
  ASSUME NewsFlow, Line' = Line, UNCHANGED <<now, sweepNow, outbox>>,
         sweep' \in {"claim", "send"} => sweep \in {"claim", "send"}
  PROVE  NewsFlow'
BY DEF NewsFlow

\* What changes neither line nor slot.
LEMMA CrisisFlowFrame ==
  ASSUME CrisisFlow, Line' = Line, UNCHANGED <<slot, sims, filler>>
  PROVE  CrisisFlow'
BY DEF CrisisFlow

\* The dates are numbers, and the tolerance covers clamping, skew and hand-over.
LEMMA FlowNumbers ==
  ASSUME NodeTypes
  PROVE  /\ \A i \in DOMAIN Line : i \in Int /\ Line[i].ts \in Int
         /\ now \in Int /\ sweepNow \in Int /\ Reach \in Int /\ MaxSkew \in Int /\ ClampAge \in Int
         /\ ClampAge + MaxSkew <= Reach /\ ClampAge + MaxClaiming <= Reach /\ MaxClaiming \in Int
         /\ MaxSkew >= 0
         /\ \A i \in DOMAIN outbox : outbox[i].ts \in Int
<1>1. \A i \in DOMAIN Line : i \in Int /\ Line[i].ts \in Int
  BY LineEntries, EntryFacts
<1>2. \A i \in DOMAIN outbox : outbox[i].ts \in Int
  BY SeqFacts, ParcelFacts DEF NodeTypes
<1>3. now \in Int /\ sweepNow \in Int
  BY NodeNumbers DEF NodeTypes
<1>4. Size \in Int /\ Slide \in Int /\ Delay \in Int /\ MaxSkew \in Nat /\ ClampAge \in Int /\ MaxClaiming \in Int
  BY NodeNumbers
<1>5. ClampAge + MaxSkew <= Reach /\ ClampAge + MaxClaiming <= Reach
  BY ToleranceAssumption DEF Reach
<1>6. Reach \in Int
  BY <1>4 DEF Reach
<1> QED
  BY <1>1, <1>2, <1>3, <1>4, <1>5, <1>6

\* One entry more on the line.
LEMMA NewsFlowPut ==
  ASSUME NodeTypes, NewsFlow, NEW r \in Entry, Line' = Append(Line, r),
         UNCHANGED <<now, sweepNow, sweep>>,
         \A i \in DOMAIN outbox' :
           sweepNow - ClampAge <= outbox'[i].ts /\ outbox'[i].ts <= sweepNow + MaxSkew,
         r.kind # "filler" => /\ r.ts <= now + MaxSkew
                              /\ sweep \in {"claim", "send"} => r.ts <= sweepNow - ClampAge + Reach,
         r.kind = "news" => r.ts >= sweepNow - ClampAge /\ sweep = "send"
  PROVE  NewsFlow'
<1>1. /\ DOMAIN Line' = DOMAIN Line \cup {Len(Line) + 1} /\ Line'[Len(Line) + 1] = r
      /\ \A i \in DOMAIN Line : Line'[i] = Line[i] /\ i < Len(Line) + 1 /\ i \in Int
      /\ Len(Line) \in Nat
  BY LineAppend, LineEntries
<1>2. \A i \in DOMAIN Line : Line[i].kind # "filler" /\ r.kind = "news" => r.ts >= Line[i].ts - Reach
  <2> SUFFICES ASSUME NEW i \in DOMAIN Line, Line[i].kind # "filler", r.kind = "news"
               PROVE  r.ts >= Line[i].ts - Reach
    OBVIOUS
  <2>1. Line[i].ts <= sweepNow - ClampAge + Reach
    BY DEF NewsFlow
  <2>2. Line[i].ts \in Int /\ r.ts \in Int /\ sweepNow \in Int /\ ClampAge \in Int /\ Reach \in Int
    BY FlowNumbers, EntryFacts
  <2> QED
    BY <2>1, <2>2
<1>3. \A i, j \in DOMAIN Line' :
        i < j /\ Line'[j].kind = "news" /\ Line'[i].kind # "filler" => Line'[j].ts >= Line'[i].ts - Reach
  <2> SUFFICES ASSUME NEW i \in DOMAIN Line', NEW j \in DOMAIN Line', i < j,
                      Line'[j].kind = "news", Line'[i].kind # "filler"
               PROVE  Line'[j].ts >= Line'[i].ts - Reach
    OBVIOUS
  <2>1. i \in DOMAIN Line
    BY <1>1
  <2>2. CASE j \in DOMAIN Line
    BY <1>1, <2>1, <2>2 DEF NewsFlow
  <2>3. CASE j = Len(Line) + 1
    BY <1>1, <1>2, <2>1, <2>3
  <2> QED
    BY <1>1, <2>2, <2>3
<1>4. \A i \in DOMAIN Line' : Line'[i].kind # "filler" =>
        /\ Line'[i].ts <= now + MaxSkew
        /\ sweep \in {"claim", "send"} => Line'[i].ts <= sweepNow - ClampAge + Reach
  BY <1>1 DEF NewsFlow
<1> QED
  BY <1>3, <1>4 DEF NewsFlow

\* The next article of the outbox goes to the line.
LEMMA NewsFlowSend ==
  ASSUME NodeTypes, NodeSweeps, NewsFlow, SendToBus
  PROVE  NewsFlow'
<1> DEFINE h == Head(outbox)
           r == [kind |-> "news", n |-> h.id, ts |-> h.ts]
<1>1. /\ h \in Parcel /\ DOMAIN outbox = 1..Len(outbox) /\ Len(outbox) \in Nat \ {0}
      /\ outbox' = Tail(outbox) /\ DOMAIN outbox' = 1..(Len(outbox) - 1) /\ h = outbox[1]
      /\ \A i \in 1..(Len(outbox) - 1) : outbox'[i] = outbox[i + 1]
  BY TailFacts DEF SendToBus, NodeTypes
<1>2. r \in Entry /\ r.kind = "news" /\ r.ts = h.ts
  BY <1>1, ParcelFacts DEF Entry
<1>3. Put(r) /\ UNCHANGED <<now, sweepNow, sweep, origins>> /\ sweep = "send"
  BY DEF SendToBus
<1> HIDE DEF r
<1>4. \A i \in DOMAIN outbox' :
        sweepNow - ClampAge <= outbox'[i].ts /\ outbox'[i].ts <= sweepNow + MaxSkew
  <2>1. \A i \in DOMAIN outbox' : i + 1 \in DOMAIN outbox /\ outbox'[i] = outbox[i + 1]
    BY <1>1
  <2> QED
    BY <2>1 DEF NewsFlow
<1>5. sweepNow - ClampAge <= h.ts /\ h.ts <= sweepNow + MaxSkew
  <2>1. 1 \in DOMAIN outbox
    BY <1>1
  <2> QED
    BY <1>1, <2>1 DEF NewsFlow
<1>6. h.ts <= now + MaxSkew /\ h.ts <= sweepNow - ClampAge + Reach
  <2>1. sweepNow <= now
    BY DEF NodeSweeps
  <2>2. h.ts \in Int
    BY <1>1, ParcelFacts
  <2> QED
    BY <1>5, <2>1, <2>2, FlowNumbers
<1> HIDE DEF h
<1>7. CASE Line' = Append(Line, r)
  BY <1>2, <1>3, <1>4, <1>5, <1>6, <1>7, NewsFlowPut
<1>8. CASE Line' = Line
  BY <1>3, <1>4, <1>8 DEF NewsFlow
<1> QED
  BY <1>2, <1>3, <1>7, <1>8, PutLine

\* A sweep reads the clock, and clamps what it claims to that reading.
LEMMA NewsFlowClaim ==
  ASSUME NodeTypes, NodeSweeps, NewsFlow, SweepClaims
  PROVE  NewsFlow'
<1>0. Line' = Line /\ UNCHANGED now
  BY SweepSteps, LineSame
<1>1. CASE UNCHANGED <<sweepNow, outbox>> /\ (sweep' \in {"claim", "send"} => sweep \in {"claim", "send"})
  BY <1>0, <1>1, NewsFlowFrame
<1>2. CASE sweep = "fetch" /\ sweepNow' = now /\ UNCHANGED outbox
  <2>1. outbox' = <<>> /\ DOMAIN <<>> = {}
    BY <1>2 DEF NodeSweeps
  <2>2. \A i \in DOMAIN Line : Line[i].kind # "filler" =>
          Line[i].ts <= now + MaxSkew /\ Line[i].ts <= now - ClampAge + Reach
    BY FlowNumbers DEF NewsFlow
  <2> QED
    BY <1>0, <1>2, <2>1, <2>2 DEF NewsFlow
<1>3. ASSUME NEW i \in todo, sweep = "claim", UNCHANGED <<sweep, sweepNow>>,
             ~ (expiry[i] # None /\ now < expiry[i]),
             outbox' = Append(outbox, [id |-> i, sweep |-> sweepNow,
                         ts |-> IF stamp[i] >= sweepNow - ClampAge THEN stamp[i] ELSE sweepNow])
      PROVE  NewsFlow'
  <2> DEFINE t == IF stamp[i] >= sweepNow - ClampAge THEN stamp[i] ELSE sweepNow
             p == [id |-> i, sweep |-> sweepNow, ts |-> t]
  <2>1. i \in Id /\ stamp[i] \in FeedDate /\ stamp[i] \in Int /\ stamp[i] <= sweepNow + MaxSkew
    BY <1>3, LapsedAtNode
  <2>2. t \in EventTime /\ sweepNow \in Nat
    BY <2>1, NodeNumbers DEF NodeTypes
  <2>3. sweepNow - ClampAge <= t /\ t <= sweepNow + MaxSkew
    <3>1. ClampAge \in Nat
      BY NodeNumbers
    <3> QED
      BY <2>1, <3>1, FlowNumbers
  <2> HIDE DEF t
  <2>4. p \in Parcel /\ p.ts = t
    BY <2>1, <2>2 DEF Parcel
  <2> HIDE DEF p
  <2>5. outbox' = Append(outbox, p)
    BY <1>3, Zenon DEF p, t
  <2>6. /\ DOMAIN outbox = 1..Len(outbox) /\ Len(outbox) \in Nat
        /\ DOMAIN outbox' = 1..(Len(outbox) + 1) /\ outbox'[Len(outbox) + 1] = p
        /\ \A x \in 1..Len(outbox) : outbox'[x] = outbox[x]
    BY <2>4, <2>5, AppendFacts DEF NodeTypes
  <2>7. \A x \in DOMAIN outbox' : x = Len(outbox) + 1 \/ (x \in DOMAIN outbox /\ outbox'[x] = outbox[x])
    BY <2>6
  <2>8. \A x \in DOMAIN outbox' :
          sweepNow - ClampAge <= outbox'[x].ts /\ outbox'[x].ts <= sweepNow + MaxSkew
    BY <2>3, <2>4, <2>6, <2>7 DEF NewsFlow
  <2> QED
    BY <1>0, <1>3, <2>8 DEF NewsFlow
<1> QED
  BY SweepSteps, <1>1, <1>2, <1>3

LEMMA NewsFlowStep ==
  ASSUME NodeTypes, NodeSweeps, NewsFlow, [NodeNext]_nodeState
  PROVE  NewsFlow'
<1>1. CASE Tock
  <2>1. now' = now + 1 /\ Line' = Line /\ UNCHANGED <<sweepNow, sweep, outbox>>
    BY <1>1, LineSame DEF Tock, Sweep!Elapse, Sweep!sweepVars
  <2>2. \A i \in DOMAIN Line : Line[i].kind # "filler" => Line[i].ts <= now' + MaxSkew
    BY <2>1, FlowNumbers DEF NewsFlow
  <2> QED
    BY <2>1, <2>2 DEF NewsFlow
<1>2. ASSUME NEW i \in Id, NEW ts \in FeedDate, Publish(i, ts) PROVE NewsFlow'
  BY <1>2, LineSame, NewsFlowFrame DEF Publish, Sweep!Publish, Sweep!sweepVars
<1>3. CASE SweepEnds
  BY <1>3, LineSame, NewsFlowFrame DEF SweepEnds
<1>4. CASE SweepRaises
  <2>1. Line' = Line /\ sweep' = "idle" /\ outbox' = <<>> /\ DOMAIN <<>> = {} /\ UNCHANGED now
    BY <1>4, LineSame DEF SweepRaises, Sweep!SweepFails
  <2> QED
    BY <2>1 DEF NewsFlow
<1>5. CASE PublishCrisis
  <2> DEFINE r == [kind |-> "crisis", n |-> sims', ts |-> now]
  <2>1. Put(r) /\ UNCHANGED <<now, sweepNow, sweep, outbox, origins>>
    BY <1>5 DEF PublishCrisis, feedVars
  <2>2. r \in Entry /\ r.kind = "crisis" /\ r.ts = now
    BY <1>5, NodeNumbers DEF PublishCrisis, NodeTypes, Entry
  <2> HIDE DEF r
  <2>3. now <= now + MaxSkew
    BY FlowNumbers
  <2>4. sweep \in {"claim", "send"} => now <= sweepNow - ClampAge + Reach
    BY FlowNumbers DEF NodeSweeps
  <2>5. CASE Line' = Append(Line, r)
    BY <2>1, <2>2, <2>3, <2>4, <2>5, NewsFlowPut DEF NewsFlow
  <2>6. CASE Line' = Line
    BY <2>1, <2>6, NewsFlowFrame
  <2> QED
    BY <2>1, <2>2, <2>5, <2>6, PutLine
<1>6. CASE PublishFiller
  <2> DEFINE r == [kind |-> "filler", n |-> sims, ts |-> filler]
  <2>1. Put(r) /\ UNCHANGED <<now, sweepNow, sweep, outbox, origins>>
    BY <1>6 DEF PublishFiller, feedVars
  <2>2. r \in Entry /\ r.kind = "filler"
    BY <1>6 DEF PublishFiller, NodeTypes, Entry
  <2> HIDE DEF r
  <2>3. CASE Line' = Append(Line, r)
    BY <2>1, <2>2, <2>3, NewsFlowPut DEF NewsFlow
  <2>4. CASE Line' = Line
    BY <2>1, <2>4, NewsFlowFrame
  <2> QED
    BY <2>1, <2>2, <2>3, <2>4, PutLine
<1>7. CASE OfferFromBus
  BY <1>7, LineMoves, NewsFlowFrame DEF OfferFromBus, feedVars
<1>8. CASE BusEmpty \/ TickRound \/ FlushRound \/ UNCHANGED nodeState
  BY <1>8, PipelineSteps, LineSame, NewsFlowFrame DEF OutsideEngine
<1>9. CASE RestartNode
  <2>1. Line' = <<>> /\ outbox' = <<>> /\ DOMAIN <<>> = {}
    BY <1>9 DEF RestartNode, Line
  <2> QED
    BY <2>1 DEF NewsFlow
<1> QED
  BY <1>1, <1>2, <1>3, <1>4, <1>5, <1>6, <1>7, <1>8, <1>9, NewsFlowClaim, NewsFlowSend
  DEF NodeNext, OtherThread

\* One entry more on the line; s, m and f are the slot, the number of simulations
\* and the filler after the step.
LEMMA CrisisFlowPut ==
  ASSUME NodeTypes, CrisisFlow, NEW r \in Entry, Line' = Append(Line, r),
         r.kind = "crisis" => \A i \in DOMAIN Line : Line[i].ts <= r.ts + Delay + Margin,
         r.kind = "crisis" => r.n = sims' /\ sims' = sims + 1 /\ slot' # None /\ r.ts = slot' - SlotTtl,
         r.kind = "filler" => /\ UNCHANGED slot /\ r.n = sims /\ filler # None /\ r.ts = filler,
         r.kind # "crisis" => UNCHANGED <<slot, sims>>,
         slot # None => slot' # None /\ FillerStamp(slot - SlotTtl) <= FillerStamp(slot' - SlotTtl),
         filler' # None => slot' # None /\ filler' = FillerStamp(slot' - SlotTtl)
  PROVE  CrisisFlow'
<1>1. /\ DOMAIN Line' = DOMAIN Line \cup {Len(Line) + 1} /\ Line'[Len(Line) + 1] = r
      /\ \A i \in DOMAIN Line : Line'[i] = Line[i] /\ i < Len(Line) + 1 /\ i \in Int
      /\ Len(Line) \in Nat
  BY LineAppend, LineEntries
<1>2. \A i \in DOMAIN Line' : i \in DOMAIN Line \/ i = Len(Line) + 1
  BY <1>1
<1>3. \A i \in DOMAIN Line : /\ Line[i].ts \in Int
                             /\ Line[i].kind # "news" => Line[i].n \in Int /\ Line[i].n <= sims
  BY LineEntries, EntryFacts DEF CrisisFlow
<1>4. /\ sims \in Int /\ (slot # None => slot \in Int) /\ SlotTtl \in Int
      /\ r.kind \in {"news", "crisis", "filler"} /\ r.ts \in Int
      /\ Slide \in Int /\ Delay \in Int /\ Margin \in Int
  BY NodeNumbers, EntryFacts DEF NodeTypes
<1>5. \A i, j \in DOMAIN Line' :
        i < j /\ Line'[j].kind = "crisis" => Line'[i].ts <= Line'[j].ts + Delay + Margin
  <2> SUFFICES ASSUME NEW i \in DOMAIN Line', NEW j \in DOMAIN Line', i < j, Line'[j].kind = "crisis"
               PROVE  Line'[i].ts <= Line'[j].ts + Delay + Margin
    OBVIOUS
  <2>1. i \in DOMAIN Line
    BY <1>1
  <2>2. CASE j \in DOMAIN Line
    BY <1>1, <2>1, <2>2 DEF CrisisFlow
  <2>3. CASE j = Len(Line) + 1
    BY <1>1, <2>1, <2>3
  <2> QED
    BY <1>2, <2>2, <2>3
<1>6. \A i, j \in DOMAIN Line' :
        Line'[i].kind = "crisis" /\ Line'[j].kind = "filler" /\ Line'[i].n = Line'[j].n =>
          i < j /\ Line'[j].ts = FillerStamp(Line'[i].ts)
  <2> SUFFICES ASSUME NEW i \in DOMAIN Line', NEW j \in DOMAIN Line', Line'[i].kind = "crisis",
                      Line'[j].kind = "filler", Line'[i].n = Line'[j].n
               PROVE  i < j /\ Line'[j].ts = FillerStamp(Line'[i].ts)
    OBVIOUS
  <2>1. CASE i \in DOMAIN Line /\ j \in DOMAIN Line
    BY <1>1, <2>1 DEF CrisisFlow
  <2>2. CASE i \in DOMAIN Line /\ j = Len(Line) + 1
    <3>1. r.kind = "filler" /\ Line[i].kind = "crisis" /\ Line[i].n = sims
      BY <1>1, <2>2
    <3>2. Line[i].ts = slot - SlotTtl /\ r.ts = FillerStamp(slot - SlotTtl)
      BY <2>2, <3>1 DEF CrisisFlow
    <3> QED
      BY <1>1, <2>2, <3>2
  <2>3. CASE i = Len(Line) + 1
    <3>1. r.kind = "crisis" /\ j # i
      BY <1>1, <2>3
    <3>2. j \in DOMAIN Line /\ Line[j].kind # "news"
      BY <1>1, <1>2, <2>3, <3>1
    <3>3. Line[j].n = sims + 1
      BY <1>1, <2>3, <3>1, <3>2
    <3> QED
      BY <1>3, <1>4, <3>2, <3>3
  <2> QED
    BY <1>2, <2>1, <2>2, <2>3
<1>7. \A i \in DOMAIN Line' :
        Line'[i].kind = "filler" => slot' # None /\ Line'[i].ts <= FillerStamp(slot' - SlotTtl)
  <2>1. ASSUME NEW i \in DOMAIN Line, Line[i].kind = "filler"
        PROVE  slot' # None /\ Line[i].ts <= FillerStamp(slot' - SlotTtl)
    <3>1. slot # None /\ Line[i].ts <= FillerStamp(slot - SlotTtl)
      BY <2>1 DEF CrisisFlow
    <3>2. slot' # None /\ FillerStamp(slot - SlotTtl) <= FillerStamp(slot' - SlotTtl)
      BY <3>1
    <3>3. FillerStamp(slot - SlotTtl) \in Int
      BY <1>4, <3>1 DEF FillerStamp
    <3>4. FillerStamp(slot' - SlotTtl) \in Int
      <4>1. CASE r.kind = "crisis"
        BY <1>4, <4>1 DEF FillerStamp
      <4>2. CASE r.kind # "crisis"
        BY <3>3, <4>2
      <4> QED
        BY <4>1, <4>2
    <3> QED
      BY <1>3, <3>1, <3>2, <3>3, <3>4
  <2>2. r.kind = "filler" => slot' # None /\ r.ts <= FillerStamp(slot' - SlotTtl)
    <3> SUFFICES ASSUME r.kind = "filler"
                 PROVE  slot' # None /\ r.ts <= FillerStamp(slot' - SlotTtl)
      OBVIOUS
    <3>1. slot' = slot /\ slot # None /\ r.ts = FillerStamp(slot - SlotTtl)
      BY DEF CrisisFlow
    <3> QED
      BY <1>4, <3>1
  <2> QED
    BY <1>1, <1>2, <2>1, <2>2
<1>8. \A i \in DOMAIN Line' : Line'[i].kind # "news" => Line'[i].n <= sims'
  BY <1>1, <1>2, <1>3, <1>4
<1>9. \A i \in DOMAIN Line' :
        Line'[i].kind = "crisis" /\ Line'[i].n = sims' => slot' # None /\ Line'[i].ts = slot' - SlotTtl
  <2>1. ASSUME NEW i \in DOMAIN Line, Line[i].kind = "crisis", Line[i].n = sims'
        PROVE  slot' # None /\ Line[i].ts = slot' - SlotTtl
    <3>1. r.kind # "crisis"
      BY <1>3, <1>4, <2>1
    <3> QED
      BY <2>1, <3>1 DEF CrisisFlow
  <2> QED
    BY <1>1, <1>2, <2>1
<1> QED
  BY <1>5, <1>6, <1>7, <1>8, <1>9 DEF CrisisFlow

\* A crisis is published once the slot of the one before has lapsed.
LEMMA CrisisFlowCrisis ==
  ASSUME NodeTypes, NewsFlow, CrisisFlow, PublishCrisis
  PROVE  CrisisFlow'
<1> DEFINE r == [kind |-> "crisis", n |-> sims', ts |-> now]
<1>1. /\ Put(r) /\ UNCHANGED origins /\ slot' = now + SlotTtl /\ sims' = sims + 1
      /\ filler' = FillerStamp(now) /\ SlotFree
  BY DEF PublishCrisis
<1>2. r \in Entry /\ r.kind = "crisis" /\ r.n = sims' /\ r.ts = now
  BY NodeNumbers DEF PublishCrisis, NodeTypes, Entry
<1> HIDE DEF r
<1>3. /\ now \in Int /\ SlotTtl \in Nat /\ None \notin Int /\ (slot # None => slot \in Int)
      /\ Slide \in Int /\ Delay \in Int /\ Margin \in Int /\ MaxSkew \in Int /\ sims \in Int
  BY NodeNumbers DEF NodeTypes
<1>4. slot' # None /\ slot' - SlotTtl = now
  BY <1>1, <1>3
<1>5. slot # None => slot <= now
  BY <1>1 DEF SlotFree
<1>6. slot # None => FillerStamp(slot - SlotTtl) <= FillerStamp(slot' - SlotTtl)
  BY <1>3, <1>4, <1>5 DEF FillerStamp
<1>7. \A i \in DOMAIN Line : Line[i].ts <= now + Delay + Margin
  <2> SUFFICES ASSUME NEW i \in DOMAIN Line PROVE Line[i].ts <= now + Delay + Margin
    OBVIOUS
  <2>1. Line[i].ts \in Int
    BY LineEntries, EntryFacts
  <2>2. CASE Line[i].kind = "filler"
    <3>1. slot # None /\ Line[i].ts <= slot - SlotTtl + Slide + Delay + Margin
      BY <2>2 DEF CrisisFlow, FillerStamp
    <3>2. Slide <= SlotTtl
      BY CrisisAssumption
    <3> QED
      BY <1>3, <1>5, <2>1, <3>1, <3>2
  <2>3. CASE Line[i].kind # "filler"
    <3>1. Line[i].ts <= now + MaxSkew
      BY <2>3 DEF NewsFlow
    <3>2. MaxSkew <= Delay + Margin
      BY CrisisAssumption
    <3> QED
      BY <1>3, <2>1, <3>1, <3>2
  <2> QED
    BY <2>2, <2>3
<1>8. CASE Line' = Append(Line, r)
  BY <1>1, <1>2, <1>4, <1>6, <1>7, <1>8, CrisisFlowPut
<1>9. CASE Line' = Line
  <2>1. \A i \in DOMAIN Line : Line[i].kind = "filler" => Line[i].ts <= FillerStamp(slot' - SlotTtl)
    <3> SUFFICES ASSUME NEW i \in DOMAIN Line, Line[i].kind = "filler"
                 PROVE  Line[i].ts <= FillerStamp(slot' - SlotTtl)
      OBVIOUS
    <3>1. slot # None /\ Line[i].ts <= FillerStamp(slot - SlotTtl) /\ Line[i].ts \in Int
      BY LineEntries, EntryFacts DEF CrisisFlow
    <3>2. FillerStamp(slot - SlotTtl) \in Int /\ FillerStamp(slot' - SlotTtl) \in Int
      BY <1>3, <1>4, <3>1 DEF FillerStamp
    <3> QED
      BY <1>6, <3>1, <3>2
  <2>2. \A i \in DOMAIN Line : Line[i].kind # "news" => Line[i].n <= sims' /\ Line[i].n # sims'
    <3> SUFFICES ASSUME NEW i \in DOMAIN Line, Line[i].kind # "news"
                 PROVE  Line[i].n <= sims' /\ Line[i].n # sims'
      OBVIOUS
    <3>1. Line[i].n \in Int /\ Line[i].n <= sims
      BY LineEntries, EntryFacts DEF CrisisFlow
    <3> QED
      BY <1>1, <1>3, <3>1
  <2>3. filler' = FillerStamp(slot' - SlotTtl)
    BY <1>1, <1>4
  <2> QED
    BY <1>4, <1>9, <2>1, <2>2, <2>3 DEF CrisisFlow
<1> QED
  BY <1>1, <1>2, <1>8, <1>9, PutLine

LEMMA CrisisFlowStep ==
  ASSUME NodeTypes, NewsFlow, CrisisFlow, [NodeNext]_nodeState
  PROVE  CrisisFlow'
<1>0. FillerStamp(slot - SlotTtl) \in Int \/ slot = None
  BY NodeNumbers DEF NodeTypes, FillerStamp
<1>1. CASE Tock
  BY <1>1, LineSame, CrisisFlowFrame DEF Tock, Sweep!Elapse, simVars
<1>2. ASSUME NEW i \in Id, NEW ts \in FeedDate, Publish(i, ts) PROVE CrisisFlow'
  BY <1>2, LineSame, CrisisFlowFrame DEF Publish, simVars
<1>3. CASE SweepClaims
  BY <1>3, SweepSteps, LineSame, CrisisFlowFrame DEF simVars
<1>4. CASE SweepEnds \/ SweepRaises
  BY <1>4, LineSame, CrisisFlowFrame DEF SweepEnds, SweepRaises, simVars
<1>5. CASE SendToBus
  <2> DEFINE r == [kind |-> "news", n |-> Head(outbox).id, ts |-> Head(outbox).ts]
  <2>1. Put(r) /\ UNCHANGED <<slot, sims, filler, origins>>
    BY <1>5 DEF SendToBus, simVars
  <2>2. r \in Entry /\ r.kind = "news"
    BY <1>5, TailFacts, ParcelFacts DEF SendToBus, NodeTypes, Entry
  <2> HIDE DEF r
  <2>3. CASE Line' = Append(Line, r)
    <3>1. slot # None => FillerStamp(slot - SlotTtl) <= FillerStamp(slot - SlotTtl)
      BY <1>0
    <3> QED
      BY <2>1, <2>2, <2>3, <3>1, CrisisFlowPut DEF CrisisFlow
  <2> QED
    BY <2>1, <2>2, <2>3, PutLine, CrisisFlowFrame
<1>6. CASE PublishFiller
  <2> DEFINE r == [kind |-> "filler", n |-> sims, ts |-> filler]
  <2>1. Put(r) /\ UNCHANGED <<slot, sims, origins>> /\ filler' = None /\ filler # None
    BY <1>6 DEF PublishFiller, feedVars
  <2>2. r \in Entry /\ r.kind = "filler" /\ r.n = sims /\ r.ts = filler
    BY <1>6 DEF PublishFiller, NodeTypes, Entry
  <2> HIDE DEF r
  <2>3. CASE Line' = Append(Line, r)
    <3>1. slot # None => FillerStamp(slot - SlotTtl) <= FillerStamp(slot - SlotTtl)
      BY <1>0
    <3> QED
      BY <2>1, <2>2, <2>3, <3>1, CrisisFlowPut
  <2>4. CASE Line' = Line
    BY <2>1, <2>4 DEF CrisisFlow
  <2> QED
    BY <2>1, <2>2, <2>3, <2>4, PutLine
<1>7. CASE OfferFromBus
  BY <1>7, LineMoves, CrisisFlowFrame DEF OfferFromBus, simVars
<1>8. CASE BusEmpty \/ TickRound \/ FlushRound \/ UNCHANGED nodeState
  BY <1>8, PipelineSteps, LineSame, CrisisFlowFrame DEF OutsideEngine
<1>9. CASE RestartNode
  <2>1. Line' = <<>> /\ filler' = None /\ DOMAIN <<>> = {}
    BY <1>9 DEF RestartNode, Line
  <2> QED
    BY <2>1 DEF CrisisFlow
<1> QED
  BY <1>1, <1>2, <1>3, <1>4, <1>5, <1>6, <1>7, <1>8, <1>9, CrisisFlowCrisis
  DEF NodeNext, OtherThread

-----------------------------------------------------------------------------
(* News in time, and simulations that fire.                                *)

\* What StreamEngine's theorems rest on, all of which a restart re-establishes, and
\* the inductive invariant behind NewsIsOnTime and SimulationFires.
EngineInv == OrderInv /\ TrailInv /\ CompleteInv

FlowInv == EngineInv /\ Times /\ NewsFlow /\ CrisisFlow

LEMMA FlowStarts ==
  ASSUME NodeInit
  PROVE  FlowInv
<1>1. Line = <<>> /\ DOMAIN <<>> = {} /\ outbox = <<>> /\ filler = None
  BY DEF NodeInit, Sweep!Init, Line
<1>2. NewsFlow /\ CrisisFlow
  BY <1>1 DEF NewsFlow, CrisisFlow
<1>3. TrailInv
  BY DEF NodeInit, Init, InitEngine, TrailInv, Trails
<1> QED
  BY <1>2, <1>3, OrderStarts, CompleteStarts, TimesStart DEF NodeInit, FlowInv, EngineInv

LEMMA FlowInvariant == NodeSpec => [](NodeInv /\ FlowInv)
<1>1. NodeInit => FlowInv
  BY FlowStarts
<1>2. NodeInv /\ FlowInv /\ [NodeNext]_nodeState => NewsFlow' /\ CrisisFlow'
  BY NewsFlowStep, CrisisFlowStep DEF NodeInv, FlowInv
<1>3. NodeInv /\ FlowInv /\ [NodeNext]_nodeState => [Next]_vars \/ Init'
  BY EngineAtNode DEF NodeInv
<1>4. NodeInv /\ FlowInv /\ [Next]_vars => EngineInv' /\ Times'
  BY OrderStep, TrailStep, CompleteStep, TimesStep DEF NodeInv, FlowInv, EngineInv
<1>5. Init => EngineInv /\ Times
  BY OrderStarts, CompleteStarts, TimesStart
  DEF EngineInv, Init, InitEngine, TrailInv, Trails
<1>6. EngineInv /\ Times /\ NewsFlow /\ CrisisFlow => FlowInv
  BY DEF FlowInv
<1> QED
  BY <1>1, <1>2, <1>3, <1>4, <1>5, <1>6, NodeInvariant, PTL DEF NodeSpec

\* An article that was placed, as an entry of the line.
LEMMA PlacedEntry ==
  ASSUME TypeOK, NodeTypes, Links, NEW j \in judged
  PROVE  /\ j.article.id \in DOMAIN origins /\ j.article.id \in DOMAIN Line
         /\ Line[j.article.id] = origins[j.article.id]
         /\ j.article.ts = Line[j.article.id].ts /\ j.article.ts \in Int
         /\ j.wm \in Int /\ (j.maxTs # None => j.maxTs \in Int)
<1>1. j \in JudgedRecord
  BY DEF TypeOK
<1>2. j.article.ts \in EventTime /\ j.wm \in Int /\ j.maxTs \in EventTime \cup {None}
  BY <1>1 DEF JudgedRecord, Article
<1>3. EventTime \subseteq Int
  BY NodeNumbers
<1>4. j.article.id \in DOMAIN origins /\ j.article.ts = origins[j.article.id].ts
  BY DEF Links, FromEntry
<1>5. j.article.id \in DOMAIN Line /\ Line[j.article.id] = origins[j.article.id]
  BY <1>4, LineFacts
<1> QED
  BY <1>2, <1>3, <1>4, <1>5

\* The line's order of dates is the tolerance the engine needs.
LEMMA NewsInTime ==
  ASSUME NodeInv, FlowInv
  PROVE  NewsIsOnTime
<1> SUFFICES ASSUME NEW j \in judged, j.article.id \in OfferedAs("news"),
                    \A f \in OfferedAs("filler") : ~ (f < j.article.id)
             PROVE  \E w \in AssignWindows(j.article.ts, Size, Slide, 0) : ~ Passed(w, j.wm)
  BY DEF NewsIsOnTime
<1>1. LatenessTolerance /\ Slide <= Size
  BY TrailTolerates, ToleranceAssumption DEF NodeInv, FlowInv, EngineInv
<1>2. ASSUME j.maxTs # None
      PROVE  j.article.ts >= j.maxTs - (Size - Slide + Delay)
  <2>1. PICK k \in judged : k.article.id < j.article.id /\ k.article.ts = j.maxTs
    BY <1>2 DEF FlowInv, Times
  <2>2. /\ k.article.id \in DOMAIN Line /\ Line[k.article.id] = origins[k.article.id]
        /\ k.article.id \in DOMAIN origins /\ k.article.ts = Line[k.article.id].ts
        /\ j.article.id \in DOMAIN Line /\ Line[j.article.id] = origins[j.article.id]
        /\ j.article.ts = Line[j.article.id].ts
    BY PlacedEntry DEF NodeInv
  <2>3. Line[j.article.id].kind = "news" /\ Line[k.article.id].kind # "filler"
    BY <2>1, <2>2 DEF OfferedAs
  <2>4. Line[j.article.id].ts >= Line[k.article.id].ts - Reach
    BY <2>1, <2>2, <2>3 DEF FlowInv, NewsFlow
  <2> QED
    BY <2>1, <2>2, <2>4 DEF Reach
<1> QED
  BY <1>1, <1>2 DEF LatenessTolerance

\* Age filter, clamping, bus and batching leave every article a window that has not
\* passed, for every clock, bus and batch size the tolerance of the engine allows for:
\* only a filler dated ahead makes news late.
THEOREM NewsReachesAWindow == NodeSpec => []NewsIsOnTime
<1>1. NodeInv /\ FlowInv => NewsIsOnTime
  BY NewsInTime
<1> QED
  BY <1>1, FlowInvariant, PTL

\* The window a crisis of time t is fired with.
LEMMA CrisisWindow ==
  ASSUME NEW t \in Int
  PROVE  \E w \in AssignWindows(t, Size, Slide, 0) :
           w.end \in Int /\ t + Margin < w.end /\ w.end <= t + Margin + Slide
<1>0. /\ 0 \in Int /\ Size \in Nat \ {0} /\ Slide \in Nat \ {0} /\ Slide <= Size /\ Margin \in Nat
      /\ Margin <= Size - Slide /\ t + Margin \in Int
  BY NodeNumbers, ToleranceAssumption, CrisisAssumption
<1>1. PICK w \in AssignWindows(t + Margin, Size, Slide, 0) :
        t + Margin < w.end /\ w.end <= t + Margin + Slide
  BY <1>0, EarliestWindowEnd, Zenon
<1>2. PICK s \in AssignedStarts(t + Margin, Size, Slide, 0) : w = Window(s, Size)
  BY <1>1 DEF AssignWindows
<1>3. s \in Int
  BY <1>0, <1>2, AssignedInt, Zenon
<1>4. \E k \in Int : s = 0 + k * Slide
  BY <1>0, <1>2, <1>3, AssignmentIsTheGrid
<1>5. w.end = s + Size /\ w.start = s
  BY <1>2 DEF Window
<1>6. s <= t /\ t < s + Size
  BY <1>0, <1>1, <1>3, <1>5
<1>7. s \in AssignedStarts(t, Size, Slide, 0)
  BY <1>0, <1>3, <1>4, <1>6, AssignmentIsTheGrid, Zenon
<1>8. w \in AssignWindows(t, Size, Slide, 0)
  BY <1>2, <1>7 DEF AssignWindows
<1> QED
  BY <1>0, <1>1, <1>3, <1>5, <1>8

\* The filler pushes the watermark past the crisis's window, in which it was on time.
LEMMA CrisisFires ==
  ASSUME NodeInv, FlowInv, phase = "idle",
         NEW c \in OfferedAs("crisis"), NEW f \in OfferedAs("filler"), origins[c].n = origins[f].n,
         NEW x \in judged, x.article.id = c, x.article.tickers # {},
         NEW y \in judged, y.article.id = f, y.article.tickers # {}
  PROVE  \E i \in DOMAIN fired : c \in fired[i].ids
<1> DEFINE t == x.article.ts
<1>1. /\ c \in DOMAIN Line /\ Line[c] = origins[c] /\ t = Line[c].ts /\ t \in Int
      /\ f \in DOMAIN Line /\ Line[f] = origins[f] /\ y.article.ts = Line[f].ts
      /\ x.wm \in Int /\ (x.maxTs # None => x.maxTs \in Int)
  BY PlacedEntry DEF NodeInv
<1>2. Line[c].kind = "crisis" /\ Line[f].kind = "filler" /\ Line[c].n = Line[f].n
  BY <1>1 DEF OfferedAs
<1>3. y.article.ts = t + Slide + Delay + Margin
  BY <1>1, <1>2 DEF FlowInv, CrisisFlow, FillerStamp
<1>4. /\ Slide \in Nat \ {0} /\ Delay \in Nat /\ Margin \in Nat /\ watermark \in Int
      /\ maxTs \in EventTime \cup {None} /\ EventTime \subseteq Int /\ t \in EventTime
      /\ NoWatermark \in Int /\ NoWatermark < t - Delay - 1
  <2>1. t \in EventTime
    BY DEF NodeInv, TypeOK, JudgedRecord, Article
  <2> QED
    BY <2>1, NodeNumbers, ValueAssumption DEF NodeInv, TypeOK
<1> HIDE DEF t
<1>5. watermark >= t + Slide + Margin - 1
  <2>1. maxTs # None /\ y.article.ts <= maxTs
    BY DEF FlowInv, Times
  <2>2. watermark >= maxTs - Delay - 1
    BY <2>1 DEF FlowInv, Times
  <2> QED
    BY <1>1, <1>3, <1>4, <2>1, <2>2
<1>6. x.wm < t + Margin
  <2>1. Trails(x.wm, x.maxTs)
    BY DEF FlowInv, EngineInv, TrailInv
  <2>2. CASE x.maxTs = None
    BY <1>1, <1>4, <2>1, <2>2 DEF Trails
  <2>3. CASE x.maxTs # None
    <3>1. PICK k \in judged : k.article.id < c /\ k.article.ts = x.maxTs
      BY <2>3 DEF FlowInv, Times
    <3>2. k.article.id \in DOMAIN Line /\ k.article.ts = Line[k.article.id].ts
      BY PlacedEntry DEF NodeInv
    <3>3. Line[k.article.id].ts <= Line[c].ts + Delay + Margin
      BY <1>1, <1>2, <3>1, <3>2 DEF FlowInv, CrisisFlow
    <3>4. x.maxTs <= t + Delay + Margin /\ x.wm <= x.maxTs - Delay - 1
      BY <1>1, <2>1, <2>3, <3>1, <3>2, <3>3 DEF Trails
    <3> QED
      BY <1>1, <1>4, <2>3, <3>4
  <2> QED
    BY <2>2, <2>3
<1>7. PICK w \in AssignWindows(t, Size, Slide, 0) :
        w.end \in Int /\ t + Margin < w.end /\ w.end <= t + Margin + Slide
  BY <1>1, CrisisWindow
<1>8. Passed(w, watermark) /\ ~ Passed(w, x.wm)
  BY <1>1, <1>4, <1>5, <1>6, <1>7 DEF Passed
<1>9. PICK tick \in x.article.tickers : TRUE
  OBVIOUS
<1> DEFINE k == [ticker |-> tick, window |-> w]
<1>10. k \in KeysOf(x.article) /\ k.window = w
  BY <1>7, <1>9 DEF KeysOf, t
<1> HIDE DEF k
<1>11. k \notin OpenKeys
  BY <1>8, <1>10 DEF FlowInv, EngineInv, OrderInv, NothingDueWhenIdle
<1>12. [key |-> k, id |-> c] \notin windows
  BY <1>11 DEF OpenKeys
<1>13. PICK i \in DOMAIN fired : fired[i].key = k
  BY <1>8, <1>10, <1>12 DEF FlowInv, EngineInv, CompleteInv, ArrivalsKept
<1>14. c \in OnTime(k)
  BY <1>8, <1>10 DEF OnTime
<1>15. fired[i].ids = OnTime(k)
  BY <1>13 DEF FlowInv, EngineInv, CompleteInv, ResultsComplete
<1> QED
  BY <1>13, <1>14, <1>15

\* A simulation whose crisis and filler the engine has placed, with their tickers, has
\* fired a window with the crisis, whatever news came before it and whatever
\* simulation went before it.
THEOREM SimulationsFire == NodeSpec => []SimulationFires
<1>1. NodeInv /\ FlowInv => SimulationFires
  <2> SUFFICES ASSUME NodeInv, FlowInv, phase = "idle",
                      NEW c \in OfferedAs("crisis"), NEW f \in OfferedAs("filler"),
                      origins[c].n = origins[f].n,
                      \E j \in judged : j.article.id = c /\ j.article.tickers # {},
                      \E j \in judged : j.article.id = f /\ j.article.tickers # {}
               PROVE  \E i \in DOMAIN fired : c \in fired[i].ids
    BY DEF SimulationFires
  <2> QED
    BY CrisisFires
<1> QED
  BY <1>1, FlowInvariant, PTL
=============================================================================
