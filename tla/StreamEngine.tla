---------------------------- MODULE StreamEngine ----------------------------
(***************************************************************************)
(* The lite stream engine (services/processor/src/engine.py): micro-batch  *)
(* enrichment, event-time window assignment, watermark, window firing.     *)
(*                                                                         *)
(* One thread calls offer and tick.  A flush is several steps here, so     *)
(* that a composition can stop the process in the middle of one:           *)
(*                                                                         *)
(*   idle --offer/tick--> placing --AdvanceWatermark--> firing --> idle    *)
(*                                                                         *)
(* Articles are reduced to what event time depends on: an identity, the    *)
(* publication timestamp and the tickers they mention.  The processing     *)
(* clock is reduced to the time left on the flush timer.                   *)
(***************************************************************************)
EXTENDS Windows, FiniteSets

CONSTANTS
  Ticker,          \* the tickers entity detection can return
  EventTime,       \* the publication timestamps articles may carry
  Size, Slide,     \* window geometry
  Delay,           \* watermark delay (bounded out-of-orderness)
  BatchSize,       \* articles per enrichment call
  BatchTimeout,    \* longest time a partial batch waits
  NoWatermark,     \* below every timestamp: nothing is late before the first flush
  None,            \* Python's None
  MaxRaw,          \* bound: articles offered in a behaviour
  MaxStageErrors   \* bound: side effects that fail in a behaviour

ASSUME GeometryAssumption ==
  /\ Size \in Nat \ {0} /\ Slide \in Nat \ {0}
  /\ Delay \in Nat
ASSUME BatchAssumption ==
  /\ BatchSize \in Nat \ {0} /\ BatchTimeout \in Nat
ASSUME ValueAssumption ==
  /\ EventTime \subseteq Int
  /\ NoWatermark \in Int
  /\ \A t \in EventTime : NoWatermark < t - Delay - 1
  /\ None \notin Int
  /\ IsFiniteSet(Ticker)
ASSUME BoundAssumption == MaxRaw \in Nat /\ MaxStageErrors \in Nat

VARIABLES
  buffer,      \* _buffer: raw articles waiting for enrichment
  flushIn,     \* _flush_at, as the time left on the timer, or None
  batch,       \* enriched articles of the flush in progress, not yet placed
  phase,       \* where the thread is: "idle", "placing" or "firing"
  maxTs,       \* _max_ts
  watermark,   \* _watermark
  windows,     \* _windows: one entry per (ticker, window) and article in it
  stats,       \* EngineStats
  fired,       \* what on_window has been called with, in order
  judged       \* history: every placed article with the event time it met

engineVars == <<buffer, flushIn, batch, phase, maxTs, watermark, windows, stats>>
vars == <<engineVars, fired, judged>>

-----------------------------------------------------------------------------
Article == [id : 1..MaxRaw, ts : EventTime, tickers : SUBSET Ticker]
Key     == [ticker : Ticker, window : [start : Int, end : Int]]
Counter == {"raw_in", "batches", "enriched", "enrich_dropped",
            "mentions", "late_dropped", "windows_fired", "stage_errors"}
Stats   == [Counter -> Nat]

\* The counters after adding the increments `inc`.
Bump(s, inc) == [c \in Counter |-> IF c \in DOMAIN inc THEN s[c] + inc[c] ELSE s[c]]

\* The (ticker, window) pairs one article contributes to.
KeysOf(a) == {[ticker |-> t, window |-> w] :
                t \in a.tickers, w \in AssignWindows(a.ts, Size, Slide, 0)}

\* The one test behind both lateness and firing: the watermark has passed the
\* last instant of the window.
Passed(w, wm) == w.end - 1 <= wm

OpenKeys    == {m.key : m \in windows}
Contents(k) == {m.id : m \in {x \in windows : x.key = k}}

\* Mutant of Due: compares the exclusive end instead of the last instant.
DueOffByOne == {k \in OpenKeys : k.window.end <= watermark}

Due == {k \in OpenKeys : Passed(k.window, watermark)}

Later(ts) == IF maxTs = None \/ ts > maxTs THEN ts ELSE maxTs

\* _side_effect: a failing sink is counted and otherwise ignored.
SideEffects(s, n) ==
  \E e \in 0..n : /\ s.stage_errors + e <= MaxStageErrors
                  /\ stats' = Bump(s, [stage_errors |-> e])

-----------------------------------------------------------------------------
InitEngine ==
  /\ buffer = <<>> /\ flushIn = None
  /\ batch = {} /\ phase = "idle"
  /\ maxTs = None /\ watermark = NoWatermark
  /\ windows = {}
  /\ stats = [c \in Counter |-> 0]

Init == InitEngine /\ fired = <<>> /\ judged = {}

\* Mutant of Flush: an enrichment outage that drops the batch is not counted.
FlushForgetsDropped(pending, s) ==
  /\ buffer' = <<>> /\ flushIn' = None
  /\ \E enriched \in SUBSET {pending[i] : i \in DOMAIN pending} :
       /\ batch' = enriched
       /\ stats' = Bump(s, [batches |-> 1, enriched |-> Cardinality(enriched)])
  /\ phase' = "placing"
  /\ UNCHANGED <<maxTs, watermark, windows, fired, judged>>

\* _flush up to the enrichment call.  Undecodable articles and those the
\* enrichment service does not return are dropped; an outage drops them all.
Flush(pending, s) ==
  /\ buffer' = <<>> /\ flushIn' = None
  /\ \E enriched \in SUBSET {pending[i] : i \in DOMAIN pending} :
       /\ batch' = enriched
       /\ stats' = Bump(s, [batches        |-> 1,
                            enriched       |-> Cardinality(enriched),
                            enrich_dropped |-> Len(pending) - Cardinality(enriched)])
  /\ phase' = "placing"
  /\ UNCHANGED <<maxTs, watermark, windows, fired, judged>>

CountRaw == Bump(stats, [raw_in |-> 1])

\* Mutant of BufferArticle: the article is kept but no timer is armed for it.
BufferUnarmed(a) ==
  /\ phase = "idle"
  /\ Len(buffer) + 1 < BatchSize
  /\ buffer' = Append(buffer, a)
  /\ stats' = CountRaw
  /\ UNCHANGED <<flushIn, batch, phase, maxTs, watermark, windows, fired, judged>>

\* offer, when the batch is still short: keep the article and arm the timer.
BufferArticle(a) ==
  /\ phase = "idle"
  /\ Len(buffer) + 1 < BatchSize
  /\ buffer' = Append(buffer, a)
  /\ flushIn' = IF flushIn = None THEN BatchTimeout ELSE flushIn
  /\ stats' = CountRaw
  /\ UNCHANGED <<batch, phase, maxTs, watermark, windows, fired, judged>>

\* offer, when the article completes the batch.
FillBatch(a) ==
  /\ phase = "idle"
  /\ Len(buffer) + 1 >= BatchSize
  /\ Flush(Append(buffer, a), CountRaw)

Offer(a) == BufferArticle(a) \/ FillBatch(a)

\* Processing time passes while a timer runs.
Elapse ==
  /\ flushIn # None /\ flushIn > 0
  /\ flushIn' = flushIn - 1
  /\ UNCHANGED <<buffer, batch, phase, maxTs, watermark, windows, stats, fired, judged>>

\* tick at or after the deadline.  Flushing an empty buffer only clears the timer.
TickAt(expired) ==
  /\ phase = "idle"
  /\ expired
  /\ IF buffer = <<>>
     THEN /\ flushIn' = None
          /\ UNCHANGED <<buffer, batch, phase, maxTs, watermark, windows, stats, fired, judged>>
     ELSE Flush(buffer, stats)

Tick == TickAt(flushIn = 0)

\* What PlaceArticle and its mutants share: `onTime` is the set of windows the
\* article still counts in, `wm` the watermark it leaves behind.
PlaceIn(a, onTime, wm) ==
  /\ phase = "placing"
  /\ a \in batch /\ \A b \in batch : a.id <= b.id
  /\ batch' = batch \ {a}
  /\ windows' = windows \cup {[key |-> k, id |-> a.id] : k \in onTime}
  /\ maxTs' = IF a.tickers = {} THEN maxTs ELSE Later(a.ts)
  /\ watermark' = wm
  /\ SideEffects(Bump(stats, [mentions     |-> Cardinality(a.tickers),
                              late_dropped |-> IF onTime = {} THEN Cardinality(a.tickers) ELSE 0]), 2)
  /\ judged' = judged \cup {[article |-> a, wm |-> watermark, maxTs |-> maxTs]}
  /\ UNCHANGED <<buffer, flushIn, phase, fired>>

\* Mutant of PlaceArticle: lateness is never tested.
PlaceLate(a) == PlaceIn(a, KeysOf(a), watermark)

\* One article of the batch, in arrival order: the news.enriched and headline
\* side effects, then _assign for each of its mentions.  All are judged against
\* the watermark from before the batch.
PlaceArticle(a) ==
  PlaceIn(a, {k \in KeysOf(a) : ~ Passed(k.window, watermark)}, watermark)

\* Mutant of AdvanceWatermark: the out-of-orderness delay is forgotten.
AdvanceWithoutDelay ==
  /\ phase = "placing" /\ batch = {}
  /\ IF maxTs # None /\ maxTs > watermark
     THEN watermark' = maxTs /\ phase' = "firing"
     ELSE phase' = "idle" /\ UNCHANGED watermark
  /\ UNCHANGED <<buffer, flushIn, batch, maxTs, windows, stats, fired, judged>>

\* Once the batch is placed the watermark moves up to the newest event time
\* less the delay, and only forward.
AdvanceWatermark ==
  /\ phase = "placing" /\ batch = {}
  /\ IF maxTs # None /\ maxTs - Delay - 1 > watermark
     THEN watermark' = maxTs - Delay - 1 /\ phase' = "firing"
     ELSE phase' = "idle" /\ UNCHANGED watermark
  /\ UNCHANGED <<buffer, flushIn, batch, maxTs, windows, stats, fired, judged>>

\* What FireWindow and its mutants share: hand the window's mentions to the sink
\* and leave `rest` open.
FireLeaving(k, rest) ==
  /\ phase = "firing"
  /\ windows' = rest
  /\ fired' = Append(fired, [key |-> k, ids |-> Contents(k)])
  /\ SideEffects(Bump(stats, [windows_fired |-> 1]), 1)
  /\ UNCHANGED <<buffer, flushIn, batch, phase, maxTs, watermark, judged>>

\* Mutant of FireWindow: due windows are not sorted by their end.
FireUnsorted(k) == k \in Due /\ FireLeaving(k, {m \in windows : m.key # k})

\* Mutant of FireWindow: the pop forgets the ticker.
FireAllTickers(k) ==
  /\ k \in Due /\ \A d \in Due : k.window.end <= d.window.end
  /\ FireLeaving(k, {m \in windows : m.key.window # k.window})

\* _fire_due, one window: pop the due window with the earliest end and hand its
\* mentions to the sink.  Windows ending together fire in ticker order in the
\* code, in any order here.
FireWindow(k) ==
  /\ k \in Due /\ \A d \in Due : k.window.end <= d.window.end
  /\ FireLeaving(k, {m \in windows : m.key # k})

FlushDone ==
  /\ phase = "firing" /\ Due = {}
  /\ phase' = "idle"
  /\ UNCHANGED <<buffer, flushIn, batch, maxTs, watermark, windows, stats, fired, judged>>

\* The steps of a flush in progress.
FlushStep ==
  \/ \E a \in batch : PlaceArticle(a)
  \/ AdvanceWatermark
  \/ \E k \in Due : FireWindow(k)
  \/ FlushDone

\* Articles are numbered in the order they are offered.
OfferNext ==
  /\ stats.raw_in < MaxRaw
  /\ \E ts \in EventTime, T \in SUBSET Ticker :
       Offer([id |-> stats.raw_in + 1, ts |-> ts, tickers |-> T])

Next == OfferNext \/ Elapse \/ Tick \/ FlushStep

\* The main loop calls tick at least every batch timeout (main.py polls no
\* longer than that), the clock does not stop, and a flush that started is not
\* abandoned by its thread.  Nothing makes news arrive.
Fairness == WF_vars(Elapse) /\ WF_vars(Tick) /\ WF_vars(FlushStep)

Spec == Init /\ [][Next]_vars /\ Fairness

-----------------------------------------------------------------------------
JudgedRecord == [article : Article, wm : Int, maxTs : EventTime \cup {None}]

\* Every variable keeps its type.
TypeOK ==
  /\ buffer \in Seq(Article)
  /\ flushIn \in 0..BatchTimeout \cup {None}
  /\ batch \subseteq Article
  /\ phase \in {"idle", "placing", "firing"}
  /\ maxTs \in EventTime \cup {None}
  /\ watermark \in Int
  /\ windows \subseteq [key : Key, id : Nat]
  /\ stats \in Stats
  /\ fired \in Seq([key : Key, ids : SUBSET Nat])
  /\ judged \subseteq JudgedRecord

\* on_window is called at most once for a (ticker, window): a late mention never
\* re-opens a window that has been popped, so no window alerts or enters the
\* baseline twice.
FiresAtMostOnce ==
  \A i, j \in DOMAIN fired : fired[i].key = fired[j].key => i = j

\* Across batches as well as inside one, windows reach the alerting stage in
\* event-time order, so a baseline sample never follows one of a later window.
FiresInEventTimeOrder ==
  \A i, j \in DOMAIN fired :
    i < j => fired[i].key.window.end <= fired[j].key.window.end

\* The articles that reached a window before the watermark passed it.
OnTime(k) == {j.article.id : j \in {x \in judged : k \in KeysOf(x.article)
                                                  /\ ~ Passed(k.window, x.wm)}}

\* A window holds, and is fired with, exactly the articles that mention its
\* ticker inside its interval and arrived in time: none is missing because of a
\* batch boundary or a pop, none is left over from another window.
WindowsAreComplete ==
  /\ \A k \in OpenKeys : Contents(k) = OnTime(k)
  /\ \A i \in DOMAIN fired : fired[i].ids = OnTime(fired[i].key)
  /\ \A j \in judged : \A k \in KeysOf(j.article) :
       OnTime(k) # {} => k \in OpenKeys \/ \E i \in DOMAIN fired : fired[i].key = k

\* No window that is due survives a flush: whenever the thread is back in its
\* loop, everything still open ends after the watermark.
NothingDueWhenIdle ==
  phase # "firing" => \A k \in OpenKeys : ~ Passed(k.window, watermark)

\* An article is in the buffer exactly while a timer is armed to flush it, and
\* the buffer stays below the batch size: no article waits without a deadline.
TimerArmedIffBuffered ==
  /\ flushIn # None <=> buffer # <<>>
  /\ Len(buffer) < BatchSize

\* Every offered article is waiting, being placed, placed, or counted as dropped.
ArticlesAccountedFor ==
  /\ stats.raw_in = Len(buffer) + stats.enriched + stats.enrich_dropped
  /\ stats.enriched = Cardinality(batch) + Cardinality(judged)

\* Bounded out-of-orderness: an article no older than Size - Slide + Delay
\* behind the newest one placed before it still counts in some window.  The
\* clamping of stale timestamps in ingestion relies on this tolerance.
LatenessTolerance ==
  Slide <= Size => \A j \in judged :
    (j.maxTs # None => j.article.ts >= j.maxTs - (Size - Slide + Delay))
      => \E w \in AssignWindows(j.article.ts, Size, Slide, 0) : ~ Passed(w, j.wm)

\* The windows a placed article was on time for.
Contribution(j) == {[key |-> k, id |-> j.article.id] :
                      k \in {x \in KeysOf(j.article) : ~ Passed(x.window, j.wm)}}
Received == UNION {Contribution(j) : j \in judged}

\* The abstract window operator, seen through the history of placed articles.
Operator == INSTANCE EventTimeWindows WITH
  Id       <- 1..MaxRaw,
  received <- Received,
  wm       <- watermark,
  emitted  <- fired

\* The engine implements the abstract window operator: batching, the buffer and
\* the incremental pops never change which results come out, or their order.
ImplementsWindowOperator == Operator!Spec

\* The watermark never moves back and never overtakes the newest event time less
\* the delay; it moves only between batches.
WatermarkDiscipline ==
  [][watermark' # watermark =>
       /\ batch = {} /\ maxTs # None
       /\ watermark' > watermark
       /\ watermark' = maxTs - Delay - 1]_vars

\* Every article that is offered leaves the buffer and the flush it is part of
\* runs to its end, whether or not more news arrives.
OfferedIsHandled ==
  \A n \in 1..MaxRaw :
    stats.raw_in >= n ~> (stats.enriched + stats.enrich_dropped >= n /\ phase = "idle")
=============================================================================
