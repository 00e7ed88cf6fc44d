-------------------------- MODULE EventTimeWindows --------------------------
(***************************************************************************)
(* What an event-time window operator promises, independent of batching,   *)
(* buffers and the order of its steps; both stream engines are meant to    *)
(* keep this promise.  An element counts in the windows that contain its   *)
(* timestamp and that the watermark has not passed when it arrives; every  *)
(* window that received an element is emitted once, after the watermark    *)
(* passed it, in event-time order, with all the elements it received.      *)
(***************************************************************************)
EXTENDS Windows

CONSTANTS Ticker, Id, EventTime, Size, Slide, NoWatermark

VARIABLES
  received,    \* on-time arrivals: element identities per (ticker, window)
  wm,          \* the watermark
  emitted      \* results, in the order they were emitted

absVars == <<received, wm, emitted>>

Key == [ticker : Ticker, window : [start : Int, end : Int]]

KeysAt(ts, tickers) == {[ticker |-> t, window |-> w] :
                          t \in tickers, w \in AssignWindows(ts, Size, Slide, 0)}
Closed(k)    == k.window.end - 1 <= wm
Elements(k)  == {r.id : r \in {x \in received : x.key = k}}
Emitted(k)   == \E i \in DOMAIN emitted : emitted[i].key = k
Waiting      == {k \in {r.key : r \in received} : ~ Emitted(k)}

Init == received = {} /\ wm = NoWatermark /\ emitted = <<>>

Arrive(id, ts, tickers) ==
  /\ received' = received \cup
       {[key |-> k, id |-> id] : k \in {x \in KeysAt(ts, tickers) : ~ Closed(x)}}
  /\ UNCHANGED <<wm, emitted>>

\* Time only moves forward.
AdvanceTo(t) == t > wm /\ wm' = t /\ UNCHANGED <<received, emitted>>

Emit(k) ==
  /\ k \in Waiting /\ Closed(k)
  /\ \A other \in Waiting : k.window.end <= other.window.end
  /\ emitted' = Append(emitted, [key |-> k, ids |-> Elements(k)])
  /\ UNCHANGED <<received, wm>>

EmitNext == \E k \in Waiting : Emit(k)

Next ==
  \/ \E id \in Id, ts \in EventTime, tickers \in SUBSET Ticker : Arrive(id, ts, tickers)
  \/ wm' \in Int /\ AdvanceTo(wm')
  \/ EmitNext

Safety == Init /\ [][Next]_absVars
\* A window whose end has been passed is emitted sooner or later.
Spec == Safety /\ WF_absVars(EmitNext)
=============================================================================
