------------------------------ MODULE Windows ------------------------------
(***************************************************************************)
(* Sliding event-time window assignment (libs/core/riskcore/windows.py),   *)
(* the arithmetic that both stream engines and the replay harness share.   *)
(* Timestamps are integers; a window is the half-open interval             *)
(* [start, end).  The ValueError for a non-positive size or slide is a     *)
(* precondition of every operator here.                                    *)
(***************************************************************************)
EXTENDS Integers, Sequences

\* Python's // floors, and so does \div for a positive divisor.
FloorMod(a, b) == a - (a \div b) * b

WindowStartWithOffset(ts, offset, size) == ts - FloorMod(ts - offset, size)

\* The loop walks down from the last start by `slide` while the window still
\* reaches `ts`; it makes at most `size` rounds because the slide is positive.
AssignedStarts(ts, size, slide, offset) ==
  LET lastStart == WindowStartWithOffset(ts, offset, slide)
  IN  {s \in {lastStart - k * slide : k \in 0..size} : s > ts - size}

Window(start, size) == [start |-> start, end |-> start + size]

AssignWindows(ts, size, slide, offset) ==
  {Window(s, size) : s \in AssignedStarts(ts, size, slide, offset)}

\* Ceiling division.
WindowCount(size, slide) == -((-size) \div slide)

\* Payloads are grouped in the order of `items`, pairs of timestamp and payload.
Bucket(items, size, slide, offset) ==
  LET In(w) == {i \in DOMAIN items : w \in AssignWindows(items[i][1], size, slide, offset)}
      Used  == UNION {AssignWindows(items[i][1], size, slide, offset) : i \in DOMAIN items}
  IN  [w \in Used |-> LET Inside(item) == w \in AssignWindows(item[1], size, slide, offset)
                      IN  SelectSeq(items, Inside)]
=============================================================================
