--------------------------- MODULE SlidingWindow ---------------------------
(* src/src/core/sliding_window.rs: the last values pushed, in a ring.  The  *)
(* values are whole numbers here; a mean is left as its sum and its count,  *)
(* and the median is doubled.                                               *)
EXTENDS Integers, Sequences, FiniteSets, SequencesExt

\* SlidingWindow::new
NewWindow(capacity) ==
    [values |-> [slot \in 0 .. capacity - 1 |-> 0], cursor |-> 0, count |-> 0]

Capacity(w) == Cardinality(DOMAIN w.values)

\* A seeded defect for the checks: the cursor wraps a slot too early.
PushShort(w, value) ==
    [values |-> [w.values EXCEPT ![w.cursor] = value],
     cursor |-> IF w.cursor + 1 >= Capacity(w) - 1 THEN 0 ELSE w.cursor + 1,
     count  |-> IF w.count < Capacity(w) THEN w.count + 1 ELSE w.count]

Push(w, value) ==
    [values |-> [w.values EXCEPT ![w.cursor] = value],
     cursor |-> (w.cursor + 1) % Capacity(w),
     count  |-> IF w.count < Capacity(w) THEN w.count + 1 ELSE w.count]

\* The slots that the statistics read.
Live(w) == [k \in 1 .. w.count |-> w.values[k - 1]]

\* The k-th value of a sorted list: fewer than k are less, at least k are not greater.
Ascending(s) ==
    [k \in DOMAIN s |->
        CHOOSE v \in ToSet(s) : /\ Cardinality({j \in DOMAIN s : s[j] < v}) < k
                               /\ Cardinality({j \in DOMAIN s : s[j] <= v}) >= k]

Total(s) == FoldLeft(LAMBDA a, b : a + b, 0, s)

\* Twice the median, 0 of no value.
TwiceMedian(w) ==
    LET n == w.count
        sorted == Ascending(Live(w))
    IN  IF n = 0 THEN 0
        ELSE IF n % 2 = 0 THEN sorted[n \div 2] + sorted[n \div 2 + 1]
        ELSE 2 * sorted[n \div 2 + 1]
=============================================================================
