------------------------------ MODULE LossyLog ------------------------------
(***************************************************************************)
(* What the audit buffer promises its host: the lines appended come out in *)
(* order and whole, and when there is no room the oldest go, no more of    *)
(* them than must.  A byte is <<entry, place, length>>; the last byte of   *)
(* an entry is its newline.                                                *)
(***************************************************************************)
EXTENDS Naturals, Sequences

CONSTANTS Capacity

VARIABLES
  queue,  \* the bytes not yet drained
  count   \* entries appended

vars == <<queue, count>>

Line(e, n) == [i \in 1 .. n |-> <<e, i, n>>]
IsNewline(b) == b[2] = b[3]

\* The places where the queue may be cut: before it, after a line, or all of it.
Cuts(q) == {0} \cup {k \in 1 .. Len(q) : IsNewline(q[k])}

Init == queue = <<>> /\ count = 0

\* Room is made for n more bytes, and one that is never used.
Put(n) ==
  /\ count' = count + 1
  /\ \E k \in Cuts(queue) :
       /\ Len(queue) - k + n < Capacity
       /\ \A j \in Cuts(queue) : j < k => Len(queue) - j + n >= Capacity
       /\ queue' = SubSeq(queue, k + 1, Len(queue)) \o Line(count + 1, n)

Drain(n) ==
  /\ n <= Len(queue)
  /\ queue' = SubSeq(queue, n + 1, Len(queue))
  /\ UNCHANGED count

Clear == queue' = <<>> /\ UNCHANGED count

Next == Clear \/ \E n \in 1 .. Capacity : Put(n) \/ Drain(n)

Spec == Init /\ [][Next]_vars
=============================================================================
