------------------------------ MODULE ByteStream ------------------------------
(***************************************************************************)
(* What a pipe promises, whatever its buffer, wakers and flags: the bytes  *)
(* written come out in order, each exactly once, with at most Capacity of  *)
(* them in between.  Bytes are numbered as they are written.               *)
(***************************************************************************)
EXTENDS Naturals, Sequences

CONSTANTS Capacity

VARIABLES
  queue,     \* the bytes written and not yet read
  written,   \* number of bytes written
  end        \* the write end was closed

vars == <<queue, written, end>>

Init == queue = <<>> /\ written = 0 /\ end = FALSE

Put(n) ==
  /\ Len(queue) + n <= Capacity
  /\ queue' = queue \o [i \in 1 .. n |-> written + i]
  /\ written' = written + n
  /\ UNCHANGED end

Get(n) ==
  /\ n <= Len(queue)
  /\ queue' = SubSeq(queue, n + 1, Len(queue))
  /\ UNCHANGED <<written, end>>

Close == end' = TRUE /\ UNCHANGED <<queue, written>>

Next == Close \/ \E n \in 1 .. Capacity : Put(n) \/ Get(n)

Spec == Init /\ [][Next]_vars
=============================================================================
