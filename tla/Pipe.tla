-------------------------------- MODULE Pipe --------------------------------
(***************************************************************************)
(* The async pipe between two tasks                                        *)
(* (crates/amla-sandbox-scheduler/src/pipe.rs): a ring buffer, one waker   *)
(* slot for readers and one for writers, and the flags that decide when a  *)
(* blocked writer is woken.                                                *)
(*                                                                         *)
(* Each action is one call on the pipe.  Bytes are numbered in the order   *)
(* they are accepted, so that the buffer's content tells loss, duplication *)
(* and reordering apart.                                                   *)
(***************************************************************************)
EXTENDS Integers, Sequences

CONSTANTS
  Capacity,   \* bytes in the ring buffer
  Readers,    \* tasks that read
  Writers,    \* tasks that write
  NoWaker,    \* None
  MaxChunk,   \* bound: bytes asked for in one call (no caller asks for 0)
  MaxBytes    \* bound: bytes accepted in a behaviour

ASSUME PipeAssumption ==
  /\ Capacity \in Nat \ {0}
  /\ MaxChunk \in Nat
  /\ MaxBytes \in Nat
  /\ Readers \cap Writers = {}
  /\ NoWaker \notin Readers \cup Writers

VARIABLES
  buffer, head, tail, len,       \* the ring
  closed,                        \* the write end is closed
  read_waker, write_waker,
  writer_blocked, was_full,      \* the wake-up rule for writers
  reader_blocked,                \* seen by is_reader_blocked
  state,      \* task -> "idle", or "blocked" when its last poll was Pending
  woken,      \* tasks woken since their last poll
  sent        \* number of bytes accepted

ring == <<buffer, head, tail, len>>
flags == <<closed, writer_blocked, was_full, reader_blocked>>
wakers == <<read_waker, write_waker>>
vars == <<ring, flags, wakers, state, woken, sent>>

Cells == 0 .. Capacity - 1
Clients == Readers \cup Writers

TypeOK ==
  /\ buffer \in [Cells -> 0 .. MaxBytes]
  /\ head \in Cells
  /\ tail \in Cells
  /\ len \in 0 .. Capacity
  /\ closed \in BOOLEAN
  /\ read_waker \in Readers \cup {NoWaker}
  /\ write_waker \in Writers \cup {NoWaker}
  /\ writer_blocked \in BOOLEAN
  /\ was_full \in BOOLEAN
  /\ reader_blocked \in BOOLEAN
  /\ state \in [Clients -> {"idle", "blocked"}]
  /\ woken \subseteq Clients
  /\ sent \in 0 .. MaxBytes

Init ==
  /\ buffer = [i \in Cells |-> 0]
  /\ head = 0
  /\ tail = 0
  /\ len = 0
  /\ closed = FALSE
  /\ read_waker = NoWaker
  /\ write_waker = NoWaker
  /\ writer_blocked = FALSE
  /\ was_full = FALSE
  /\ reader_blocked = FALSE
  /\ state = [c \in Clients |-> "idle"]
  /\ woken = {}
  /\ sent = 0

-----------------------------------------------------------------------------
LowWatermarkPercent == 25

is_full(l) == l = Capacity
is_below_low_watermark(l) == l <= (Capacity * LowWatermarkPercent) \div 100

\* Positions stay below 2 * Capacity before they wrap.
Wrap(i) == IF i >= Capacity THEN i - Capacity ELSE i

Smaller(a, b) == IF a <= b THEN a ELSE b

\* Mutant: a read starts the ring afresh.
read_into_resets(n) ==
  /\ head' = 0
  /\ len' = len - n
  /\ UNCHANGED <<buffer, tail>>

\* read_into: n bytes leave at the head.
read_into(n) ==
  /\ head' = Wrap(head + n)
  /\ len' = len - n
  /\ UNCHANGED <<buffer, tail>>

\* write_from: n bytes, n <= available_write, enter at the tail.
write_from(n) ==
  /\ buffer' = [i \in Cells |->
       IF \E k \in 0 .. n - 1 : Wrap(tail + k) = i
       THEN sent + 1 + (IF i >= tail THEN i - tail ELSE i + Capacity - tail)
       ELSE buffer[i]]
  /\ tail' = Wrap(tail + n)
  /\ len' = len + n
  /\ sent' = sent + n
  /\ UNCHANGED head

-----------------------------------------------------------------------------
(* Reading.                                                                *)

\* Mutant: the low watermark alone decides.
should_wake_writer_low(l) == writer_blocked /\ is_below_low_watermark(l)

\* The rule for waking the writer after a read that leaves l bytes.
should_wake_writer(l) == writer_blocked /\ (is_below_low_watermark(l) \/ was_full)

\* poll_read with data in the buffer.
ReadSome(r, n) ==
  LET k == Smaller(n, len)
      wake == should_wake_writer(len - k) IN
  /\ len > 0
  /\ read_into(k)
  /\ was_full' = FALSE
  /\ reader_blocked' = FALSE
  /\ writer_blocked' = (writer_blocked /\ ~wake)
  /\ write_waker' = IF wake THEN NoWaker ELSE write_waker
  /\ woken' = (woken \ {r}) \cup (IF wake THEN {write_waker} \ {NoWaker} ELSE {})
  /\ state' = [state EXCEPT ![r] = "idle"]
  /\ UNCHANGED <<closed, read_waker, sent>>

\* poll_read at the end of a closed pipe: Ok(0).
ReadEof(r) ==
  /\ len = 0
  /\ closed
  /\ reader_blocked' = FALSE
  /\ state' = [state EXCEPT ![r] = "idle"]
  /\ woken' = woken \ {r}
  /\ UNCHANGED <<ring, closed, writer_blocked, was_full, wakers, sent>>

\* poll_read of an empty, open pipe: Pending; the one waker slot is taken.
ReadBlock(r) ==
  /\ len = 0
  /\ ~closed
  /\ reader_blocked' = TRUE
  /\ read_waker' = r
  /\ state' = [state EXCEPT ![r] = "blocked"]
  /\ woken' = woken \ {r}
  /\ UNCHANGED <<ring, closed, writer_blocked, was_full, write_waker, sent>>

\* drain, by the holder of the pipe once a command is over.
Drain ==
  /\ len > 0
  /\ read_into(len)
  /\ writer_blocked' = FALSE
  /\ write_waker' = IF writer_blocked THEN NoWaker ELSE write_waker
  /\ woken' = woken \cup (IF writer_blocked THEN {write_waker} \ {NoWaker} ELSE {})
  /\ UNCHANGED <<closed, was_full, reader_blocked, read_waker, state, sent>>

-----------------------------------------------------------------------------
(* Writing.                                                                *)

WakeReader(polled) ==
  /\ read_waker' = NoWaker
  /\ woken' = (woken \ polled) \cup ({read_waker} \ {NoWaker})

\* poll_write with room: as much as fits.
WriteSome(w, n) ==
  LET k == Smaller(n, Capacity - len) IN
  /\ ~closed
  /\ ~is_full(len)
  /\ sent + k <= MaxBytes
  /\ write_from(k)
  /\ writer_blocked' = FALSE
  /\ was_full' = (was_full \/ is_full(len + k))
  /\ reader_blocked' = FALSE
  /\ WakeReader({w})
  /\ state' = [state EXCEPT ![w] = "idle"]
  /\ UNCHANGED <<closed, write_waker>>

\* poll_write after close: BrokenPipe.
WriteBroken(w) ==
  /\ closed
  /\ state' = [state EXCEPT ![w] = "idle"]
  /\ woken' = woken \ {w}
  /\ UNCHANGED <<ring, flags, wakers, sent>>

\* Mutant: the pipe is not told that its writer is blocked.
WriteBlock_no_flag(w) ==
  /\ ~closed
  /\ is_full(len)
  /\ was_full' = TRUE
  /\ write_waker' = w
  /\ state' = [state EXCEPT ![w] = "blocked"]
  /\ woken' = woken \ {w}
  /\ UNCHANGED <<ring, closed, writer_blocked, reader_blocked, read_waker, sent>>

\* poll_write of a full pipe: Pending.
WriteBlock(w) ==
  /\ ~closed
  /\ is_full(len)
  /\ writer_blocked' = TRUE
  /\ was_full' = TRUE
  /\ write_waker' = w
  /\ state' = [state EXCEPT ![w] = "blocked"]
  /\ woken' = woken \ {w}
  /\ UNCHANGED <<ring, closed, reader_blocked, read_waker, sent>>

\* push, the synchronous write of the host side: it looks neither at `closed`
\* nor at the writers' flags.
Push(n) ==
  LET k == Smaller(n, Capacity - len) IN
  /\ k > 0
  /\ sent + k <= MaxBytes
  /\ write_from(k)
  /\ reader_blocked' = FALSE
  /\ WakeReader({})
  /\ UNCHANGED <<closed, writer_blocked, was_full, write_waker, state>>

\* Mutant: closes without waking.
Close_silently ==
  /\ closed' = TRUE
  /\ reader_blocked' = FALSE
  /\ UNCHANGED <<ring, writer_blocked, was_full, wakers, woken, state, sent>>

\* close wakes the reader, and no writer.
Close ==
  /\ closed' = TRUE
  /\ reader_blocked' = FALSE
  /\ WakeReader({})
  /\ UNCHANGED <<ring, writer_blocked, was_full, write_waker, state, sent>>

-----------------------------------------------------------------------------
(* A future that is dropped while it is pending.                           *)

\* Drop for PipeRead and PipeWrite.
DropRead(r) ==
  /\ state[r] = "blocked"
  /\ read_waker' = NoWaker
  /\ state' = [state EXCEPT ![r] = "idle"]
  /\ UNCHANGED <<ring, flags, write_waker, woken, sent>>

DropWrite(w) ==
  /\ state[w] = "blocked"
  /\ write_waker' = NoWaker
  /\ writer_blocked' = FALSE
  /\ state' = [state EXCEPT ![w] = "idle"]
  /\ UNCHANGED <<ring, closed, was_full, reader_blocked, read_waker, woken, sent>>

\* The stream adapters (stream.rs) poll the pipe directly: nothing is undone.
Abandon(c) ==
  /\ state[c] = "blocked"
  /\ state' = [state EXCEPT ![c] = "idle"]
  /\ UNCHANGED <<ring, flags, wakers, woken, sent>>

-----------------------------------------------------------------------------
PollRead(r) == ReadEof(r) \/ ReadBlock(r) \/ \E n \in 1 .. MaxChunk : ReadSome(r, n)
PollWrite(w) == WriteBroken(w) \/ WriteBlock(w) \/ \E n \in 1 .. MaxChunk : WriteSome(w, n)

Next ==
  \/ \E r \in Readers : PollRead(r) \/ DropRead(r) \/ Abandon(r)
  \/ \E w \in Writers : PollWrite(w) \/ DropWrite(w) \/ Abandon(w)
  \/ Drain \/ Close \/ \E n \in 1 .. MaxChunk : Push(n)

Spec == Init /\ [][Next]_vars

\* A woken task is polled; a reader that is not waiting goes on reading.
Fairness ==
  /\ \A w \in Writers : SF_vars(w \in woken /\ PollWrite(w))
  /\ \A r \in Readers : /\ SF_vars(r \in woken /\ PollRead(r))
                        /\ SF_vars(\E n \in 1 .. MaxChunk : ReadSome(r, n))

FairSpec == Spec /\ Fairness

-----------------------------------------------------------------------------
(* Properties.                                                             *)

\* The ring seen as a queue: the bytes from head on.
Contents == [i \in 1 .. len |-> buffer[Wrap(head + i - 1)]]

\* Refinement: wrap-around, partial reads and writes, push, drain and dropped
\* futures neither lose, repeat nor reorder a byte.
Stream == INSTANCE ByteStream WITH queue <- Contents, written <- sent, end <- closed
ImplementsByteStream == Stream!Spec

\* The redundant positions of the ring agree.
RingConsistent == tail = Wrap(head + len)

\* With one writer: it sleeps only on a full pipe that holds its waker and the
\* flag by which the next read or drain will wake it.
WriterNotForgotten ==
  \A w \in Writers :
    state[w] = "blocked" /\ w \notin woken
      => is_full(len) /\ write_waker = w /\ writer_blocked /\ was_full

\* With one reader: it sleeps only on an empty, open pipe that holds its waker;
\* and is_reader_blocked is true only of such a pipe, whichever of write, push,
\* close and read touched it last.
ReaderNotForgotten ==
  /\ \A r \in Readers :
       state[r] = "blocked" /\ r \notin woken
         => len = 0 /\ ~closed /\ read_waker = r /\ reader_blocked
  /\ reader_blocked => len = 0 /\ ~closed

\* A blocked writer goes on when somebody reads: the was_full rule.  (Up to
\* the bound on the bytes of a behaviour.)
BlockedWriterResumes ==
  \A w \in Writers : state[w] = "blocked" ~> (state[w] = "idle" \/ sent = MaxBytes)
=============================================================================
