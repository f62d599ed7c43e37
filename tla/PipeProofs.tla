----------------------------- MODULE PipeProofs -----------------------------
(***************************************************************************)
(* What holds of Pipe for every capacity and chunk size: its types, the    *)
(* agreement of its positions, that it implements the abstract stream, and *)
(* - with one reader and one writer - that no blocked task is forgotten.   *)
(* And of the pipeline of two commands over it: the end of file that the   *)
(* consumer of a foreground pipeline reads is the end of the output.       *)
(***************************************************************************)
EXTENDS Pipeline, TLAPS

-----------------------------------------------------------------------------
(* Types.                                                                  *)

\* Positions up to twice the capacity wrap into the ring.
LEMMA WrapType == \A i \in 0 .. 2 * Capacity - 1 : Wrap(i) \in Cells
BY PipeAssumption DEF Wrap, Cells

\* The smaller of two sizes is one of them.
LEMMA SmallerType ==
  \A a, b \in Nat : Smaller(a, b) \in 0 .. b /\ (a > 0 /\ b > 0 => Smaller(a, b) > 0)
BY DEF Smaller

\* A read of at most len bytes keeps the ring's types.
LEMMA ReadIntoType ==
  ASSUME TypeOK, NEW n \in 0 .. len, read_into(n)
  PROVE  /\ buffer' \in [Cells -> 0 .. MaxBytes]
         /\ head' \in Cells /\ tail' \in Cells /\ len' \in 0 .. Capacity
BY PipeAssumption, WrapType DEF TypeOK, read_into, Cells

\* So does a write of at most the room there is, within the bound on bytes.
LEMMA WriteFromType ==
  ASSUME TypeOK, NEW n \in 0 .. Capacity - len, sent + n <= MaxBytes, write_from(n)
  PROVE  /\ buffer' \in [Cells -> 0 .. MaxBytes]
         /\ head' \in Cells /\ tail' \in Cells /\ len' \in 0 .. Capacity
         /\ sent' \in 0 .. MaxBytes
<1> DEFINE fresh(i) == sent + 1 + (IF i >= tail THEN i - tail ELSE i + Capacity - tail)
<1>1. ASSUME NEW i \in Cells, \E k \in 0 .. n - 1 : Wrap(tail + k) = i
      PROVE  fresh(i) \in 0 .. MaxBytes
  <2>1. PICK k \in 0 .. n - 1 : Wrap(tail + k) = i
    BY <1>1
  <2>2. fresh(i) = sent + 1 + k
    BY <2>1, PipeAssumption DEF Wrap, Cells, TypeOK
  <2> QED
    BY <2>2, PipeAssumption DEF TypeOK
<1>2. buffer' \in [Cells -> 0 .. MaxBytes]
  BY <1>1 DEF TypeOK, write_from
<1>3. head' \in Cells /\ tail' \in Cells /\ len' \in 0 .. Capacity
  BY PipeAssumption, WrapType DEF TypeOK, write_from, Cells
<1>4. sent' \in 0 .. MaxBytes
  BY PipeAssumption DEF TypeOK, write_from
<1> QED
  BY <1>2, <1>3, <1>4

LEMMA InitType == Init => TypeOK
<1> SUFFICES ASSUME Init PROVE TypeOK
  OBVIOUS
<1>1. buffer \in [Cells -> 0 .. MaxBytes] /\ sent \in 0 .. MaxBytes
  BY PipeAssumption DEF Init
<1>2. head \in Cells /\ tail \in Cells /\ len \in 0 .. Capacity
  BY PipeAssumption DEF Init, Cells
<1> QED
  BY <1>1, <1>2 DEF Init, TypeOK

\* Every call keeps the types.
LEMMA NextType == TypeOK /\ [Next]_vars => TypeOK'
<1> SUFFICES ASSUME TypeOK, [Next]_vars PROVE TypeOK'
  OBVIOUS
<1> USE DEF Clients
<1>1. ASSUME NEW r \in Readers, NEW n \in 1 .. MaxChunk, ReadSome(r, n)
      PROVE  TypeOK'
  <2>1. Smaller(n, len) \in 0 .. len
    <3>1. n \in Nat /\ len \in Nat
      BY PipeAssumption DEF TypeOK
    <3> QED
      BY <3>1, SmallerType
  <2>2. read_into(Smaller(n, len))
    BY <1>1 DEF ReadSome
  <2>3. /\ buffer' \in [Cells -> 0 .. MaxBytes]
        /\ head' \in Cells /\ tail' \in Cells /\ len' \in 0 .. Capacity
    BY <2>1, <2>2, ReadIntoType
  <2> QED
    BY <2>3, <1>1 DEF ReadSome, TypeOK
<1>2. ASSUME NEW r \in Readers, ReadEof(r) PROVE TypeOK'
  BY <1>2 DEF ReadEof, TypeOK, ring, wakers
<1>3. ASSUME NEW r \in Readers, ReadBlock(r) PROVE TypeOK'
  BY <1>3 DEF ReadBlock, TypeOK, ring
<1>4. CASE Drain
  <2>1. read_into(len) /\ len \in 0 .. len
    BY <1>4 DEF Drain, TypeOK
  <2>2. /\ buffer' \in [Cells -> 0 .. MaxBytes]
        /\ head' \in Cells /\ tail' \in Cells /\ len' \in 0 .. Capacity
    BY <2>1, ReadIntoType
  <2> QED
    BY <2>2, <1>4 DEF Drain, TypeOK
<1>5. ASSUME NEW w \in Writers, NEW n \in 1 .. MaxChunk, WriteSome(w, n)
      PROVE  TypeOK'
  <2>1. Smaller(n, Capacity - len) \in 0 .. Capacity - len
    <3>1. n \in Nat /\ Capacity - len \in Nat
      BY PipeAssumption DEF TypeOK
    <3> QED
      BY <3>1, SmallerType
  <2>2. write_from(Smaller(n, Capacity - len)) /\ sent + Smaller(n, Capacity - len) <= MaxBytes
    BY <1>5 DEF WriteSome
  <2>3. /\ buffer' \in [Cells -> 0 .. MaxBytes]
        /\ head' \in Cells /\ tail' \in Cells /\ len' \in 0 .. Capacity
        /\ sent' \in 0 .. MaxBytes
    BY <2>1, <2>2, WriteFromType
  <2>4. was_full' \in BOOLEAN
    BY <1>5 DEF WriteSome, TypeOK, is_full
  <2> QED
    BY <2>3, <2>4, <1>5 DEF WriteSome, WakeReader, TypeOK
<1>6. ASSUME NEW w \in Writers, WriteBroken(w) PROVE TypeOK'
  BY <1>6 DEF WriteBroken, TypeOK, ring, flags, wakers
<1>7. ASSUME NEW w \in Writers, WriteBlock(w) PROVE TypeOK'
  BY <1>7 DEF WriteBlock, TypeOK, ring
<1>8. ASSUME NEW n \in 1 .. MaxChunk, Push(n) PROVE TypeOK'
  <2>1. Smaller(n, Capacity - len) \in 0 .. Capacity - len
    <3>1. n \in Nat /\ Capacity - len \in Nat
      BY PipeAssumption DEF TypeOK
    <3> QED
      BY <3>1, SmallerType
  <2>2. write_from(Smaller(n, Capacity - len)) /\ sent + Smaller(n, Capacity - len) <= MaxBytes
    BY <1>8 DEF Push
  <2>3. /\ buffer' \in [Cells -> 0 .. MaxBytes]
        /\ head' \in Cells /\ tail' \in Cells /\ len' \in 0 .. Capacity
        /\ sent' \in 0 .. MaxBytes
    BY <2>1, <2>2, WriteFromType
  <2> QED
    BY <2>3, <1>8 DEF Push, WakeReader, TypeOK
<1>9. CASE Close
  BY <1>9 DEF Close, WakeReader, TypeOK, ring
<1>10. ASSUME NEW r \in Readers, DropRead(r) PROVE TypeOK'
  BY <1>10 DEF DropRead, TypeOK, ring, flags
<1>11. ASSUME NEW w \in Writers, DropWrite(w) PROVE TypeOK'
  BY <1>11 DEF DropWrite, TypeOK, ring
<1>12. ASSUME NEW c \in Clients, Abandon(c) PROVE TypeOK'
  BY <1>12 DEF Abandon, TypeOK, ring, flags, wakers
<1>13. CASE UNCHANGED vars
  BY <1>13 DEF vars, TypeOK, ring, flags, wakers
<1> QED
  BY <1>1, <1>2, <1>3, <1>4, <1>5, <1>6, <1>7, <1>8, <1>9, <1>10, <1>11,
     <1>12, <1>13 DEF Next, PollRead, PollWrite

\* The ring's positions stay in the buffer and its length within the capacity,
\* whatever the sizes of the calls; the waker slots hold tasks of their side.
THEOREM TypeSafe == Spec => []TypeOK
BY InitType, NextType, PTL DEF Spec

-----------------------------------------------------------------------------
(* The wake-up protocol, with one reader and one writer.                   *)

OneReader == \A a, b \in Readers : a = b
OneWriter == \A a, b \in Writers : a = b

\* The flag writer_blocked alone does not wake a writer above the low
\* watermark; what makes every read wake it is that a writer blocks only on
\* a full pipe, and was_full is reset by no step that leaves it blocked.
BlockedOnFull == writer_blocked => was_full

WriterInv == TypeOK /\ BlockedOnFull /\ WriterNotForgotten

\* A call on a full pipe moves no byte in.
LEMMA FullTakesNothing == \A n \in Nat : Smaller(n, 0) = 0
BY DEF Smaller

LEMMA NextWriter ==
  ASSUME OneWriter, WriterInv, [Next]_vars
  PROVE  WriterInv'
<1> USE PipeAssumption
<1>t. TypeOK'
  BY NextType DEF WriterInv
<1>0. TypeOK /\ BlockedOnFull /\ WriterNotForgotten
  BY DEF WriterInv
<1> SUFFICES BlockedOnFull' /\ WriterNotForgotten'
  BY <1>t DEF WriterInv
<1> USE DEF BlockedOnFull, WriterNotForgotten, Clients
<1>1. ASSUME NEW r \in Readers, NEW n \in 1 .. MaxChunk, ReadSome(r, n)
      PROVE  BlockedOnFull' /\ WriterNotForgotten'
  <2>1. should_wake_writer(len - Smaller(n, len)) <=> writer_blocked
    BY <1>0 DEF should_wake_writer, TypeOK
  <2>2. ~writer_blocked'
    BY <2>1, <1>1, <1>0 DEF ReadSome, TypeOK
  <2>3. ASSUME NEW w \in Writers, state'[w] = "blocked", w \notin woken'
        PROVE  FALSE
    <3>1. w # r /\ state[w] = "blocked" /\ w \notin woken
      BY <2>3, <1>1, <1>0 DEF ReadSome, TypeOK
    <3>2. writer_blocked /\ write_waker = w
      BY <3>1, <1>0
    <3>3. w \in woken'
      BY <3>2, <2>1, <1>1 DEF ReadSome
    <3> QED
      BY <3>3, <2>3
  <2> QED
    BY <2>2, <2>3
<1>2. ASSUME NEW r \in Readers, ReadEof(r) PROVE BlockedOnFull' /\ WriterNotForgotten'
  BY <1>2, <1>0 DEF ReadEof, TypeOK, ring, wakers
<1>3. ASSUME NEW r \in Readers, ReadBlock(r) PROVE BlockedOnFull' /\ WriterNotForgotten'
  BY <1>3, <1>0 DEF ReadBlock, TypeOK, ring
<1>4. CASE Drain
  <2>1. ~writer_blocked'
    BY <1>4 DEF Drain
  <2>2. ASSUME NEW w \in Writers, state'[w] = "blocked", w \notin woken'
        PROVE  FALSE
    <3>1. state[w] = "blocked" /\ w \notin woken
      BY <2>2, <1>4 DEF Drain
    <3>2. writer_blocked /\ write_waker = w
      BY <3>1, <1>0
    <3>3. w \in woken'
      BY <3>2, <1>4 DEF Drain
    <3> QED
      BY <3>3, <2>2
  <2> QED
    BY <2>1, <2>2
<1>5. ASSUME NEW w \in Writers, NEW n \in 1 .. MaxChunk, WriteSome(w, n)
      PROVE  BlockedOnFull' /\ WriterNotForgotten'
  <2>1. \A v \in Writers : state'[v] = "idle"
    BY <1>5, <1>0 DEF WriteSome, OneWriter, TypeOK
  <2> QED
    BY <2>1, <1>5 DEF WriteSome
<1>6. ASSUME NEW w \in Writers, WriteBroken(w) PROVE BlockedOnFull' /\ WriterNotForgotten'
  BY <1>6, <1>0 DEF WriteBroken, TypeOK, flags, OneWriter
<1>7. ASSUME NEW w \in Writers, WriteBlock(w) PROVE BlockedOnFull' /\ WriterNotForgotten'
  BY <1>7, <1>0 DEF WriteBlock, TypeOK, ring, OneWriter
<1>8. ASSUME NEW n \in 1 .. MaxChunk, Push(n) PROVE BlockedOnFull' /\ WriterNotForgotten'
  <2>1. ~is_full(len)
    BY <1>8, <1>0, FullTakesNothing DEF Push, is_full, TypeOK
  <2> QED
    BY <2>1, <1>8, <1>0 DEF Push, WakeReader
<1>9. CASE Close
  BY <1>9, <1>0 DEF Close, WakeReader, ring
<1>10. ASSUME NEW r \in Readers, DropRead(r) PROVE BlockedOnFull' /\ WriterNotForgotten'
  BY <1>10, <1>0 DEF DropRead, TypeOK, ring, flags
<1>11. ASSUME NEW w \in Writers, DropWrite(w) PROVE BlockedOnFull' /\ WriterNotForgotten'
  BY <1>11, <1>0 DEF DropWrite, TypeOK, OneWriter
<1>12. ASSUME NEW c \in Clients, Abandon(c) PROVE BlockedOnFull' /\ WriterNotForgotten'
  BY <1>12, <1>0 DEF Abandon, TypeOK, ring, flags, wakers
<1>13. CASE UNCHANGED vars
  BY <1>13, <1>0 DEF vars, ring, flags, wakers
<1> QED
  BY <1>1, <1>2, <1>3, <1>4, <1>5, <1>6, <1>7, <1>8, <1>9, <1>10, <1>11,
     <1>12, <1>13 DEF Next, PollRead, PollWrite

\* A writer waits only while the pipe is full and only with its waker in the
\* slot and flagged, so that the next read or drain wakes it.
THEOREM WriterSafe ==
  ASSUME OneWriter
  PROVE  Spec => []WriterNotForgotten
<1>1. Init => WriterInv
  BY InitType DEF Init, WriterInv, BlockedOnFull, WriterNotForgotten, Clients
<1>2. WriterInv /\ [Next]_vars => WriterInv'
  BY NextWriter
<1>3. WriterInv => WriterNotForgotten
  BY DEF WriterInv
<1> QED
  BY <1>1, <1>2, <1>3, PTL DEF Spec

ReaderInv == TypeOK /\ ReaderNotForgotten

LEMMA NextReader ==
  ASSUME OneReader, ReaderInv, [Next]_vars
  PROVE  ReaderInv'
<1> USE PipeAssumption
<1>t. TypeOK'
  BY NextType DEF ReaderInv
<1>0. TypeOK /\ ReaderNotForgotten
  BY DEF ReaderInv
<1> SUFFICES ReaderNotForgotten'
  BY <1>t DEF ReaderInv
<1> USE DEF ReaderNotForgotten, Clients
<1>1. ASSUME NEW r \in Readers, NEW n \in 1 .. MaxChunk, ReadSome(r, n)
      PROVE  ReaderNotForgotten'
  BY <1>1, <1>0 DEF ReadSome, TypeOK, OneReader
<1>2. ASSUME NEW r \in Readers, ReadEof(r) PROVE ReaderNotForgotten'
  BY <1>2, <1>0 DEF ReadEof, TypeOK, OneReader
<1>3. ASSUME NEW r \in Readers, ReadBlock(r) PROVE ReaderNotForgotten'
  BY <1>3, <1>0 DEF ReadBlock, TypeOK, OneReader, ring
<1>4. CASE Drain
  BY <1>4, <1>0 DEF Drain, TypeOK
<1>5. ASSUME NEW w \in Writers, NEW n \in 1 .. MaxChunk, WriteSome(w, n)
      PROVE  ReaderNotForgotten'
  BY <1>5, <1>0 DEF WriteSome, WakeReader, TypeOK
<1>6. ASSUME NEW w \in Writers, WriteBroken(w) PROVE ReaderNotForgotten'
  BY <1>6, <1>0 DEF WriteBroken, TypeOK, ring, flags, wakers
<1>7. ASSUME NEW w \in Writers, WriteBlock(w) PROVE ReaderNotForgotten'
  BY <1>7, <1>0 DEF WriteBlock, TypeOK, ring
<1>8. ASSUME NEW n \in 1 .. MaxChunk, Push(n) PROVE ReaderNotForgotten'
  BY <1>8, <1>0 DEF Push, WakeReader, TypeOK
<1>9. CASE Close
  BY <1>9, <1>0 DEF Close, WakeReader, TypeOK
<1>10. ASSUME NEW r \in Readers, DropRead(r) PROVE ReaderNotForgotten'
  BY <1>10, <1>0 DEF DropRead, TypeOK, OneReader, ring, flags
<1>11. ASSUME NEW w \in Writers, DropWrite(w) PROVE ReaderNotForgotten'
  BY <1>11, <1>0 DEF DropWrite, TypeOK, ring
<1>12. ASSUME NEW c \in Clients, Abandon(c) PROVE ReaderNotForgotten'
  BY <1>12, <1>0 DEF Abandon, TypeOK, ring, flags, wakers
<1>13. CASE UNCHANGED vars
  BY <1>13, <1>0 DEF vars, ring, flags, wakers
<1> QED
  BY <1>1, <1>2, <1>3, <1>4, <1>5, <1>6, <1>7, <1>8, <1>9, <1>10, <1>11,
     <1>12, <1>13 DEF Next, PollRead, PollWrite

\* A reader waits only on an empty, open pipe that holds its waker.
THEOREM ReaderSafe ==
  ASSUME OneReader
  PROVE  Spec => []ReaderNotForgotten
<1>1. Init => ReaderInv
  BY InitType DEF Init, ReaderInv, ReaderNotForgotten, Clients
<1>2. ReaderInv /\ [Next]_vars => ReaderInv'
  BY NextReader
<1>3. ReaderInv => ReaderNotForgotten
  BY DEF ReaderInv
<1> QED
  BY <1>1, <1>2, <1>3, PTL DEF Spec

-----------------------------------------------------------------------------
(* The pipe implements the abstract stream.                                *)

RingInv == TypeOK /\ RingConsistent

\* Going round in two steps is going round in one.
LEMMA WrapTwice ==
  \A i \in Cells, a \in 0 .. Capacity, b \in 0 .. Capacity :
    a + b <= Capacity => Wrap(Wrap(i + a) + b) = Wrap(i + a + b)
BY PipeAssumption DEF Wrap, Cells

\* A read takes bytes from the front of the contents.
LEMMA ReadContents ==
  ASSUME RingInv, NEW n \in 0 .. len, read_into(n)
  PROVE  /\ RingConsistent'
         /\ n <= Len(Contents)
         /\ Contents' = SubSeq(Contents, n + 1, Len(Contents))
<1> USE PipeAssumption
<1>0. TypeOK /\ RingConsistent
  BY DEF RingInv
<1>1. RingConsistent'
  <2>1. Wrap(Wrap(head + n) + (len - n)) = Wrap(head + len)
    BY <1>0 DEF TypeOK, Wrap, Cells
  <2> QED
    BY <2>1, <1>0 DEF RingConsistent, read_into
<1>2. Len(Contents) = len /\ DOMAIN Contents = 1 .. len
  BY <1>0 DEF Contents, TypeOK
<1>3. Contents' = [i \in 1 .. len - n |-> buffer[Wrap(head + n + i - 1)]]
  <2>1. \A i \in 1 .. len - n : Wrap(Wrap(head + n) + (i - 1)) = Wrap(head + n + (i - 1))
    BY <1>0, WrapTwice DEF TypeOK
  <2> QED
    BY <2>1, <1>0 DEF Contents, read_into, TypeOK
<1>4. SubSeq(Contents, n + 1, len) = [i \in 1 .. len - n |-> buffer[Wrap(head + n + i - 1)]]
  <2>1. SubSeq(Contents, n + 1, len) = [i \in 1 .. len - n |-> Contents[i + n]]
    BY <1>0 DEF TypeOK
  <2>2. \A i \in 1 .. len - n : Contents[i + n] = buffer[Wrap(head + n + i - 1)]
    BY <1>0 DEF Contents, TypeOK, Cells
  <2> QED
    BY <2>1, <2>2
<1>5. n <= len
  BY <1>0 DEF TypeOK
<1> QED
  BY <1>1, <1>2, <1>3, <1>4, <1>5

\* A write appends the next numbers to the contents.
LEMMA WriteContents ==
  ASSUME RingInv, NEW n \in 0 .. Capacity - len, write_from(n)
  PROVE  /\ RingConsistent'
         /\ Len(Contents) + n <= Capacity
         /\ Contents' = Contents \o [i \in 1 .. n |-> sent + i]
<1> USE PipeAssumption
<1>0. TypeOK /\ RingConsistent
  BY DEF RingInv
<1>1. RingConsistent'
  <2>1. Wrap(Wrap(head + len) + n) = Wrap(head + (len + n))
    BY <1>0 DEF TypeOK, Wrap, Cells
  <2> QED
    BY <2>1, <1>0 DEF RingConsistent, write_from
<1>2. Len(Contents) = len /\ DOMAIN Contents = 1 .. len
  BY <1>0 DEF Contents, TypeOK
<1> DEFINE at(i) == Wrap(head + i - 1)
<1>3. ASSUME NEW i \in 1 .. len PROVE buffer'[at(i)] = buffer[at(i)]
  <2>1. at(i) \in Cells
    BY <1>0 DEF Wrap, TypeOK, Cells
  <2>2. ASSUME NEW k \in 0 .. n - 1, Wrap(tail + k) = at(i) PROVE FALSE
    BY <2>2, <1>0 DEF Wrap, TypeOK, Cells, RingConsistent
  <2> QED
    BY <2>1, <2>2 DEF write_from
<1>4. ASSUME NEW i \in len + 1 .. len + n PROVE buffer'[at(i)] = sent + (i - len)
  <2>1. at(i) \in Cells
    BY <1>0 DEF Wrap, TypeOK, Cells
  <2>2. i - len - 1 \in 0 .. n - 1 /\ Wrap(tail + (i - len - 1)) = at(i)
    BY <1>0 DEF Wrap, TypeOK, Cells, RingConsistent
  <2>3. (IF at(i) >= tail THEN at(i) - tail ELSE at(i) + Capacity - tail) = i - len - 1
    BY <2>2, <1>0 DEF Wrap, TypeOK, Cells
  <2>4. buffer'[at(i)] = sent + 1 + (i - len - 1)
    BY <2>1, <2>2, <2>3 DEF write_from
  <2> QED
    BY <2>4, <1>0 DEF TypeOK
<1>5. Contents' = [i \in 1 .. len + n |-> IF i <= len THEN buffer[at(i)] ELSE sent + (i - len)]
  <2>1. len' = len + n /\ head' = head
    BY DEF write_from
  <2>2. \A i \in 1 .. len + n :
          buffer'[at(i)] = IF i <= len THEN buffer[at(i)] ELSE sent + (i - len)
    BY <1>3, <1>4, <1>0 DEF TypeOK
  <2>3. Contents' = [i \in 1 .. len + n |-> buffer'[at(i)]]
    BY <2>1 DEF Contents
  <2> HIDE DEF at
  <2> QED
    BY <2>2, <2>3
<1>6. Contents \o [i \in 1 .. n |-> sent + i]
        = [i \in 1 .. len + n |-> IF i <= len THEN buffer[at(i)] ELSE sent + (i - len)]
  BY <1>0, <1>2 DEF Contents, TypeOK
<1>7. Len(Contents) + n <= Capacity
  BY <1>2, <1>0 DEF TypeOK
<1> QED
  BY <1>1, <1>5, <1>6, <1>7

\* A call that leaves the ring and `closed` alone is a stutter of the stream.
LEMMA QuietCall ==
  ASSUME RingInv, UNCHANGED <<ring, closed, sent>>
  PROVE  RingConsistent' /\ UNCHANGED Stream!vars
BY DEF RingInv, RingConsistent, ring, Contents, Stream!vars

\* A read of some bytes is a Get of the stream, a write of some a Put.
LEMMA ReadIsGet ==
  ASSUME RingInv, NEW n \in 1 .. len, read_into(n), UNCHANGED <<closed, sent>>
  PROVE  RingConsistent' /\ Stream!Next
<1>1. RingConsistent' /\ Stream!Get(n)
  BY ReadContents DEF Stream!Get
<1>2. n \in 1 .. Capacity
  BY PipeAssumption DEF RingInv, TypeOK
<1> QED
  BY <1>1, <1>2 DEF Stream!Next

LEMMA WriteIsPut ==
  ASSUME RingInv, NEW n \in 1 .. Capacity - len, write_from(n), UNCHANGED closed
  PROVE  RingConsistent' /\ Stream!Next
<1>1. RingConsistent' /\ Stream!Put(n)
  BY WriteContents DEF Stream!Put, write_from
<1>2. n \in 1 .. Capacity
  BY PipeAssumption DEF RingInv, TypeOK
<1> QED
  BY <1>1, <1>2 DEF Stream!Next

LEMMA StepImplements ==
  ASSUME RingInv, [Next]_vars
  PROVE  RingConsistent' /\ [Stream!Next]_(Stream!vars)
<1> USE PipeAssumption DEF Clients
<1>0. TypeOK
  BY DEF RingInv
<1>1. ASSUME NEW r \in Readers, NEW n \in 1 .. MaxChunk, ReadSome(r, n)
      PROVE  RingConsistent' /\ Stream!Next
  <2>1. Smaller(n, len) \in 1 .. len
    BY <1>1, <1>0 DEF ReadSome, Smaller, TypeOK
  <2>2. read_into(Smaller(n, len)) /\ UNCHANGED <<closed, sent>>
    BY <1>1 DEF ReadSome
  <2> QED
    BY <2>1, <2>2, ReadIsGet
<1>2. CASE Drain
  <2>1. len \in 1 .. len /\ read_into(len) /\ UNCHANGED <<closed, sent>>
    BY <1>2, <1>0 DEF Drain, TypeOK
  <2> QED
    BY <2>1, ReadIsGet
<1>3. ASSUME NEW w \in Writers, NEW n \in 1 .. MaxChunk, WriteSome(w, n)
      PROVE  RingConsistent' /\ Stream!Next
  <2>1. Smaller(n, Capacity - len) \in 1 .. Capacity - len
    BY <1>3, <1>0 DEF WriteSome, Smaller, is_full, TypeOK
  <2>2. write_from(Smaller(n, Capacity - len)) /\ UNCHANGED closed
    BY <1>3 DEF WriteSome
  <2> QED
    BY <2>1, <2>2, WriteIsPut
<1>4. ASSUME NEW n \in 1 .. MaxChunk, Push(n)
      PROVE  RingConsistent' /\ Stream!Next
  <2>1. Smaller(n, Capacity - len) \in 1 .. Capacity - len
    BY <1>4, <1>0 DEF Push, Smaller, TypeOK
  <2>2. write_from(Smaller(n, Capacity - len)) /\ UNCHANGED closed
    BY <1>4 DEF Push
  <2> QED
    BY <2>1, <2>2, WriteIsPut
<1>5. CASE Close
  <2>1. Contents' = Contents /\ RingConsistent'
    BY <1>5 DEF Close, ring, Contents, RingInv, RingConsistent
  <2>2. Stream!Close
    BY <2>1, <1>5 DEF Close, Stream!Close
  <2> QED
    BY <2>1, <2>2 DEF Stream!Next
<1>6. ASSUME NEW r \in Readers,
             ReadEof(r) \/ ReadBlock(r) \/ DropRead(r) \/ Abandon(r)
      PROVE  UNCHANGED <<ring, closed, sent>>
  BY <1>6 DEF ReadEof, ReadBlock, DropRead, Abandon, ring, flags
<1>7. ASSUME NEW w \in Writers,
             WriteBroken(w) \/ WriteBlock(w) \/ DropWrite(w) \/ Abandon(w)
      PROVE  UNCHANGED <<ring, closed, sent>>
  BY <1>7 DEF WriteBroken, WriteBlock, DropWrite, Abandon, ring, flags
<1>8. CASE UNCHANGED vars
  <2>1. UNCHANGED <<ring, closed, sent>>
    BY <1>8 DEF vars, flags
  <2> QED
    BY <2>1, QuietCall
<1> QED
  BY <1>1, <1>2, <1>3, <1>4, <1>5, <1>6, <1>7, <1>8, QuietCall
     DEF Next, PollRead, PollWrite

LEMMA InitImplements == Init => RingConsistent /\ Stream!Init
BY PipeAssumption DEF Init, RingConsistent, Contents, Wrap, Stream!Init

\* The ring's redundant positions agree in every reachable state.
THEOREM RingSafe == Spec => []RingConsistent
<1>1. Init => RingInv
  BY InitType, InitImplements DEF RingInv
<1>2. RingInv /\ [Next]_vars => RingInv'
  BY NextType, StepImplements DEF RingInv
<1>3. RingInv => RingConsistent
  BY DEF RingInv
<1> QED
  BY <1>1, <1>2, <1>3, PTL DEF Spec

\* Whatever the capacity, the sizes of the calls and the order of reads,
\* writes, pushes, drains, closes and dropped futures: every byte accepted
\* comes out once, in the order of acceptance, and at most Capacity bytes
\* wait.
THEOREM PipeImplementsStream == Spec => ImplementsByteStream
<1>1. Init => RingInv /\ Stream!Init
  BY InitType, InitImplements DEF RingInv
<1>2. RingInv /\ [Next]_vars => RingInv' /\ [Stream!Next]_(Stream!vars)
  BY NextType, StepImplements DEF RingInv
<1> QED
  BY <1>1, <1>2, PTL DEF Spec, ImplementsByteStream, Stream!Spec
-----------------------------------------------------------------------------
(* The pipeline of two commands over the pipe (module Pipeline).           *)

\* Whatever a command or the shell does, the pipe takes one of its own steps
\* or none.
LEMMA PipelineCallsPipe == PipelineNext => [Next]_vars
<1> SUFFICES ASSUME PipelineNext PROVE [Next]_vars
  OBVIOUS
<1> USE PipelineAssumption
<1>1. ASSUME NEW n \in 1 .. MaxChunk, IoWrite(n) \/ IoRead(n) PROVE Next
  BY <1>1 DEF IoWrite, IoRead, Next, PollRead, PollWrite
<1>2. CASE IoWriteWaits \/ IoWriteFails
  BY <1>2 DEF IoWriteWaits, IoWriteFails, Next, PollWrite
<1>3. CASE IoReadWaits
  BY <1>3 DEF IoReadWaits, Next, PollRead
<1>4. CASE ConsumerExits
  BY <1>4 DEF ConsumerExits, Next, PollRead
<1>5. CASE ProducerExits \/ ShellReaps
  BY <1>5 DEF ProducerExits, ShellReaps, Next
<1> QED
  BY <1>1, <1>2, <1>3, <1>4, <1>5 DEF PipelineNext

\* Every byte accepted is in the ring or has been read; and a foreground pipe
\* is closed only after the command that writes to it is over.
PipelineInv ==
  /\ PipelineTypeOK
  /\ delivered + len = sent
  /\ closed /\ ~background => command[producer] # "running"

LEMMA SumKept == \A d, l, s \in Nat, k \in Int : d + l = s => d + (l + k) = s + k
OBVIOUS

LEMMA PartBounded == \A d, l, s, m \in Nat : d + l = s /\ s <= m => d \in 0 .. m
OBVIOUS

LEMMA TwoCommands == producer \in Clients /\ consumer \in Clients /\ producer # consumer
BY PipelineAssumption, PipeAssumption DEF Clients

LEMMA PipelineInitInv == PipelineInit => PipelineInv
<1> SUFFICES ASSUME PipelineInit PROVE PipelineInv
  OBVIOUS
<1> USE PipelineAssumption, PipeAssumption
<1>1. buffer \in [Cells -> 0 .. MaxBytes] /\ sent \in 0 .. MaxBytes
  BY DEF PipelineInit
<1>2. head \in Cells /\ tail \in Cells /\ len \in 0 .. Capacity
  BY DEF PipelineInit, Cells
<1>3. TypeOK
  BY <1>1, <1>2 DEF PipelineInit, TypeOK
<1>4. producer \in Clients /\ 0 \in 0 .. Total /\ 0 \in 0 .. MaxBytes
  BY DEF Clients
<1>5. PipelineTypeOK
  BY <1>3, <1>4 DEF PipelineInit, PipelineTypeOK
<1> QED
  BY <1>5 DEF PipelineInit, PipelineInv

LEMMA PipelineNextInv == PipelineInv /\ [PipelineNext]_allVars => PipelineInv'
<1> SUFFICES ASSUME PipelineInv, [PipelineNext]_allVars PROVE PipelineInv'
  OBVIOUS
<1> USE PipelineAssumption, PipeAssumption
<1>0. /\ TypeOK /\ TypeOK'
      /\ len \in Nat /\ sent \in Nat /\ delivered \in Nat /\ reported \in Nat
      /\ len' \in Nat /\ sent' \in Nat /\ sent' <= MaxBytes /\ MaxBytes \in Nat
      /\ producer \in Clients /\ consumer \in Clients /\ producer # consumer
  <2>1. TypeOK
    BY DEF PipelineInv, PipelineTypeOK
  <2>2. [Next]_vars
    BY PipelineCallsPipe DEF allVars
  <2>3. TypeOK'
    BY <2>1, <2>2, NextType
  <2>4. delivered \in Nat /\ reported \in Nat
    BY DEF PipelineInv, PipelineTypeOK
  <2>5. /\ len \in Nat /\ sent \in Nat /\ len' \in Nat
        /\ sent' \in Nat /\ sent' <= MaxBytes /\ MaxBytes \in Nat
    BY <2>1, <2>3 DEF TypeOK
  <2> QED
    BY <2>1, <2>3, <2>4, <2>5, TwoCommands
<1>a. /\ len \in Nat /\ sent \in Nat /\ delivered \in Nat
      /\ len' \in Nat /\ sent' \in Nat /\ sent' <= MaxBytes /\ MaxBytes \in Nat /\ MaxChunk \in Nat
  BY <1>0
<1>1. ASSUME NEW n \in 1 .. MaxChunk, IoWrite(n) PROVE PipelineInv'
  <2>1. reported' \in 0 .. Total
    BY <1>1, <1>0 DEF IoWrite, PipelineInv, PipelineTypeOK
  <2>2. PICK k \in Int : len' = len + k /\ sent' = sent + k
    <3>1. Smaller(n, Capacity - len) \in Int
      BY <1>0 DEF Smaller
    <3> QED
      BY <3>1, <1>1 DEF IoWrite, WriteSome, write_from
  <2>3. UNCHANGED <<closed, kind, command, delivered, awaiting>>
    BY <1>1 DEF IoWrite, WriteSome
  <2>4. delivered' + len' = sent'
    <3>1. delivered + len = sent /\ delivered' = delivered
      BY <2>3 DEF PipelineInv
    <3>2. delivered + (len + k) = sent + k
      BY <3>1, <1>a, SumKept
    <3> QED
      BY <3>1, <3>2, <2>2
  <2> QED
    BY <2>1, <2>2, <2>3, <2>4, <1>0 DEF PipelineInv, PipelineTypeOK, kind
<1>2. ASSUME NEW n \in 1 .. MaxChunk, IoRead(n) PROVE PipelineInv'
  <2>0. closed' = closed
    BY <1>2 DEF IoRead, ReadSome
  <2>1. delivered' + len' = sent' /\ delivered' \in Nat
    <3>1. Smaller(n, len) \in Nat
      BY <1>0 DEF Smaller
    <3> QED
      BY <3>1, <1>0, <1>2 DEF IoRead, ReadSome, read_into, PipelineInv
  <2>2. delivered' \in 0 .. MaxBytes
    BY <2>1, <1>a, PartBounded
  <2> QED
    BY <2>0, <2>1, <2>2, <1>0, <1>2 DEF IoRead, PipelineInv, PipelineTypeOK, kind
<1>3. CASE IoWriteWaits \/ IoReadWaits
  <2>1. UNCHANGED <<len, sent, closed, pipelineVars>>
    BY <1>3 DEF IoWriteWaits, IoReadWaits, WriteBlock, ReadBlock, ring
  <2> QED
    BY <2>1, <1>0 DEF PipelineInv, PipelineTypeOK, pipelineVars, kind
<1>4. CASE IoWriteFails
  <2>1. UNCHANGED <<len, sent, closed, kind, reported, delivered, awaiting>>
    BY <1>4 DEF IoWriteFails, WriteBroken, ring, flags
  <2>2. command' = [command EXCEPT ![producer] = "failed"]
    BY <1>4 DEF IoWriteFails
  <2> QED
    BY <2>1, <2>2, <1>0 DEF PipelineInv, PipelineTypeOK, kind
<1>5. CASE ProducerExits
  <2>1. UNCHANGED <<len, sent, closed, kind, reported, delivered, awaiting>>
    BY <1>5 DEF ProducerExits, vars, ring, flags
  <2>2. command' = [command EXCEPT ![producer] = "ok"]
    BY <1>5 DEF ProducerExits
  <2> QED
    BY <2>1, <2>2, <1>0 DEF PipelineInv, PipelineTypeOK, kind
<1>6. CASE ConsumerExits
  <2>1. UNCHANGED <<len, sent, closed, kind, reported, delivered, awaiting>>
    BY <1>6 DEF ConsumerExits, ReadEof, vars, ring, flags
  <2>2. command' = [command EXCEPT ![consumer] = "ok"]
    BY <1>6 DEF ConsumerExits
  <2> QED
    BY <2>1, <2>2, <1>0 DEF PipelineInv, PipelineTypeOK, kind
<1>7. CASE ShellReaps
  <2>1. UNCHANGED <<len, sent, kind, command, reported, delivered>>
    BY <1>7 DEF ShellReaps, Close, vars, ring
  <2>2. awaiting' \in Clients \cup {"done"}
    BY <1>7, <1>0 DEF ShellReaps
  <2>3. closed' = closed \/ command[producer] # "running"
    BY <1>7 DEF ShellReaps, vars, flags
  <2> QED
    BY <2>1, <2>2, <2>3, <1>0 DEF PipelineInv, PipelineTypeOK, kind
<1>8. CASE UNCHANGED allVars
  <2>1. UNCHANGED <<len, sent, closed, pipelineVars>>
    BY <1>8 DEF allVars, vars, ring, flags
  <2> QED
    BY <2>1, <1>0 DEF PipelineInv, PipelineTypeOK, pipelineVars, kind
<1> QED
  BY <1>1, <1>2, <1>3, <1>4, <1>5, <1>6, <1>7, <1>8 DEF PipelineNext

\* In the foreground the consumer reads end of file only when the producer is
\* over and every byte the pipe accepted was read, for all sizes of the pipe,
\* of the calls and of the output.
THEOREM EndOfFileIsTheEnd == PipelineSpec => EofIsEnd
<1> DEFINE Eof == (~background /\ command[consumer] = "running" /\ command'[consumer] = "ok" /\ delivered < limit)
<1> DEFINE Step == Eof => (command[producer] # "running" /\ delivered = sent)
<1>1. PipelineInv /\ [PipelineNext]_allVars => [Step]_allVars
  <2> SUFFICES ASSUME PipelineInv, PipelineNext, Eof
               PROVE  command[producer] # "running" /\ delivered = sent
    OBVIOUS
  <2>1. /\ producer # consumer /\ delivered \in Nat /\ sent \in Nat /\ limit \in Nat
        /\ command \in [Clients -> {"running", "ok", "failed"}]
    <3>1. delivered \in Nat /\ limit \in Limits /\ command \in [Clients -> {"running", "ok", "failed"}]
      BY PipeAssumption DEF PipelineInv, PipelineTypeOK
    <3>2. sent \in Nat
      BY PipeAssumption DEF PipelineInv, PipelineTypeOK, TypeOK
    <3> QED
      BY <3>1, <3>2, TwoCommands, PipelineAssumption
  <2>2. ConsumerExits
    <3>1. ASSUME NEW n \in 1 .. MaxChunk, IoWrite(n) \/ IoRead(n) PROVE command' = command
      BY <3>1 DEF IoWrite, IoRead
    <3>2. ASSUME IoWriteWaits \/ IoReadWaits \/ ShellReaps PROVE command' = command
      BY <3>2 DEF IoWriteWaits, IoReadWaits, ShellReaps, pipelineVars
    <3>3. ASSUME IoWriteFails \/ ProducerExits PROVE command'[consumer] = command[consumer]
      BY <3>3, <2>1, TwoCommands DEF IoWriteFails, ProducerExits
    <3> QED
      BY <3>1, <3>2, <3>3 DEF PipelineNext
  <2>3. ReadEof(consumer)
    BY <2>1, <2>2 DEF ConsumerExits
  <2>4. len = 0 /\ closed
    BY <2>3 DEF ReadEof
  <2> QED
    BY <2>1, <2>4 DEF PipelineInv
<1> QED
  BY <1>1, PipelineInitInv, PipelineNextInv, PTL DEF PipelineSpec, EofIsEnd
=============================================================================
