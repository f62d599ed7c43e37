----------------------------- MODULE AuditBuffer -----------------------------
(***************************************************************************)
(* The ring of bytes through which audit entries reach the host            *)
(* (AuditBuffer of crates/amla-sandbox-audit/src/lib.rs, drained and       *)
(* configured by audit_drain and audit_configure of the sandbox's          *)
(* wasm.rs).  An entry is the number of bytes it makes, its newline        *)
(* included, and a byte tells its entry and its place in it, so that what  *)
(* comes out can be compared with what went in.                            *)
(***************************************************************************)
EXTENDS Integers, Sequences

CONSTANTS
  Capacity,   \* length of the ring
  Levels,     \* the log levels, as numbers
  MaxEntries  \* bound: entries appended

ASSUME RingHoldsEntries == Capacity \in Nat /\ Capacity >= 4
ASSUME LevelsAreNumbers == Levels \subseteq Nat /\ 1 \in Levels

VARIABLES
  buffer,     \* place -> byte
  write_pos,
  read_pos,
  seq,        \* entries appended so far
  level,      \* entries below it are not recorded
  tail,       \* history: the unfinished line that the host holds
  last,       \* history: the last entry of which it holds the newline
  garbled,    \* history: it got a line that is no entry, or out of order
  cut         \* history: an unfinished line's rest was overwritten

auditVars == <<buffer, write_pos, read_pos, seq, level, tail, last, garbled, cut>>

Places == 0 .. Capacity - 1
Zero == <<0, 0, 1>>
Line(e, n) == [i \in 1 .. n |-> <<e, i, n>>]
IsNewline(b) == b[2] = b[3]

AuditTypeOK ==
  /\ \A p \in Places : buffer[p] = Zero \/ buffer[p][1] \in 1 .. seq
  /\ write_pos \in Places
  /\ read_pos \in Places
  /\ level \in Levels
  /\ last \in 0 .. seq

\* Info is level 1.
AuditInit ==
  /\ buffer = [p \in Places |-> Zero]
  /\ write_pos = 0
  /\ read_pos = 0
  /\ seq = 0
  /\ level = 1
  /\ tail = <<>>
  /\ last = 0
  /\ garbled = FALSE
  /\ cut = FALSE

-----------------------------------------------------------------------------
available ==
  IF write_pos >= read_pos THEN write_pos - read_pos ELSE Capacity - read_pos + write_pos

\* The bytes that drain would give, in its two chunks.
Readable == [i \in 1 .. available |-> buffer[(read_pos + i - 1) % Capacity]]

Written(ring, start, data) ==
  [p \in Places |-> LET i == (p - start + Capacity) % Capacity IN
                    IF i < Len(data) THEN data[i + 1] ELSE ring[p]]

\* Mutant: catching up exactly with the reader is no overwriting.
would_overwrite_past(old_write, new_write, read) ==
  IF old_write <= new_write THEN read > old_write /\ read < new_write
  ELSE read > old_write \/ read < new_write
would_overwrite(old_write, new_write, read) ==
  IF old_write <= new_write THEN read > old_write /\ read <= new_write
  ELSE read > old_write \/ read <= new_write

\* Mutant: the reader stays at the newline.
find_next_entry_at(ring, start) ==
  LET steps == {i \in Places : IsNewline(ring[(start + i) % Capacity])}
      first == CHOOSE i \in steps : \A j \in steps : i <= j IN
  IF steps = {} THEN write_pos ELSE (start + first) % Capacity
find_next_entry(ring, start) ==
  LET steps == {i \in Places : IsNewline(ring[(start + i) % Capacity])}
      first == CHOOSE i \in steps : \A j \in steps : i <= j IN
  IF steps = {} THEN write_pos ELSE (start + first + 1) % Capacity

\* write_bytes.
write_bytes(data) ==
  LET new_write_pos == (write_pos + Len(data)) % Capacity
      ring == Written(buffer, write_pos, data)
      overwrites == would_overwrite(write_pos, new_write_pos, read_pos) IN
  /\ buffer' = ring
  /\ read_pos' = IF overwrites THEN find_next_entry(ring, new_write_pos) ELSE read_pos
  /\ write_pos' = new_write_pos
  /\ cut' = (cut \/ (overwrites /\ tail # <<>>))

\* An entry that is not filtered and no longer than a quarter of the ring;
\* append of any other changes nothing.
Fits(n) == n <= Capacity \div 4
append(l, n) ==
  /\ seq < MaxEntries
  /\ l >= level /\ Fits(n)
  /\ write_bytes(Line(seq + 1, n))
  /\ seq' = seq + 1
  /\ UNCHANGED <<level, tail, last, garbled>>

\* What the host makes of the bytes: lines, each of which should be an entry
\* later than the one before, and the beginning of one.
EndsOf(s) == {i \in 1 .. Len(s) : IsNewline(s[i])}
LineEnding(s, i) ==
  LET before == {j \in EndsOf(s) : j < i} IN
  SubSeq(s, 1 + (IF before = {} THEN 0 ELSE CHOOSE j \in before : \A k \in before : k <= j), i)
IsEntry(line) == line = Line(line[1][1], Len(line))
InOrder(s) == \A i, j \in EndsOf(s) : i < j => s[i][1] < s[j][1]

\* drain into a buffer of n bytes: two chunks where the ring wraps.
\* Mutant: what lies beyond the wrap is not read, but counted as drained.
Drained_first_chunk(n) ==
  SubSeq(Readable, 1, IF n <= Capacity - read_pos THEN n ELSE Capacity - read_pos)
Drained(n) == SubSeq(Readable, 1, n)

drain(n) ==
  LET got == Drained(n)
      text == tail \o got
      ends == EndsOf(text)
      end == IF ends = {} THEN 0 ELSE CHOOSE i \in ends : \A j \in ends : j <= i IN
  /\ n <= available
  /\ read_pos' = (read_pos + n) % Capacity
  /\ garbled' = \/ garbled
                \/ \E i \in ends : ~IsEntry(LineEnding(text, i)) \/ text[i][1] <= last
                \/ ~InOrder(text)
  /\ tail' = IF garbled' THEN <<>> ELSE SubSeq(text, end + 1, Len(text))
  /\ last' = IF end = 0 THEN last ELSE text[end][1]
  /\ UNCHANGED <<buffer, write_pos, seq, level, cut>>

\* clear: the host's unfinished line is never finished.
clear ==
  /\ read_pos' = 0
  /\ write_pos' = 0
  /\ cut' = (cut \/ tail # <<>>)
  /\ UNCHANGED <<buffer, seq, level, tail, last, garbled>>

audit_configure(l) ==
  /\ level' = l
  /\ UNCHANGED <<buffer, write_pos, read_pos, seq, tail, last, garbled, cut>>

AuditNext ==
  \/ \E l \in Levels, n \in 1 .. Capacity \div 4 + 1 : append(l, n)
  \/ \E n \in 1 .. Capacity - 1 : drain(n)
  \/ clear
  \/ \E l \in Levels : audit_configure(l)

AuditSpec == AuditInit /\ [][AuditNext]_auditVars

-----------------------------------------------------------------------------
(* Properties.                                                             *)

\* A ring of bytes with two positions does what a queue of lines does that
\* loses its oldest, whatever the lengths, the wraps and the sizes drained.
Log == INSTANCE LossyLog WITH queue <- Readable, count <- seq
ImplementsLossyLog == Log!Spec

\* The host gets whole entries in order, and the line it holds unfinished is
\* shorter than the longest entry, unless the rest of such a line was
\* overwritten (or cleared).
LinesAreWhole == ~cut => ~garbled /\ Len(tail) < Capacity \div 4

\* "Returns the number of bytes written (JSONL format, newline-separated
\* entries)" (audit_drain): every line the host gets is an entry.
DrainedLinesAreEntries == ~garbled
=============================================================================
