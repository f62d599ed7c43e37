------------------------------ MODULE Pipeline ------------------------------
(***************************************************************************)
(* A shell pipeline of two commands, producer | consumer                   *)
(* (Shell::execute_pipeline and the background branch of                   *)
(* spawn_background_command in crates/amla-sandbox-shell/src/lib.rs), over *)
(* the pipe of module Pipe and the write loop of IoHandle (io_handle.rs).  *)
(*                                                                         *)
(* The producer has Total bytes to write and the consumer stops after      *)
(* Limit bytes, or at end of file.  The shell awaits the commands in       *)
(* order and closes a pipe when the command that writes to it is over.     *)
(***************************************************************************)
EXTENDS Pipe

CONSTANTS
  producer, consumer,
  Total,        \* bytes the producer writes
  Limits,       \* bytes after which a consumer exits (more than Total: wc)
  Modes         \* whether the pipeline is started with &

ASSUME PipelineAssumption ==
  /\ Readers = {consumer} /\ Writers = {producer}
  /\ Total \in 1 .. MaxBytes
  /\ Limits \subseteq Nat \ {0}
  /\ Modes \subseteq BOOLEAN

VARIABLES
  background, \* the pipeline was started with & (never changes)
  limit,      \* what the consumer reads at most (never changes)
  command,    \* command -> "running", "ok" or "failed"
  reported,   \* bytes IoHandle::write has told the producer it wrote
  delivered,  \* bytes the consumer has read
  awaiting    \* the command the shell awaits, or "done"

kind == <<background, limit>>
pipelineVars == <<kind, command, reported, delivered, awaiting>>
allVars == <<vars, pipelineVars>>

PipelineTypeOK ==
  /\ TypeOK
  /\ background \in Modes
  /\ limit \in Limits
  /\ command \in [Clients -> {"running", "ok", "failed"}]
  /\ reported \in 0 .. Total
  /\ delivered \in 0 .. MaxBytes
  /\ awaiting \in Clients \cup {"done"}

\* A background pipeline's pipes are closed as soon as its tasks are spawned.
PipelineInit ==
  /\ buffer = [i \in Cells |-> 0]
  /\ head = 0 /\ tail = 0 /\ len = 0
  /\ background \in Modes
  /\ limit \in Limits
  /\ closed = background
  /\ read_waker = NoWaker /\ write_waker = NoWaker
  /\ writer_blocked = FALSE /\ was_full = FALSE /\ reader_blocked = FALSE
  /\ state = [c \in Clients |-> "idle"]
  /\ woken = {}
  /\ sent = 0
  /\ command = [c \in Clients |-> "running"]
  /\ reported = 0
  /\ delivered = 0
  /\ awaiting = producer

\* A task is polled at first, and then when it was woken.
Runs(c) == command[c] = "running" /\ (state[c] = "idle" \/ c \in woken)

\* IoHandle::write awaits one pipe.write, which may take only a part of the
\* n bytes, and reports all n of them; write_all goes on after those.
IoWrite(n) ==
  /\ Runs(producer)
  /\ reported < Total
  /\ n <= Total - reported
  /\ WriteSome(producer, n)
  /\ reported' = reported + n
  /\ UNCHANGED <<kind, command, delivered, awaiting>>

IoWriteWaits ==
  /\ Runs(producer)
  /\ reported < Total
  /\ WriteBlock(producer)
  /\ UNCHANGED pipelineVars

IoWriteFails ==
  /\ Runs(producer)
  /\ reported < Total
  /\ WriteBroken(producer)
  /\ command' = [command EXCEPT ![producer] = "failed"]
  /\ UNCHANGED <<kind, reported, delivered, awaiting>>

\* Returning from the command's run ends its task; the pipe stays open.
ProducerExits ==
  /\ command[producer] = "running"
  /\ reported >= Total
  /\ command' = [command EXCEPT ![producer] = "ok"]
  /\ UNCHANGED <<vars, kind, reported, delivered, awaiting>>

IoRead(n) ==
  /\ Runs(consumer)
  /\ delivered < limit
  /\ ReadSome(consumer, n)
  /\ delivered' = delivered + Smaller(n, len)
  /\ UNCHANGED <<kind, command, reported, awaiting>>

IoReadWaits ==
  /\ Runs(consumer)
  /\ delivered < limit
  /\ ReadBlock(consumer)
  /\ UNCHANGED pipelineVars

\* End of file, or enough (head): the consumer exits.
ConsumerExits ==
  /\ Runs(consumer)
  /\ \/ delivered < limit /\ ReadEof(consumer)
     \/ delivered >= limit /\ UNCHANGED vars
  /\ command' = [command EXCEPT ![consumer] = "ok"]
  /\ UNCHANGED <<kind, reported, delivered, awaiting>>

\* Mutants: the pipe is closed before the producer is over; or never.
ShellReaps_at_once ==
  \/ /\ awaiting = producer
     /\ Close
     /\ awaiting' = consumer
     /\ UNCHANGED <<kind, command, reported, delivered>>
  \/ /\ awaiting = consumer
     /\ command[consumer] # "running"
     /\ awaiting' = "done"
     /\ UNCHANGED <<vars, kind, command, reported, delivered>>

ShellReaps_open ==
  /\ \/ awaiting = producer /\ awaiting' = consumer
     \/ awaiting = consumer /\ awaiting' = "done"
  /\ command[awaiting] # "running"
  /\ UNCHANGED <<vars, kind, command, reported, delivered>>

\* execute_pipeline: handles are awaited in order; each pipe is closed once
\* the command that writes to it is over.  (Of a background job: fg or wait, and
\* its pipe was closed at once.)
ShellReaps ==
  \/ /\ awaiting = producer
     /\ command[producer] # "running"
     /\ Close
     /\ awaiting' = consumer
     /\ UNCHANGED <<kind, command, reported, delivered>>
  \/ /\ awaiting = consumer
     /\ command[consumer] # "running"
     /\ awaiting' = "done"
     /\ UNCHANGED <<vars, kind, command, reported, delivered>>

PipelineNext ==
  \/ \E n \in 1 .. MaxChunk : IoWrite(n) \/ IoRead(n)
  \/ IoWriteWaits \/ IoWriteFails \/ ProducerExits
  \/ IoReadWaits \/ ConsumerExits
  \/ ShellReaps

PipelineSpec == PipelineInit /\ [][PipelineNext]_allVars /\ WF_allVars(PipelineNext)

-----------------------------------------------------------------------------
(* Properties.                                                             *)

\* In the foreground the consumer sees end of file only when the producer is
\* over and everything the pipe accepted has been read.
EofIsEnd ==
  [][(~background /\ command[consumer] = "running" /\ command'[consumer] = "ok" /\ delivered < limit)
       => (command[producer] # "running" /\ delivered = sent)]_allVars

\* The shell's await comes to an end, whatever the order of blocking, waking
\* and closing.  The one way to hang is a consumer that stops early and leaves
\* the producer blocked on a full pipe that nobody reads, while the shell awaits
\* the producer before it looks at anything else.
OnlyEarlyExitHangs ==
  <>(\/ awaiting = "done"
     \/ /\ limit <= Total
        /\ command[consumer] = "ok"
        /\ state[producer] = "blocked" /\ is_full(len))

-----------------------------------------------------------------------------
(* What comments say and the code does not do.                             *)

\* IoHandle::write_all writes all bytes: what an ok producer wrote has arrived
\* when a consumer that reads to the end is over.
WriteAllArrives ==
  awaiting = "done" /\ command[producer] = "ok" /\ limit > Total => delivered = Total
=============================================================================
