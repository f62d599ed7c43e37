# A TLA+ development of amla-sandbox-core

amla-sandbox-core is the Rust core of a sandbox that runs shell commands, JavaScript and tools
for an embedding program (the *host*). It is compiled to wasm32-wasip1, has one thread, and does
no I/O of its own: whatever it needs from outside it asks of the host, as *operations* that the
host takes from a queue and answers later, in any order or not at all. What makes it hard to get
right is what happens between such a question and its answer: futures are dropped, tasks are
cancelled with all their children, slots are reused, buffers fill up.

This directory holds TLA+ modules of that core, TLC configurations that check them on small
instances, and TLAPS proofs for all instances. Paths below are relative to `src/crates/`; the
abbreviation *scheduler* stands for `amla-sandbox-scheduler/src`.

1. Inventory of the system
2. The modules, and how they correspond to the code
3. What the runs check and show
4. Fairness
5. What is proved
6. What the code does differently from what it says
7. What is not modelled
8. Plan

## 1. Inventory

### Components, their state and operations

| component | code | state | operations |
|---|---|---|---|
| host operation channel | scheduler `host_channel.rs` | bounded queue of requests; slots with generations; free list; wakers of blocked submitters | create, poll (block, submit, wait, finish) and drop a `HostOpFuture`; `take_pending`, `complete`, `append_chunk`, `clear_buffer` |
| task scheduler | scheduler `scheduler.rs`, `waker.rs` | task slots with generations; tree of tasks; ready queue of slots; spawn queue; result slots shared with `TaskHandle` | `spawn`, `run_step`, `cancel_task`, poll or `try_get` of a handle, wakers |
| timers | scheduler `timer.rs` | heap of deadlines; slots; one `WakeAt` operation in flight | `SleepFuture` new, poll, drop; `process` |
| pipe | scheduler `pipe.rs` | ring buffer; one waker per side; flags | read, write, push, drain, close, dropped futures |
| pipelines and I/O handles | `amla-sandbox-shell/src/lib.rs`, `io_handle.rs` | pipes between the tasks of a pipeline | write loop, exits, the order of awaiting and closing |
| command runtime | `amla-sandbox/src/runtime.rs` | commands by handle; closed and pending reads of stdin | `create_command`, `cancel_command`, `delete_command`, `step`, `submit_results` |
| shell interpreter, job control | `amla-sandbox-shell/src` | environment; job table | parse, expand, execute; `&`, `wait`, `fg`, `jobs`, `kill` |
| lazy blocks, page cache | `amla-sandbox-vfs/src` `lazy_block_store.rs`, `page_cache.rs` | LRU of blocks per file; fetches under way with their waiters; a store's own fetch | read a block, answer, fail, drop, evict |
| files and file tree | `amla-sandbox-vfs/src` `lib.rs`, `async_vfs.rs`, `file_handle.rs`, `block_store.rs` | entries with permissions; open files with a copy and a shared cache | create, write, append, remove; open, read, write, seek, close |
| audit log | `amla-sandbox-audit/src` | ring of bytes that holds newline-ended entries; two positions; the level | append, drain, clear, configure |
| JavaScript engine | `amla-sandbox-js/src`, vendored QuickJS | contexts, pending promises | evaluate, poll pending operations |
| authorization chain | `amla-protocol/src` | immutable signed certificates; a CTA's set of spent nonces | issue, continue, submit, validate |
| capabilities, constraints | `amla-protocol-capabilities/src`, `amla-protocol-constraints/src` | none | validate a call, evaluate and subsume constraints |
| tool catalog, MCP, stubs, keys | `amla-sandbox-tools/src`, `amla-sandbox/src` | none to speak of | search, conversions |

### How they interact

The host calls `create_command` and `step`. A step spawns a root task for every new command and
then runs the scheduler: `run_step` first lets the timers look at their `WakeAt` and fire, then
moves spawned tasks into slots, then polls one task. After every poll the runtime empties the
host channel's queue and turns each request into something the host is given, or skips it, or
answers it on the spot. Tasks call the shell, which builds pipes and spawns children; the pipe,
the timers, the channel and task handles keep *wakers*, which only append a slot number to the
ready queue. When nothing is ready, `step` reports exits and returns; the host works on the
operations and calls `submit_results`, which stores answers in slots and wakes their tasks.
Files of the sandbox live in the tree of the VFS and are read and written through descriptors with a
page cache; blocks of the host's files come through the channel. Audit entries go to a ring that the
host drains. The authorization crates are called by the host side before a tool runs, and keep
hardly any state.

There are no threads. The concurrency is that of cooperative tasks between polls, and of the
host's calls between steps; the failures are futures dropped at any point, tasks cancelled with
their subtrees, and answers that come late, twice, in pieces, with an error or never.

### What is hard, and what correctness means

| component | hard behaviour | correctness |
|---|---|---|
| channel | late and repeated answers to reused slots; drops before, during and after the operation; submitters blocked on a full queue | no answer reaches the wrong future; every slot is free or used, once; nobody sleeps whose answer is there |
| scheduler | stale entries in the ready queue; nested cancellation; completion while children live | tree, slots, count and results agree; a waiter is woken; a woken task is polled; children end with their parent |
| timers | replacing the pending `WakeAt`; early, late and failed answers; cancelled sleeps | never early, never forgotten, every sleep ends |
| pipe | wake-up rule over three flags; wrap-around; close while somebody sleeps | a FIFO byte stream; a blocked side is woken by whatever lets it go on |
| pipelines | a consumer that stops early; partial writes | end of file means the end; all bytes arrive; the await ends |
| runtime | attribution of operations; end of stdin with reads in flight; status | exit is the last word; end of file is final; the status is true; commands end |
| storage | shared fetches whose store is dropped; eviction between load and use; a file put together from a cache on close | one fetch per block, nobody waits for none; a read is true; closing saves what was written |
| audit | overwriting the oldest entries while the host holds a part of a line | the host gets whole entries in order, and all that there is room for |
| chain, capabilities | proofs repeated, mixed up and interleaved; attenuation decided hop by hop | one child per nonce; what is emitted validates; what a child may do its parent may do |

`PROJECT.json` lists the single hazards, each at its line, with the property that watches it.

## 2. The modules

| module | models | extends / uses |
|---|---|---|
| `HostChannel` | `host_channel.rs` | |
| `MCHostChannel` | instances of it for TLC | `HostChannel` |
| `TaskScheduler` | `scheduler.rs`, `waker.rs` | |
| `Timer` | `timer.rs` | |
| `ByteStream` | what a pipe promises (abstract) | |
| `Pipe` | `pipe.rs` | instantiates `ByteStream` as what it implements |
| `Pipeline` | a pipeline of two commands | `Pipe`, whose actions it joins with the shell's |
| `Runtime` | `runtime.rs` over an abstract scheduler and channel | |
| `PageCache` | the cache of `page_cache.rs`, as a value | |
| `LazyBlocks` | `lazy_block_store.rs`, the fetches of `page_cache.rs`, `ReadFuture` | `PageCache` |
| `Vfs` | the tree of `amla-sandbox-vfs/src/lib.rs` | |
| `AsyncVfs` | `async_vfs.rs`, `file_handle.rs`, `MemoryBlockStore` | `Vfs`, `PageCache` |
| `MCAsyncVfs` | a small tree for TLC | `AsyncVfs` |
| `LossyLog` | what the audit buffer promises (abstract) | |
| `AuditBuffer` | the ring of `amla-sandbox-audit/src/lib.rs` | instantiates `LossyLog` as what it implements |
| `Constraints` | evaluation and subsumption of constraints, attenuation of a capability | |
| `Authority` | `pca.rs`, `cta.rs`, `chain.rs` | `Constraints` |
| `MCAuthority` | keys, trust and requests for TLC | `Authority` |
| `HostChannelProofs`, `TaskSchedulerProofs`, `TimerProofs`, `PipeProofs`, `RuntimeProofs`, `LazyBlocksProofs`, `AsyncVfsProofs`, `AuthorityProofs` | theorems | the module they are named after (`PipeProofs` also has those on `Pipeline`, `RuntimeProofs` those on the `AuditBuffer` that the runtime owns, `AuthorityProofs` those on `Constraints`) |

Names of variables, fields and actions are the code's where TLA+ allows it. Definitions named
after another one with a suffix (`Schedule_when_empty`, under a comment `Mutant:`) are wrong
variants, used to see that a property notices the mistake; no specification uses them.

**HostChannel.** A future is a record `fut[f]` with the state of its `HostOpState`; an ID is a
slot index and a generation, as in `HostOpId`. One poll of a task is `StartPoll`, one step for
each of its futures (`PollBlocked`, `PollSubmit`, `PollWait`, `PollReady`), `EndPoll`; `Drop` may
come at any time. The host's calls (`TakePending`, `Complete`, `AppendChunk`, `clear_buffer`)
happen between polls. A result carries the operation it was computed for, so that a wrong
delivery can be seen; the data are "whole", "error" or "truncated". A buffer counts chunks.
A second clone of a waker is a second entry of `submit_wakers`, since two clones of a task's
waker never compare equal.

**TaskScheduler.** `tasks`, `generations`, `free_slots`, `ready` and `spawn_queue` are the fields
of `SchedulerInner`; `handles` are the `TaskSlot`s shared with `TaskHandle`s. `pc` says where
`run_step` is. A poll is `PollReadyTask`, then any of `Spawn`, `CancelTask`, `Await`, `Wake`, then
`ReturnPending` or `ReturnReady`. Nested cancellation is the operator `Descendants`, in
the code's order (children first), from which the freed slots, the wakers and the count follow.

**Timer.** The heap is a set of entries, the slots are the code's, `wake_at` is `WakeAtState`
with the progress of its operation. `Process` is the whole of `TimerState::process`:
look at the answer, fire what has expired, schedule. The clock and the answers (`Tick`,
`Answer`, `AnswerError`) are the environment. Time 0 stands for an answer that is too short to
hold a time.

**Pipe and ByteStream.** One action per outcome of a call. Bytes are numbered in the order in
which the pipe accepts them, so that the ring's contents tell loss, duplication and reordering
apart. `ByteStream` is a queue with `Put`, `Get` and `Close`; the refinement mapping
reads the queue off the ring.

**Pipeline.** Each action joins one of `Pipe`'s with what the shell's side does: the byte counts
that `IoHandle::write` reports, exits of the two commands, and the shell that awaits the producer,
closes the pipe, and awaits the consumer. A background pipeline's pipe is closed from the start.

**Runtime.** A command is a root task and what it spawns. `step` is `StepBegin` (phase 1),
a loop of `RunStep`, the calls of one poll (`SpawnChild`, `SubmitOp`, `ReturnPending` or `End`),
`TakeHostOp` until the queue is empty, and `TakeDone`; then `Reap` (phase 3 and the response).
`submit_results`, `create_command`, `cancel_command` and `delete_command` happen when `pc` is
"host". `told` and `eofs` are history: what the host was told, and what the host said.
A task that returns `Pending` has left its waker with some of its operations, with a child, or with something else inside the
sandbox (`inside`): a pipe, a block that another store fetches, a timer, the channel's queue. Such a task is woken (`WakeInside`) or not, as
the other side of the pipe or the other store pleases; that it is woken when it can go on is what `ReaderNotForgotten`,
`WriterNotForgotten`, `WaiterIsRegistered` and `WakeAtCoversEarliest` establish of the modules that have the details, with the exceptions of section
6: closing a pipe wakes no writer, an abandoned fetch nobody, and a blocked submitter can be passed over. Wakers left behind wake for nothing
(`StrayWake`).
The scheduler and the channel are abstract here. That tasks and operations can be named by
numbers that are not confused is what `TaskScheduler` and `HostChannel` establish (`TreeConsistent`,
`ResultIffGone`, `AnswersMatch`); that the queue never fills is an abstraction: a full
queue needs more than 64 operations (the default) in one poll, as `step` empties it after each.

**PageCache and LazyBlocks.** A cache is a value: the blocks, and the order of their last use.
`LazyBlocks` has one for a file, with the table of fetches and their waiters, and per handle the
store's `PendingFetch`, the `ReadFuture` and whether its task was woken. `poll_read_block` is one
operator from the state it finds to the outcome (`Here` to `Ends`), as the code is one function without
an await; `Poll` applies it, wakes who is to be woken, and takes the block, or panics where `unwrap`
finds none. `DropRead`, `CloseHandle` and `HostAnswers` happen between polls. That an answered
operation wakes the task that polled it last is what `HostChannel` establishes.

**Vfs and AsyncVfs.** `entries` maps the paths that exist to what is there; each operation is the
code's check (`check_mutation`) and the map it leaves. `AsyncVfs` adds descriptors, each with its
copy of the file and a position, and one page cache to a path. The memory store never waits, so
that a poll is a whole read or write of at most one block, which is what one call of the code does before it
returns to its caller. `close` joins the blocks that are cached and puts the file into the tree past
`check_mutation`, as `insert_file` does. `written` is history: what a path's handle should find
and leave. The code does not defend itself against everything a caller may do with an open path; `orderly` (history) is
the set of paths used as it takes for granted: one handle at a time, in a directory that exists, the tree above
and at the path left alone meanwhile (by the tree's own operations, and by another file's `close`, which makes
missing directories), no hole of a block or more, appends at the end, no write through
`AsyncWrite` that pads, and no more blocks than the cache holds. `Disorder` and `Disturbed` name these
conditions where they are broken; what happens then is modelled like everything else, and only the
properties ask whether a path is orderly.

**AuditBuffer and LossyLog.** The ring holds bytes that tell their entry, their place in it and its
length, so that what the host puts together from what it drains can be compared with what was
appended. An entry is its length. `tail`, `last`, `garbled` and `cut` are history: the unfinished line the host
holds, the last entry it got, whether it got anything that is no entry, and whether the rest
of a line it had begun was overwritten. `LossyLog` is a queue of bytes that, to make room, loses
whole lines from its old end, and no more than it must; the refinement mapping is `Readable`, the bytes
`drain` would give.

**Constraints and Authority.** A value is opaque, and what the code asks of two values is a relation
that the module takes as a constant. Certificates are records in the order they were built and a hash is an
index; a signature is who made it. `Cta::submit` is two steps, `Submit` (up to the nonce test, which is
behind a lock) and `Emit` or `Refuse`, so that two submissions can interleave there. An executor may
also build a certificate by itself (`Continue`), as the builder checks nothing. `Restart` empties a CTA's nonces,
which are kept in memory. `validate_chain` and `validate_cta_chain` are operators
on the chain that ends in a certificate. `TrustIsClosed` is an assumption about how CTAs are configured: each accepts its
own certificates, and whom it trusts trusts no more than it does; without it a
certificate that `submit` accepts may not validate at the same CTA, which looks at one hop only.

## 3. What the runs check and show

| run | distinct states | question |
|---|---|---|
| `host_channel` | 62 794 | do answers, slots, wakers and the order of requests stay right, and does every operation end? |
| `hc_lost_submitter` | violation | does a blocked future get to submit once there is room? |
| `scheduler` | 95 848 | do slots, tree, roots and results stay consistent; is a waiter woken, and a woken task polled? |
| `timer` | 106 252 | is a sleep never early, and does it end? |
| `pipe` | 1 716 | is it a byte stream, and is a blocked side woken? |
| `pipeline_ends` | 691 | does a pipeline end, with what at the end of file? |
| `pipeline_lost_bytes` | violation | has everything arrived that was written? |
| `runtime` | 708 342 | is the status true, are exit and end of file final, do commands end? |
| `lazy_blocks` | 23 397 | is a read true, a block fetched once, and nobody left waiting? |
| `files` | 1 192 591 | does a handle see what was written, and closing save it; does what is protected stay? |
| `audit` | 184 962 | is the ring a queue of lines that loses its oldest? |
| `authority` | 305 001 | does what a CTA emits validate, once per nonce, and does a chain only narrow? |

**host_channel** (one future of a task and one of a timer, a queue of two, three operations, chunks up to
a limit of one). The timer polls its `WakeAt` with a no-op waker, so that an operation ends although nobody is woken for it. A
queue of two holds requests of both, or of one future twice, as a dropped request stays in the queue: either can be
dropped before and after it was taken, one beside another that is wanted, and the queue is full while a future wants to submit, which
registers its waker, more than once if it is polled again. The third operation reuses a slot while an answer to its
first use may still come. `AnswersMatch`: an answer reaches only the future of its operation.
`SlotAccounting`: the free list and the empty slots are the same, each once. `BlockedIsRegistered`: a future that met a full queue
is in the list of blocked submitters, or woken, or about to be polled. `TakenInOrderAndWanted`: the host
sees requests in the order of their submission, each once, and none whose future is gone.
`OperationsEnd`: what was submitted ends, and its slot is freed. The safety properties also hold with two futures of the task beside
the timer's (413 487 states); their proofs have no bound. **hc_lost_submitter** (three futures, a queue of one): see section 6.

**scheduler** (three tasks, at most two stray wakes in the queue). All trees of up to three tasks,
with completions and cancellations from outside and from inside a poll in every order, stale and duplicated entries of the
ready queue, and wakers of dead tasks. `TreeConsistent` includes that the root stored at spawning time, to which
operations are attributed, stays the top of the chain as long as there is one. `NoChildOutlivesParent`
is stated for children in their parent's list (section 6). Liveness is about a task that is
woken, not about one that its own code never wakes. A fourth task adds a grandchild beside a sibling, and a slot
reused while its former occupant's parent is alive: with four tasks the safety properties hold in the 2 823 414 states with
at most one stray wake, and all properties in the 496 170 states without (longer than a regular run).

**timer** (two sleeps, deadlines and a clock up to 2, three slots). Two sleeps make the
earliest deadline change while a `WakeAt` is in flight; the third slot is one leaked or not yet
expired. `WakeAtCoversEarliest`: whenever sleeps are pending there is a `WakeAt` at or before the earliest of
their deadlines, created, on its way or answered.

**pipe** (capacity 4, chunks up to 3, 12 bytes). The ring turns over three times; 3 does not divide 4,
so that partial reads and writes and every alignment of the ring occur. The low watermark (25% of 4)
is a level above 0. **pipeline_ends** (capacity 3, 9 bytes, chunks up to 4): the output is three
times what fits, and one chunk is larger than the ring; the consumer reads to the end or exits after
two bytes, in the foreground and the background. `OnlyEarlyExitHangs` states the one case in which the await does not end.

**runtime** (two commands, three tasks, two operations at a time, two waits, `MAX_STEPS` 2). Two commands make
attribution a question; the third task is a child of either. A `MAX_STEPS` of 2 lets a step stop
while tasks are ready or not yet in their slots. A wait is an operation submitted, a return with the waker inside the sandbox, or a stray wake; with
two of them two tasks wait for the host, both inside the sandbox (each for the other, as at a pipe), one for each, or a parent for a child that does.
`ExitIsLast`: after `CommandExit` the host hears no more of a command, not even from a child that outlived its root. `StatusIsTrue`:
`AllDone` means that all exits were reported; `AllBlocked` that no task was woken that has not been polled since, by an
answer, by the end of a child or from inside, and that some task waits for something other than a child. It does *not* say that the host
has an operation (`BlockedOnHost`, section 6). `CommandsEnd`: a command exits, is cancelled or is deleted, unless from some time on one of its tasks
waits inside the sandbox and is not woken. The hangs of section 6 are of that kind (an early exit in a pipeline, an
abandoned fetch, a lost submitter), and nothing else hangs a command: neither the scheduler, nor the wait for a child, nor
the channel's answers. `EofIsFinal` has more to go wrong with one
command, two tasks and four reads, two at a time, than the run holds (a read dropped, answered with the end of file after that,
and followed by another); it is proved.

**lazy_blocks** (two handles, three blocks with one past the end of the file, a cache of one, four
reads, one failure). A cache of one evicts at every insertion; two handles and three blocks let each fetch what
the other waits for, or has evicted; with four reads a handle comes back to a block it has seen
leave. `WaiterIsRegistered`: a read that nobody will poll has its own fetch in the host's hands or
is registered with another's. `OnlyAbandonedFetchHangs`: a read ends unless the fetch it waits for was
left by its store.

**files** (two descriptors, three paths of eight, blocks of two bytes, a cache of two, files up to five bytes, four
operations on descriptors and two on the tree). Five bytes are three blocks, one more than the cache
holds, with the last one partial; four operations are an open, two of read, write or seek, and a close, or two descriptors opened and
used; two on the tree make or remove a directory and what is in it. The paths are one scratch file,
one to be created and the append-only log. With five operations on descriptors and one on the tree the same
properties hold, in 1 507 439 states.

**audit** (a ring of twelve bytes, entries of one to three bytes, five of them, two levels). A quarter of the ring is the longest
entry the code accepts; five entries of three bytes overwrite the ring and wrap, and drains of every
size cut lines at every place.

**authority** (one root certificate, three certificates, two CTAs of which one trusts the other, two
executors, four requests, two nonces, two events, a horizon of 2). Three certificates are the shortest chain in which a hop's parent is
itself a CTA's; the requests name an executor by key, by characteristic and through a CTA, with capabilities that narrow
each other, drop a key, or have no limit. Events are what executors sign or build, and restarts: two of them are two proofs to mix up, or a proof used again after
a restart. `AcceptedChainsNarrow` compares calls only where each hop keeps the constraints it was
given (`Keeps`); keys, limits and expiry it compares always.

Every property is also checked against a variant of the code with one mistake in it
(`PROJECT.json`, "mutants"), which it must refute.

Bounds are in the guards and named where constants are declared: `MaxOps`, `MaxWakers`, `GenMax`
(HostChannel), `MaxTasks`, `MaxReady` (TaskScheduler), `MaxTime`, `MaxSlots` (Timer), `MaxBytes`,
`MaxChunk` (Pipe), `MaxCommands`, `MaxTasks`, `MaxOps`, `MaxWaits` (Runtime), `MaxReads`, `MaxFailures`
(LazyBlocks), `MaxLen`, `MaxSync`, `MaxAsync` (Vfs, AsyncVfs), `MaxEntries` (AuditBuffer), `Horizon`, `MaxPcas`, `MaxRoots`,
`MaxEvents` (Authority). `CHECK_DEADLOCK` is off where a behaviour may use up its bound or simply be over, with
nothing left to do.

## 4. Fairness

The code is one thread, so that fairness is about two parties.

- *The program goes on.* A poll is finite, `step`'s loop polls every ready task before it returns
  (up to `MAX_STEPS`), and empties the channel's queue after each poll. Hence, in `HostChannel`, that polls end and the queue is
  empty again and again (`[]<>`), elsewhere weak fairness of the steps of a poll and of `run_step`, and strong
  fairness of starting the poll of a woken task where polls of other tasks disable it.
- *The host goes on.* It steps again and again and answers what it took. Hence strong
  fairness of an answer to each operation taken (HostChannel), of an answer
  to a `WakeAt` whose time has come (Timer), of stepping and answering (Runtime). The
  documentation of `Runtime::step` asks exactly that of the host (runtime.rs:1054-1068).
  In `LazyBlocks` a task that is woken is polled, and each fetch is answered sooner or later or fails
  (weak fairness of both).

`OperationsEnd`, `SleepEnds` and `CommandsEnd` need the host; `WokenIsPolled`, `BlockedWriterResumes`
and `OnlyEarlyExitHangs` need only the program. `OnlyAbandonedFetchHangs` needs both. `BlockedWriterResumes` is about a pipe that is read
again and again: the pipe alone guarantees nothing about a reader that has left. In `Runtime` a
command submits finitely many operations and waits finitely often because of the bound `MaxWaits`, so that `CommandsEnd`
speaks of commands that would come to an end by themselves. Nothing is fair about `WakeInside`: the other side of a pipe may never come.
The files, the audit log and the authorization modules make no promise about what must happen and have no fairness.

## 5. What is proved

All proofs are checked by TLAPS for every value of the constants that the assumptions allow. Each module has one
inductive invariant or a few; every conjunct that is not a property of section 3 is there because some step needs it.
What a recursive definition computes is proved without an induction rule: a set of numbers that has a member has a
least one (`LeastNat`), so that what fails somewhere fails first somewhere (`Upward`).

The assumptions that do more than bound a constant: the values that stand for "none" are not among the proper ones
(`NullAssumption`, `NoSlotAssumption`, `NoneAssumption`); a CTA's key is neither a gateway's nor an executor's
(`CtaKeysAreTheirOwn`); requests have the fields of a request (`RequestsAreTyped`); and the paths used include those of
`Vfs::new` and the prefixes of all (`PathsOfNew`, `PathsAreTrees`), with bytes that are numbers (`ContentsAreBytes`).

**PipeProofs.** From `PipeAssumption` (positive capacity; readers and writers are different tasks):
- `TypeSafe`: `Spec => []TypeOK`; no position leaves the ring, for every capacity.
- `RingSafe`: `head`, `tail` and `len` agree (`RingConsistent`).
- `PipeImplementsStream`: `Spec => ImplementsByteStream`, by a step simulation (`StepImplements`) from
  the ring's contents as a queue; reading part of the ring is `Get`, writing into it `Put`, and
  everything else a stutter, or `Close`. The lemmas `ReadContents` and `WriteContents` do the arithmetic of
  the wrap-around.
- `WriterSafe`, `ReaderSafe`: with at most one writer, or one reader, a blocked task is registered and
  the flags are set that make the next call of the other side wake it. `WriterNotForgotten` is not
  inductive alone: a read wakes the writer if the ring falls below the low watermark *or was full*,
  and what makes every read wake a blocked writer is that the second always holds, the
  strengthening `BlockedOnFull == writer_blocked => was_full`. The one-task assumption is needed, as a
  second writer overwrites the first one's waker; the shell never has two on a side.
- `EndOfFileIsTheEnd` (with `PipelineAssumption`: one producer, one consumer): `PipelineSpec => EofIsEnd`, from `PipelineInv`: what was read and what is in the ring is all that was accepted, and
  a foreground pipe is closed only when the command that writes to it is over. Every step of a command is a step of the pipe or none
  (`PipelineCallsPipe`), so that the types are `NextType`'s.

**HostChannelProofs.** From `TasksAssumption`, `BoundsAssumption` and `NullAssumption`, for any number of
futures, tasks, slots and operations:
- `TypeSafe`: `Spec => []TypeOK`.
- `AnswersSafe`: `Spec => []AnswersMatch`. The inductive invariant is `Inv == TypeOK /\ IdInv`. Its parts:
  `Growth` (slots and generations never exceed the operations submitted, and freed indices are
  allocated ones), `OnlyPolled` (between polls nothing is half done), `IdsAreOld` (an ID that anyone holds is
  not ahead of its slot's generation, so that the next ID allocated is new), `IdsAreUnique` (so one ID is one
  operation), `StoredMatch` (a stored result is that of the slot's present operation), `SubmittedHasOp`
  and `GotWhenReady` (what a future's state says of its fields). `AnswersMatch` then
  follows as a future takes a result out of its own slot.
  `BoundsAssumption` has `MaxOps <= GenMax`: the generation counter, a `u32`, does not wrap. Beyond 2^32 uses of
  one slot an old ID would be valid again.
- `SlotsAreAccounted`, `TakenInOrder`, `BlockedAreRegistered`, from a second invariant over the first, `QueueInv`: the queue holds
  requests in the order of their operations, each later than what was taken (`InOrder`), each of a slot that is in use
  (`QueuedAreLive`) and, unless its future is gone, of a future that waits for it (`QueuedAreWanted`); and a future
  still to be polled in this poll belongs to the task that is running (`TodoIsRunning`).

**TaskSchedulerProofs.** From `TaskBounds` and `NoneAssumption`, for any number of tasks and every tree of them:
- `TablesAreAccounted` (`TypeOK`), `TreeStaysConsistent` (`TreeConsistent`), `ResultsTellTheEnd` (`ResultIffGone`),
  `WaitersAreWoken` (`WaiterIsWoken`), and `ChildrenEndFirst` (`NoChildOutlivesParent`, an action property). `Inv` adds to these:
  - `IdInv`: the handles whose task has left the spawn queue have one ID each, no two the same, and every generation used up
    was somebody's. Slots and generations are thus at most as many as spawns, which is why no table overflows.
  - `RequestInv`: requests wait in the order of their handles; their parents, and the owners of handles, are tasks that are
    there or were.
  - `TreeInv`: a task's handle is greater than its parent's. That is what ends the recursion of a cancellation, for every depth: `Descendants`
    lists exactly the subtree, each task once (`Subtree`), and what a cancellation or a completion does to the tables is one
    relation, `Buried`, from which all conjuncts follow.

**TimerProofs.** From `TimerBounds` and `NoSlotAssumption`, for any number of sleeps and slots and any clock:
- `TypeSafe`; `SleepsEndInTime` (`NeverEarly`); `OneWakeAtIsEnough` (`WakeAtCoversEarliest`). The invariant says of the free list that each of
  its slots is empty and in it once, of the heap that an entry is the only one of its slot, and of a sleep that it has its slot
  for itself, with its own deadline in the heap or fired in time. So a slot that is freed and given out again never ends the sleep that had it.

**RuntimeProofs.** From `RuntimeBounds`, for any number of commands, tasks, operations and steps:
- `ExitSafe`: `Spec => ExitIsLast`; `EofSafe`: `Spec => EofIsFinal`. Both follow from `Invariance`, the
  inductive `Inv`: a command whose exit was reported, or was over when its task ended, has no task
  handle (`Retired`), and operations are attributed through handles only; an end of stdin is in
  `stdin_closed_commands` unless the command is retired (`ClosedOrRetired`); a read that the host has
  is tracked unless its command is retired (`Attributed`), so that the end of file that answers it is
  recognised; and a handle not yet given out has left no trace (`FreshHandles`). The types enter only as
  far as record updates need them (`Shapes`).
- `StatusSafe`: `Spec => []StatusIsTrue`, from `LiveInvariance` (`Inv /\ LiveInv`). A
  task that is not ready has a reason (`ReasonInv`): an operation, a child, or something inside the sandbox. An operation it waits
  for is with the host, queued for it, or answered with the task ready
  (`FutureInv`), and a child is queued or alive (`AwaitInv`). So when `step` returns
  `AllBlocked`, with nothing ready or queued, nothing was missed. That somebody then waits for something other than a child needs `NumberInv`: a
  child has a greater number than its parent, so that the last of the active tasks waits for no child.
  `Room` counts: there is a task number left for every command handle not yet started, children apart.
- On `AuditBuffer`, from `RingHoldsEntries` and `LevelsAreNumbers`, for any capacity from four bytes on and any number of entries:
  `AuditImplementsLog`: `AuditSpec => ImplementsLossyLog`, by a step simulation from the bytes between the positions as a queue
  (`WriteIsPut`, `DrainIsDrain`, `ClearIsClear`). It needs of the queue only that it ends with a newline (`AuditRing`): then `find_next_entry` finds
  one among the bytes that stay, and the first it finds is the least cut that makes room. `WrittenAt` and `SeenFrom` do the arithmetic of the wrap-around.
  `LinesStayWhole`: `AuditSpec => []LinesAreWhole`. `HostInv` says that the line the host holds unfinished, followed by the queue, is a
  sequence of whole lines in order (`Lines`), and `cut` says where that ends; cutting behind a newline (`LinesCut`) and appending a
  line (`LinesAppend`) keep it.

**LazyBlocksProofs.** From `CacheLimit` and `Limits`, for any number of handles and blocks and any limit:
- `FetchesAreCoordinated` (`OneFetchPerBlock`), `WaitersAreRegistered` (`WaiterIsRegistered`), `ReadsAreTrue`
  (`ReadIsTrue`). One invariant, `IInv`, holds the three together with `Truthful` (a cached block holds
  the host's bytes, whatever was evicted) and `Tasks` (a reading handle is open). As one poll is a chain of
  up to three steps (settle the old fetch, try the block, start a new one), the parts are stated of an
  *outcome* (`Outcome`, `Others`), shown to be kept by each step, and read off at the end.
- `CacheIsInOrder` (`TypeOK`): the order of use lists the cached blocks, each once, and no more than the limit.

**AsyncVfsProofs.** For any tree, permissions, number of handles, block size and limit of the cache:
- `FilesInvariance`: `Spec => []FilesInv`. Of a handle whose path is orderly it says that no other handle has the path, that the
  cache holds all the blocks of the file and no others (`Holds`), that the size, and the handle's own copy, have the file's length, that
  `open` would still allow the path and mode, in a directory that is there (`Fits`), and, if it appends, that what the tree
  has at the path is how the file begins. Of other handles it gives the types only.
  `WriteIs` is the arithmetic of a write: the block merged from the cached one and the bytes is the block of the
  file with the bytes in it, and no other block changes. `PopulateIs` and `ReconstructIs` are about cutting a file into blocks and
  putting it together again.
- `TreeStaysTree` (`TreeIsTree`) and `ProtectionHolds` (`ProtectedStays`). Operations of the tree are covered without a
  condition, whatever files are open (`VfsNextKeeps`, of `Keep`), and so are closes as far as other paths go. The close of
  a path, which checks no permission and goes past `check_mutation`, keeps the tree one and respects the path's permission *if the
  path is orderly*: then `Fits` says that what `open` checked still holds (`CloseKeepsTree`, `CloseProtects`). A path that was removed, replaced or protected
  between its `open` and its `close` is excluded by this premise, and there the code does break both.
- `HandlesSeeFiles` (`HandleSeesFile`) and `CloseSavesFile` (`CloseSaves`) are about orderly paths only: one handle at a time, no more blocks
  than the cache holds, so that none is evicted, no hole of a block or more, no padded write, appends at the end, and an entry left alone. They
  say that this is enough for the shared cache, the handles' copies and the join on `close` to agree; of an evicted block, a hole or a second
  handle they say nothing.

**AuthorityProofs**, on `Constraints`. From `Orders` (the relations on values are transitive), for all parameters and values:
- `SameParamIsSound`, `SubsumesIsSound`: where `subsumes` answers yes, a call that satisfies the child's
  constraint satisfies the parent's, provided that no parent `Eq` meets a comparison (`NoCross`, section 6).
- `AttenuationNarrowsCalls`: a capability accepted by `is_subset_of` permits only calls its parent permits, under
  `Keeps`: the child constrains every parameter that the parent constrains, the parent constrains each
  once, by simple constraints, and `NoCross`.

On `Authority`, from `TrustIsClosed`, `CtaKeysAreTheirOwn` and `RequestsAreTyped`, for any number of keys, certificates, proofs and restarts:
- `NoncesAreSpentOnce` (`OneChildPerNonce`). The strengthening `NonceInv`: every submission past the nonce test,
  and every certificate emitted since the last restart, has its nonce in the CTA's set; no two
  submissions under way share one, and none shares one with a certificate of this era.
- `CertificatesAreSigned` (`EmittedAsSigned`), with the types of certificates and proofs
  (`PcasTyped`, `ProofsTyped`), as a growing set of certificates changes none of those that are there.
- `EmittedChainsAreValid` (`EmittedChainsValidate`). `submit` looks at one hop. The hop before was looked at by a CTA that this one trusts,
  and that trusts no more than this one (`TrustIsClosed`), so that going back to the root, certificate by certificate, every hop is one
  this CTA would accept.
- `ChainsDoNotWiden` (`AcceptedChainsNarrow`), of every chain that either validator accepts, whoever built it.

Checked by TLC only: all liveness (`WF_` and `SF_`), and the properties about `ENABLED`, which are out of TLAPS's reach here
(`OperationsEnd`, `WokenIsPolled`, `SleepEnds`, `BlockedWriterResumes`, `OnlyEarlyExitHangs`, `CommandsEnd`, `OnlyAbandonedFetchHangs`). Every
other property that a passing run checks is a theorem.

## 6. What the code does differently from what it says

Shown by a run (`PROJECT.json`, "findings"):

- `take_pending` says that it wakes one blocked submitter for each slot freed (host_channel.rs:600).
  It pops one waker, which may be that of a task that no longer waits: a future was dropped, or a
  task registered twice because "avoid duplicates" (833-834) compares clones that are never equal. The next
  submitter then sleeps on beside an empty queue.
- `IoHandle::write_all` says "Write all bytes" (io_handle.rs:574), but `write` awaits one `pipe.write` and reports
  the whole length, so that what did not fit is lost.

Stated in a module and not true of the code, without a run of their own (to see the behaviour, add the property to the run's
configuration):

- `RefusedChunkIsError` (HostChannel; run `host_channel`). `append_chunk` says that a chunk over the limit
  completes the operation with an error (host_channel.rs:712). It stores the error but keeps the
  buffer and the open slot, so that a later small last chunk, before the task has polled, turns the
  error into a success with data missing.
- `ReadsEnd` (LazyBlocks; `lazy_blocks`). "Host op completes: Block cached, all waiters woken"
  (lazy_block_store.rs:12). Only the store that began a fetch can complete it, in a poll of its own: if its handle was
  dropped, or reads no more, the others wait on. `OnlyAbandonedFetchHangs` is what holds.
- `AppendOnlyGrows` (AsyncVfs; `files`). "Append (writes go to end)" (file_handle.rs:27). The position is fixed at
  opening, and `seek` moves it; a write then replaces what is there, and `close` saves it.
- `DrainedLinesAreEntries` (AuditBuffer; `audit`). `audit_drain` gives "newline-separated entries" (wasm.rs:1538). When
  the rest of a line is overwritten after the host has drained its beginning, the next entry
  follows directly on that beginning.

- `BlockedOnHost` (Runtime; `runtime`). "Command is blocked waiting for host operation results" (types.rs:174). Tasks
  that wait for each other's pipes, for an abandoned fetch, or in the queue of submitters, leave `step` nothing to run and nothing
  to ask: it answers `AllBlocked` with no operation at the host.

Represented in the models, and seen in their behaviours:

- A pipeline whose consumer exits early hangs: the shell awaits the producer first (lib.rs:792), and close wakes
  no writer. `OnlyEarlyExitHangs` shows that it is the only way for a pipeline to hang.
- A background pipeline closes its pipes before its tasks run (lib.rs:963), so its first write fails.
- A child that is spawned in the poll in which its parent completes outlives it, contrary to the comment of
  `spawn` (scheduler.rs:301); a handle that is cancelled before its task has a slot cancels nothing.
- `run_step` returns `Done` with a request in the spawn queue (scheduler.rs:456).
- `has_ready_tasks` is true when the ready queue holds only stale entries (scheduler.rs:830).
- Dropping the earliest sleep does not reschedule the `WakeAt` (timer.rs:393 says it does): the old one fires
  for nothing. A sleep that is dropped after it fired and before it is polled keeps its slot for ever.
- The low watermark never holds back a wake-up (pipe.rs:26), as a writer blocks only on a full ring.
  `push` puts data into a closed pipe (pipe.rs:275).
- A request whose future is dropped stays in the queue until it is taken (the table at host_channel.rs:46 says
  that it is removed).
- `delete_command` cancels nothing: its task runs on, and its operations reach the host without a command.
- `close` of a file writes past `check_mutation`, and joins only the blocks that are still cached; a second handle of a
  path puts the saved file's blocks over what the first has written (async_vfs.rs:208); `AsyncWrite` pads a
  block that is not cached to its whole length (file_handle.rs:385). `orderly` in `AsyncVfs` names these cases.
- `Constraint::subsumes` says that what satisfies the child satisfies the parent. A parent `Eq` against a child
  comparison is answered the other way round (the lines under "Eq subsumes all comparisons"), and a set of
  constraints is compared only on parameters that the child constrains too: `NoCross` and `Keeps` are these conditions.
- `validate_chain` limits the length of a chain (chain.rs:366); `validate_cta_chain` does not.
- A nonce is spent by a submission that is then refused (cta.rs:784), and a restart forgets all of them.
- A stdin read that is answered with an error stays in `pending_stdin_ops`, and `stdin_closed_commands` keeps
  commands that have exited.

## 7. What is not modelled

In the modelled components: `scheduler.run()` called inside a poll (the shell's `wait`, `fg`, `jobs`); a task
that cancels itself or an ancestor; the wrap-around of generations; the `random-scheduling` feature, which
tests use; writers that share a pipe end; pipelines of three and more commands and redirections; output
buffers, timing and the table of runtimes in `runtime.rs`; invalidating a page cache and resizing a host
file, which only tests do; reads and writes of more than one block, which are repetitions of
those modelled; path normalisation and search in the tree; the fields of audit entries and their
JSON; timestamp challenges, payloads, versions and encodings of certificates; method patterns
(two capabilities under one key have the same one), parameter paths, and `And` and `Or` nested
deeper than one level.

Signatures and hashes are ideal. Where a component is abstract in another's module, the module says so and names
the property of the detailed one that justifies it (section 2).

Components with no module, and why, are in `PROJECT.json`: the greater part of the repository by lines is the shell's lexer,
parser, expansion and builtins, text filters, JSON and FFI conversions, generated stubs and ranking, which
are sequential data processing that unit tests reach, and QuickJS, which is vendored C.

## 8. Plan

Done: the channel, the scheduler, the timers, the pipe, pipelines, the runtime, lazy blocks with their
cache, the file tree and descriptors, the audit ring, constraints and the authorization chain, with the theorems above.
Next, in this order:

1. *Composition*: the channel's results under the scheduler's wake-ups, in place of the abstract scheduler and channel of `Runtime`, and
   the files under the lazy blocks (a read of more than one block, a poll that waits).
2. *Jobs* (`jobs.rs`, `builtins.rs`): the job table over `TaskScheduler`'s handles: `update_state`, `is_complete`, `wait`, `fg`,
   `kill`, with nested `run()` as a re-entrant step.
3. *HostStream handles* (`io_handle.rs`): the shared line buffer, chunks and the order of output and exit.
4. *JavaScript engine*: the poll loop of pending operations and promises.
5. *Shell control flow*: exit codes through `&&`, `||`, `;`, `!`, loops and `break`, and glob matching, against recursive reference
   definitions.
