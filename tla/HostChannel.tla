----------------------------- MODULE HostChannel -----------------------------
(***************************************************************************)
(* The host operation channel of the sandbox scheduler                     *)
(* (crates/amla-sandbox-scheduler/src/host_channel.rs).                    *)
(*                                                                         *)
(* Futures owned by tasks submit operations to a bounded queue; the host   *)
(* takes requests from it and answers them by ID.  An ID is a slot index   *)
(* and a generation, so that a late answer to a slot that was reused is    *)
(* recognised and dropped.  Dropping a future cancels its operation.       *)
(*                                                                         *)
(* The program is single threaded: the host side runs only between two     *)
(* polls (running = NoTask), and one poll of a task is a sequence of polls *)
(* of its futures, one step each, from StartPoll to EndPoll.               *)
(***************************************************************************)
EXTENDS Integers, Sequences, FiniteSets

CONSTANTS
  Futures,      \* the HostOpFuture values alive at one time
  Tasks,        \* the tasks that own them
  TaskOf,       \* which task polls which future
  NoopTasks,    \* pollers that pass a no-op waker (the timer's WakeAt)
  NoTask,       \* no task is being polled / no waker is registered
  NoSlot,       \* None in the slots vector
  NoResult,     \* a slot's result is None
  MaxPending,   \* max_pending, the queue's bound
  BufferLimit,  \* buffer_limit, in units of the smallest chunk
  GenMax,       \* the largest generation (u32::MAX in the code)
  MaxOps,       \* bound: operations submitted in a behaviour
  MaxWakers     \* bound: submit wakers beyond which no future is created
                \* and no task polled unwoken

ASSUME TasksAssumption ==
  /\ TaskOf \in [Futures -> Tasks]
  /\ NoopTasks \subseteq Tasks
  /\ NoTask \notin Tasks

ASSUME BoundsAssumption ==
  /\ MaxPending \in Nat \ {0}
  /\ BufferLimit \in Nat
  /\ MaxOps \in Nat \ {0}
  /\ GenMax \in Nat
  /\ MaxOps <= GenMax      \* the generation counter does not wrap
  /\ MaxWakers \in Nat

VARIABLES
  fut,              \* each future's HostOpState, with its ID and outcome
  running,          \* the task being polled
  todo,             \* the futures its current poll has still to poll
  woken,            \* the tasks in the scheduler's ready queue
  pending_requests, \* the bounded queue of requests
  slots,            \* slot per index: NoSlot or a PendingSlot
  generation,       \* slot_info: generation per index, 0 before allocation
  nslots,           \* slots.len()
  free_slots,       \* stack of free indices
  submit_wakers,    \* wakers of submitters that found the queue full
  taken,            \* the requests the host has taken (it keeps their IDs)
  ops               \* number of operations submitted so far

vars == <<fut, running, todo, woken, pending_requests, slots, generation,
          nslots, free_slots, submit_wakers, taken, ops>>

slotVars == <<slots, generation, nslots, free_slots>>
pollVars == <<running, todo>>

Index == 0 .. MaxOps - 1
Ids == [idx : Index, gen : 0 .. GenMax]
NoId == [idx |-> 0, gen |-> 0]       \* NOTIFICATION_ID, never an operation's

\* What is delivered: op is the operation the answer was computed for; the
\* data is "whole", or "truncated" when a chunk of it was refused.
Results == [op : 1 .. MaxOps, data : {"whole", "truncated", "error"}]

Slot == [result    : Results \cup {NoResult},
         buffer    : 0 .. BufferLimit,
         overflow  : BOOLEAN,          \* history: a chunk was refused
         waker     : Tasks \cup {NoTask},
         cancelled : BOOLEAN]

\* None is no PendingSlot and no result.
ASSUME NullAssumption == NoSlot \notin Slot /\ NoResult \notin Results

Requests == [id : Ids, op : 1 .. MaxOps]

\* "blocked" is HostOpState::Pending after a poll found the queue full;
\* "ready" is HostOpState::Submitted after the result was returned.
FutureStates == {"none", "pending", "blocked", "submitted", "ready"}
Future == [st : FutureStates, id : Ids, op : 0 .. MaxOps,
           got : Results \cup {NoResult}]

TypeOK ==
  /\ fut \in [Futures -> Future]
  /\ running \in Tasks \cup {NoTask}
  /\ todo \subseteq Futures
  /\ woken \subseteq Tasks
  /\ pending_requests \in Seq(Requests)
  /\ slots \in [Index -> Slot \cup {NoSlot}]
  /\ generation \in [Index -> 0 .. GenMax]
  /\ nslots \in 0 .. MaxOps
  /\ free_slots \in Seq(Index)
  /\ submit_wakers \in Seq(Tasks)
  /\ taken \subseteq Requests
  /\ ops \in 0 .. MaxOps

NoFuture == [st |-> "none", id |-> NoId, op |-> 0, got |-> NoResult]

Init ==
  /\ fut = [f \in Futures |-> NoFuture]
  /\ running = NoTask
  /\ todo = {}
  /\ woken = Tasks \ NoopTasks         \* spawned tasks start ready
  /\ pending_requests = <<>>
  /\ slots = [i \in Index |-> NoSlot]
  /\ generation = [i \in Index |-> 0]
  /\ nslots = 0
  /\ free_slots = <<>>
  /\ submit_wakers = <<>>
  /\ taken = {}
  /\ ops = 0

-----------------------------------------------------------------------------
(* Slots and IDs.                                                          *)

\* Mutant: the generation is not compared.
is_valid_id_any_generation(id) == id.idx < nslots

is_valid_id(id) == id.idx < nslots /\ generation[id.idx] = id.gen

\* The ID names the slot's current operation, which has not been freed.
Occupied(id) == is_valid_id(id) /\ slots[id.idx] # NoSlot

free_slot(id) ==
  /\ slots' = [slots EXCEPT ![id.idx] = NoSlot]
  /\ free_slots' = Append(free_slots, id.idx)
  /\ UNCHANGED <<generation, nslots>>

wrapping_next(g) == IF g = GenMax THEN 0 ELSE g + 1

\* allocate_id takes the index on top of free_slots, or grows the vector.
Reuse == free_slots # <<>>
AllocatedIndex == IF Reuse THEN free_slots[Len(free_slots)] ELSE nslots
AllocatedId ==
  [idx |-> AllocatedIndex,
   gen |-> IF Reuse THEN wrapping_next(generation[AllocatedIndex]) ELSE 1]

allocate_id(slot) ==
  /\ slots' = [slots EXCEPT ![AllocatedIndex] = slot]
  /\ generation' = [generation EXCEPT ![AllocatedIndex] = AllocatedId.gen]
  /\ nslots' = IF Reuse THEN nslots ELSE nslots + 1
  /\ free_slots' = IF Reuse THEN SubSeq(free_slots, 1, Len(free_slots) - 1)
                            ELSE free_slots

\* waker.wake() queues the task again; the no-op waker does nothing.
Wake(ts) == woken' = woken \cup (ts \ ({NoTask} \cup NoopTasks))

-----------------------------------------------------------------------------
(* The task side: creating, polling and dropping futures.                  *)

Alive(f) == fut[f].st \in {"pending", "blocked", "submitted"}
can_submit == Len(pending_requests) < MaxPending

\* A task is polled because a waker put it in the ready queue, or for a
\* reason outside the channel (another future of it, a stale waker, the
\* timer's processing on each run_step).
StartPoll(t) ==
  /\ running = NoTask
  /\ \/ t \in woken \cup NoopTasks
     \/ Len(submit_wakers) + Cardinality(Futures) <= MaxWakers
  /\ running' = t
  /\ todo' = {f \in Futures : TaskOf[f] = t /\ Alive(f)}
  /\ woken' = woken \ {t}
  /\ UNCHANGED <<fut, pending_requests, slotVars, submit_wakers, taken, ops>>

EndPoll ==
  /\ running # NoTask
  /\ todo = {}
  /\ running' = NoTask
  /\ UNCHANGED <<fut, todo, woken, pending_requests, slotVars,
                 submit_wakers, taken, ops>>

\* The running task calls file_read, custom, print, ... and awaits it.
Create(f) ==
  /\ running = TaskOf[f]
  /\ fut[f].st = "none"
  /\ ops + Cardinality({g \in Futures : fut[g].st \in {"pending", "blocked"}}) < MaxOps
  /\ Len(submit_wakers) < MaxWakers
  /\ fut' = [fut EXCEPT ![f] = [NoFuture EXCEPT !.st = "pending"]]
  /\ todo' = todo \cup {f}
  /\ UNCHANGED <<running, woken, pending_requests, slotVars, submit_wakers,
                 taken, ops>>

\* Mutant: only the first blocked submitter is registered.
register_first_only(t) ==
  submit_wakers' = IF submit_wakers = <<>> THEN <<t>> ELSE submit_wakers

\* The list's will_wake test finds only a no-op waker again: two clones of a
\* task's waker never compare equal.
register_submit_waker(t) ==
  submit_wakers' =
    IF t \in NoopTasks /\ (\E i \in 1 .. Len(submit_wakers) : submit_wakers[i] = t)
    THEN submit_wakers
    ELSE Append(submit_wakers, t)

\* HostOpFuture::poll in state Pending, queue full.
PollBlocked(f) ==
  /\ f \in todo
  /\ fut[f].st \in {"pending", "blocked"}
  /\ ~can_submit
  /\ register_submit_waker(running)
  /\ fut' = [fut EXCEPT ![f].st = "blocked"]
  /\ todo' = todo \ {f}
  /\ UNCHANGED <<running, woken, pending_requests, slotVars, taken, ops>>

\* Mutant: the request is put in front.
Enqueued_in_front(r) == <<r>> \o pending_requests

\* The queue with one more request.
Enqueued(r) == Append(pending_requests, r)

\* HostOpFuture::poll in state Pending, room in the queue: submit, then
\* poll_result on the new slot leaves the task's waker there.
PollSubmit(f) ==
  /\ f \in todo
  /\ fut[f].st \in {"pending", "blocked"}
  /\ can_submit
  /\ ops < MaxOps
  /\ ops' = ops + 1
  /\ pending_requests' = Enqueued([id |-> AllocatedId, op |-> ops + 1])
  /\ allocate_id([result |-> NoResult, buffer |-> 0, overflow |-> FALSE,
                  waker |-> running, cancelled |-> FALSE])
  /\ fut' = [fut EXCEPT ![f].st = "submitted", ![f].id = AllocatedId,
                        ![f].op = ops + 1]
  /\ todo' = todo \ {f}
  /\ UNCHANGED <<running, woken, submit_wakers, taken>>

\* poll_result, no result yet: the slot keeps the latest waker.
PollWait(f) ==
  /\ f \in todo
  /\ fut[f].st = "submitted"
  /\ Occupied(fut[f].id)
  /\ slots[fut[f].id.idx].result = NoResult
  /\ slots' = [slots EXCEPT ![fut[f].id.idx].waker = running]
  /\ todo' = todo \ {f}
  /\ UNCHANGED <<fut, running, woken, pending_requests, generation, nslots,
                 free_slots, submit_wakers, taken, ops>>

\* poll_result, result present: it is returned and the slot freed.
PollReady(f) ==
  /\ f \in todo
  /\ fut[f].st = "submitted"
  /\ Occupied(fut[f].id)
  /\ slots[fut[f].id.idx].result # NoResult
  /\ fut' = [fut EXCEPT ![f].st = "ready",
                        ![f].got = slots[fut[f].id.idx].result]
  /\ free_slot(fut[f].id)
  /\ todo' = todo \ {f}
  /\ UNCHANGED <<running, woken, pending_requests, submit_wakers, taken, ops>>

\* HostChannel::cancel
cancel(id) ==
  IF ~Occupied(id) THEN UNCHANGED slotVars
  ELSE IF slots[id.idx].result # NoResult THEN free_slot(id)
  ELSE /\ slots' = [slots EXCEPT ![id.idx].cancelled = TRUE]
       /\ UNCHANGED <<generation, nslots, free_slots>>

\* Drop for HostOpFuture: by its own task (select_first, an early return) or,
\* between polls, because the scheduler cancels the task.
Drop(f) ==
  /\ running \in {NoTask, TaskOf[f]}
  /\ fut[f].st # "none"
  /\ IF fut[f].st \in {"submitted", "ready"} THEN cancel(fut[f].id)
                                             ELSE UNCHANGED slotVars
  /\ fut' = [fut EXCEPT ![f] = NoFuture]
  /\ todo' = todo \ {f}
  /\ UNCHANGED <<running, woken, pending_requests, submit_wakers, taken, ops>>

-----------------------------------------------------------------------------
(* The host side, which holds the IDs of the requests it took.             *)

\* take_pending looks the slot up by the request's index alone.
CancelledRequest(r) ==
  slots[r.id.idx] # NoSlot /\ slots[r.id.idx].cancelled

\* The loop of take_pending pops cancelled requests until a live one.
Skipped ==
  {i \in 1 .. Len(pending_requests) :
     \A j \in 1 .. i : CancelledRequest(pending_requests[j])}
Popped == IF Skipped = 1 .. Len(pending_requests)
          THEN Len(pending_requests) ELSE Cardinality(Skipped) + 1
WakersOfPops ==
  {submit_wakers[i] : i \in {i \in 1 .. Len(submit_wakers) : i <= Popped}}
\* Mutant: the slots of skipped requests are not returned to the free list.
FreedIndices_none == <<>>

\* Their own slots: no other operation can have the index of a queued one
\* (QueuedAreLive), so free_slot's generation check passes.
FreedIndices == [i \in 1 .. Cardinality(Skipped) |-> pending_requests[i].id.idx]

\* take_pending: every pop wakes one submitter, a skipped request's slot is
\* freed, and the first live request goes to the host.
TakePending ==
  /\ running = NoTask
  /\ pending_requests # <<>>
  /\ pending_requests' = SubSeq(pending_requests, Popped + 1, Len(pending_requests))
  /\ submit_wakers' = SubSeq(submit_wakers, Popped + 1, Len(submit_wakers))
  /\ Wake(WakersOfPops)
  /\ slots' = [i \in Index |-> IF \E k \in Skipped : pending_requests[k].id.idx = i
                               THEN NoSlot ELSE slots[i]]
  /\ free_slots' = free_slots \o FreedIndices
  /\ taken' = taken \cup (IF Skipped = 1 .. Len(pending_requests) THEN {}
                          ELSE {pending_requests[Popped]})
  /\ UNCHANGED <<fut, pollVars, generation, nslots, ops>>

\* A result for a live slot: stored, and the slot's waker taken and woken.
SetResult(id, result, slot) ==
  /\ slots' = [slots EXCEPT ![id.idx] =
                 [slot EXCEPT !.result = result, !.waker = NoTask]]
  /\ Wake({slot.waker})
  /\ UNCHANGED <<generation, nslots, free_slots>>

\* Mutant: the answer to a cancelled operation is ignored.
Complete_ignores_cancelled(r, data) ==
  /\ running = NoTask
  /\ Occupied(r.id)
  /\ ~slots[r.id.idx].cancelled
  /\ SetResult(r.id, [op |-> r.op, data |-> data], slots[r.id.idx])
  /\ UNCHANGED <<fut, pollVars, pending_requests, submit_wakers, taken, ops>>

\* complete / complete_err for a request the host took, any number of times;
\* it does nothing when the slot was freed or reused.
Complete(r, data) ==
  /\ running = NoTask
  /\ Occupied(r.id)
  /\ LET slot == slots[r.id.idx] IN
       IF slot.cancelled
       THEN free_slot(r.id) /\ UNCHANGED woken
       ELSE SetResult(r.id, [op |-> r.op, data |-> data], slot)
  /\ UNCHANGED <<fut, pollVars, pending_requests, submit_wakers, taken, ops>>

\* Mutant: off by one.
exceeds_limit_late(buffer, n) == buffer + n > BufferLimit + 1

exceeds_limit(buffer, n) == buffer + n > BufferLimit

\* append_chunk: n more units for a request the host took.  A refused chunk
\* ends the operation with an error but leaves the buffer as it is.
AppendChunk(r, n, eof) ==
  /\ running = NoTask
  /\ Occupied(r.id)
  /\ LET slot == slots[r.id.idx]
         full == exceeds_limit(slot.buffer, n) IN
       \/ slot.cancelled /\ free_slot(r.id) /\ UNCHANGED woken
       \/ /\ ~slot.cancelled /\ full
          /\ SetResult(r.id, [op |-> r.op, data |-> "error"],
                       [slot EXCEPT !.overflow = TRUE])
       \/ /\ ~slot.cancelled /\ ~full /\ eof
          /\ SetResult(r.id, [op |-> r.op,
                              data |-> IF slot.overflow THEN "truncated" ELSE "whole"],
                       [slot EXCEPT !.buffer = 0])
       \/ /\ ~slot.cancelled /\ ~full /\ ~eof
          /\ slots' = [slots EXCEPT ![r.id.idx].buffer = @ + n]
          /\ UNCHANGED <<generation, nslots, free_slots, woken>>
  /\ UNCHANGED <<fut, pollVars, pending_requests, submit_wakers, taken, ops>>

\* clear_buffer: drops the chunks received so far.
clear_buffer(r) ==
  /\ running = NoTask
  /\ Occupied(r.id)
  /\ slots' = [slots EXCEPT ![r.id.idx].buffer = 0]
  /\ UNCHANGED <<fut, pollVars, woken, pending_requests, generation, nslots,
                 free_slots, submit_wakers, taken, ops>>

-----------------------------------------------------------------------------
Next ==
  \/ \E t \in Tasks : StartPoll(t)
  \/ EndPoll
  \/ \E f \in Futures : \/ Create(f) \/ PollBlocked(f) \/ PollSubmit(f)
                        \/ PollWait(f) \/ PollReady(f) \/ Drop(f)
  \/ TakePending
  \/ \E r \in taken : \/ \E data \in {"whole", "error"} : Complete(r, data)
                      \/ \E n \in 1 .. BufferLimit + 1, eof \in BOOLEAN :
                           AppendChunk(r, n, eof)
                      \/ clear_buffer(r)

Spec == Init /\ [][Next]_vars

\* The runtime's step loop polls every ready task, a poll is finite, and after it
\* the requests are taken until the queue is empty; the host answers what it
\* took.  Strong fairness, because polls and host calls exclude each other.
Fairness ==
  /\ \A t \in Tasks : SF_vars(t \in woken \cup NoopTasks /\ StartPoll(t))
  /\ []<>(running = NoTask)
  /\ []<>(pending_requests = <<>>)
  /\ \A o \in 1 .. MaxOps :
       SF_vars(\E r \in taken, data \in {"whole", "error"} :
                 r.op = o /\ Complete(r, data))

FairSpec == Spec /\ Fairness

-----------------------------------------------------------------------------
(* Properties.                                                             *)

\* A future only ever receives the answer that was computed for its own
\* operation, although slots are reused and the host may answer late, twice,
\* or after the future was dropped (the generation in HostOpId).
AnswersMatch ==
  \A f \in Futures : fut[f].got # NoResult => fut[f].got.op = fut[f].op

\* The free list holds each empty slot exactly once, whichever of take,
\* completion, chunk, poll and drop freed it: no slot is lost or handed to
\* two operations.
SlotAccounting ==
  /\ \A i, j \in 1 .. Len(free_slots) : free_slots[i] = free_slots[j] => i = j
  /\ \A i \in Index :
       (\E k \in 1 .. Len(free_slots) : free_slots[k] = i)
         <=> (i < nslots /\ slots[i] = NoSlot)

\* A request still in the queue has its slot, untouched: take_pending's look
\* up by index finds the request's own slot and not a successor's.
QueuedAreLive ==
  \A i \in 1 .. Len(pending_requests) :
    LET r == pending_requests[i] IN
      /\ Occupied(r.id)
      /\ slots[r.id.idx].result = NoResult
      /\ slots[r.id.idx].buffer = 0

\* A future that met a full queue is never forgotten: its task waits in
\* submit_wakers, or was woken since, or is polling.
BlockedIsRegistered ==
  \A f \in Futures : fut[f].st = "blocked" =>
    \/ \E i \in 1 .. Len(submit_wakers) : submit_wakers[i] = TaskOf[f]
    \/ TaskOf[f] \in woken \cup NoopTasks
    \/ f \in todo

\* The host takes requests in the order they were submitted, and only while
\* the future that waits for the answer has not been dropped.
TakenInOrderAndWanted ==
  [][\A r \in taken' \ taken :
       /\ \A q \in taken : q.op < r.op
       /\ \E f \in Futures : fut[f].st = "submitted" /\ fut[f].id = r.id]_vars

\* Every submitted operation reaches its future unless that is dropped, and
\* then its slot is freed: when the queue skips it, or when the host answers
\* what it had taken.
OperationsEnd ==
  /\ \A f \in Futures : fut[f].st = "submitted" ~> fut[f].st # "submitted"
  /\ \A i \in Index : (slots[i] # NoSlot /\ slots[i].cancelled)
                          ~> (slots[i] = NoSlot \/ ~slots[i].cancelled)

-----------------------------------------------------------------------------
(* What a comment says of the channel and the code does not do.            *)

\* append_chunk's comment: exceeding the buffer limit completes the operation
\* with an error.  The error is a stored result like any other, the buffer is
\* kept, and a later chunk can replace it by a success without the refused
\* data.
RefusedChunkIsError ==
  \A f \in Futures : fut[f].got # NoResult => fut[f].got.data # "truncated"

\* take_pending's comment: each slot freed in the queue wakes one blocked
\* submitter.  A popped waker can be a second one of a task that no longer
\* waits, or one of a dropped future; nobody else is woken in its place, and a
\* future stays blocked although the queue is empty.
BlockedSubmits == \A f \in Futures : fut[f].st = "blocked" ~> fut[f].st # "blocked"
=============================================================================
