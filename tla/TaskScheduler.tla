---------------------------- MODULE TaskScheduler ----------------------------
(***************************************************************************)
(* The task scheduler (crates/amla-sandbox-scheduler/src/scheduler.rs):    *)
(* task slots with generations, the spawn queue, the ready queue, and the  *)
(* tree of tasks in which the end of a parent cancels its children.        *)
(*                                                                         *)
(* One run_step is ProcessSpawnQueue, PollReadyTask and, when a task was   *)
(* found, the calls its poll makes up to ReturnPending or ReturnReady.     *)
(* Everything a task's future contains is abstracted to those calls.       *)
(*                                                                         *)
(* Not represented: a nested run() inside a poll, and a task cancelling    *)
(* itself or an ancestor (see README).                                     *)
(***************************************************************************)
EXTENDS Integers, Sequences, FiniteSets, SequencesExt

CONSTANTS
  MaxTasks,   \* bound: tasks spawned in a behaviour
  MaxReady,   \* bound: length of the ready queue at which wakers stop waking
  NoTask,     \* None, for an Option<TaskId>
  NoWaker     \* None, for an Option<Waker>

ASSUME TaskBounds == MaxTasks \in Nat \ {0} /\ MaxReady \in Nat

VARIABLES
  tasks,        \* slot -> NoTask or the task's record
  generations,  \* slot -> generation
  nslots,       \* tasks.len()
  free_slots,   \* stack of free slots
  ready,        \* ready_queue: slots (WakerTaskId carries no generation)
  spawn_queue,  \* spawn requests
  active_count,
  handles,      \* handle -> TaskSlot (shared by the scheduler and a TaskHandle)
  spawned,      \* number of spawn() calls
  pc,           \* where run_step is: "idle", "pick" or "poll"
  current,      \* current_task
  returned      \* what run_step returned, if it was the last call

vars == <<tasks, generations, nslots, free_slots, ready, spawn_queue,
          active_count, handles, spawned, pc, current, returned>>

tables == <<tasks, generations, nslots, free_slots, active_count>>

Slots == 0 .. MaxTasks - 1
Handles == 1 .. MaxTasks
TaskId == [slot : Slots, generation : 0 .. MaxTasks]
Task == [h : Handles, parent : TaskId \cup {NoTask}, root : TaskId,
         children : Seq(TaskId)]

\* None is not the value of any Some: no task, no ID, no slot.
ASSUME NoneAssumption == NoTask \notin Task \cup TaskId /\ NoWaker \notin Slots

SpawnRequest == [h : Handles, parent : TaskId \cup {NoTask},
                 root : TaskId \cup {NoTask}]

\* task_id and the two fields of TaskSlot; owner is the task that spawned it
\* and holds the handle; awaited (history) says that the owner's last poll
\* left a waker in it.
TaskSlot == [id : TaskId \cup {NoTask}, owner : TaskId \cup {NoTask},
             result : {"none", "exit", "cancelled", "taken"},
             waker : Slots \cup {NoWaker}, awaited : BOOLEAN]

\* active_count counts the occupied slots, and the free list holds each empty
\* slot once, after any mix of completions and nested cancellations.
SlotAccounting ==
  /\ active_count = Cardinality({s \in Slots : tasks[s] # NoTask})
  /\ IsInjective(free_slots)
  /\ \A s \in Slots : s \in Range(free_slots) <=> (s < nslots /\ tasks[s] = NoTask)

\* The types of the variables, and the table's bookkeeping.
TypeOK ==
  /\ SlotAccounting
  /\ DOMAIN tasks = Slots
  /\ \A s \in Slots : tasks[s] = NoTask \/ tasks[s] \in Task
  /\ generations \in [Slots -> 0 .. MaxTasks]
  /\ nslots \in 0 .. MaxTasks
  /\ free_slots \in Seq(Slots)
  /\ ready \in Seq(Slots)
  /\ spawn_queue \in Seq(SpawnRequest)
  /\ active_count \in 0 .. MaxTasks
  /\ handles \in [Handles -> TaskSlot]
  /\ spawned \in 0 .. MaxTasks
  /\ pc \in {"idle", "pick", "poll"}
  /\ current \in TaskId \cup {NoTask}
  /\ returned \in {"none", "Done", "Blocked", "Progress"}

NewHandle(owner) == [id |-> NoTask, owner |-> owner, result |-> "none",
                     waker |-> NoWaker, awaited |-> FALSE]

Init ==
  /\ tasks = [s \in Slots |-> NoTask]
  /\ generations = [s \in Slots |-> 0]
  /\ nslots = 0
  /\ free_slots = <<>>
  /\ ready = <<>>
  /\ spawn_queue = <<>>
  /\ active_count = 0
  /\ handles = [h \in Handles |-> NewHandle(NoTask)]
  /\ spawned = 0
  /\ pc = "idle"
  /\ current = NoTask
  /\ returned = "none"

-----------------------------------------------------------------------------
Occupied(s) == s < nslots /\ tasks[s] # NoTask

\* The ID names the task in the slot, not a predecessor of it.
Present(id) ==
  id # NoTask /\ Occupied(id.slot) /\ generations[id.slot] = id.generation

TaskOf(id) == tasks[id.slot]

\* The elements of s that are in T, in their order.
Filter(s, T) == FlattenSeq([i \in 1 .. Len(s) |-> IF s[i] \in T THEN <<s[i]>> ELSE <<>>])

-----------------------------------------------------------------------------
(* spawn and process_spawn_queue                                           *)

\* Scheduler::spawn, from outside (current_task is None) or from the task
\* being polled, whose child the new task becomes and whose root it inherits.
Spawn ==
  /\ pc \in {"idle", "poll"}
  /\ spawned < MaxTasks
  /\ spawned' = spawned + 1
  /\ spawn_queue' = Append(spawn_queue,
       [h |-> spawned + 1, parent |-> current,
        root |-> IF current = NoTask THEN NoTask ELSE TaskOf(current).root])
  /\ handles' = [handles EXCEPT ![spawned + 1] = NewHandle(current)]
  /\ returned' = "none"
  /\ UNCHANGED <<tables, ready, pc, current>>

\* The slot the k-th request gets: the free list from its top, then new ones.
SlotFor(k) == IF k <= Len(free_slots) THEN free_slots[Len(free_slots) - k + 1]
                                      ELSE nslots + k - Len(free_slots) - 1
\* Mutant: a reused slot keeps its generation.
IdFor_same_generation(k) ==
  [slot |-> SlotFor(k),
   generation |-> IF k <= Len(free_slots) THEN generations[SlotFor(k)] ELSE 0]

IdFor(k) == [slot |-> SlotFor(k),
             generation |-> IF k <= Len(free_slots)
                            THEN generations[SlotFor(k)] + 1 ELSE 0]

TaskFor(k) ==
  LET request == spawn_queue[k] IN
    [h |-> request.h, parent |-> request.parent,
     root |-> IF request.root = NoTask THEN IdFor(k) ELSE request.root,
     children |-> <<>>]

\* The requests whose parent is the task in slot s: if it is still there.
ChildrenFor(s) ==
  Filter([k \in 1 .. Len(spawn_queue) |-> k],
         {k \in 1 .. Len(spawn_queue) : /\ Present(spawn_queue[k].parent)
                                        /\ spawn_queue[k].parent.slot = s})

\* process_spawn_queue: every request gets a slot, is added to its parent's
\* children unless the parent has gone, is counted, and becomes ready.
ProcessSpawnQueue ==
  LET n == Len(spawn_queue)
      reused == IF n <= Len(free_slots) THEN n ELSE Len(free_slots) IN
  /\ pc = "idle"
  /\ pc' = "pick"
  /\ returned' = "none"
  /\ tasks' = [s \in Slots |->
       IF \E k \in 1 .. n : SlotFor(k) = s
       THEN TaskFor(CHOOSE k \in 1 .. n : SlotFor(k) = s)
       ELSE IF tasks[s] = NoTask THEN NoTask
       ELSE [tasks[s] EXCEPT !.children =
               @ \o [i \in 1 .. Len(ChildrenFor(s)) |-> IdFor(ChildrenFor(s)[i])]]]
  /\ generations' = [s \in Slots |->
       IF \E k \in 1 .. n : SlotFor(k) = s
       THEN IdFor(CHOOSE k \in 1 .. n : SlotFor(k) = s).generation
       ELSE generations[s]]
  /\ nslots' = nslots + n - reused
  /\ free_slots' = SubSeq(free_slots, 1, Len(free_slots) - reused)
  /\ active_count' = active_count + n
  /\ ready' = ready \o [k \in 1 .. n |-> SlotFor(k)]
  /\ handles' = [h \in Handles |->
       IF \E k \in 1 .. n : spawn_queue[k].h = h
       THEN [handles[h] EXCEPT !.id = IdFor(CHOOSE k \in 1 .. n : spawn_queue[k].h = h)]
       ELSE handles[h]]
  /\ spawn_queue' = <<>>
  /\ UNCHANGED <<spawned, current>>

-----------------------------------------------------------------------------
(* Cancelling a subtree.                                                   *)

\* The tasks cancel_task_internal drops, in its order: children before their
\* parent.  A child ID whose slot was freed or reused is skipped.
PostOrder[depth \in 0 .. MaxTasks] ==
  [id \in TaskId |->
     IF ~Present(id) \/ depth = 0 THEN <<>>
     ELSE Append(FlattenSeq([i \in 1 .. Len(TaskOf(id).children) |->
                               PostOrder[depth - 1][TaskOf(id).children[i]]]),
                 id)]

Descendants(id) == PostOrder[MaxTasks][id]

\* Mutant: the children of a finished task stay.
ChildrenOfTask_none(id) == <<>>

ChildrenOfTask(id) ==
  FlattenSeq([i \in 1 .. Len(TaskOf(id).children) |-> Descendants(TaskOf(id).children[i])])

\* Mutant: the parent's list keeps the dead child.
Unlink_slots_only(id, dead) ==
  [s \in Slots |->
     IF \E i \in 1 .. Len(dead) : dead[i].slot = s THEN NoTask ELSE tasks[s]]

\* Remove `id` from its parent's list and empty the slots of the tasks `dead`.
Unlink(id, dead) ==
  [s \in Slots |->
     IF \E i \in 1 .. Len(dead) : dead[i].slot = s THEN NoTask
     ELSE IF Present(TaskOf(id).parent) /\ s = TaskOf(id).parent.slot
     THEN [tasks[s] EXCEPT !.children = Filter(@, Range(@) \ {id})]
     ELSE tasks[s]]

\* Mutant: nobody is woken.
WaitersOf_none(dead) == <<>>

\* The slots woken when `dead` end: the waiter of each that has one, in order.
WaitersOf(dead) ==
  Filter([i \in 1 .. Len(dead) |-> handles[TaskOf(dead[i]).h].waker], Slots)

\* Mutant: descendants get no result.
Finish_last_only(dead, result) ==
  LET own == TaskOf(dead[Len(dead)]).h IN
    [handles EXCEPT ![own].waker = NoWaker, ![own].result = result[own]]

\* Every dead task gets a result, unless it has one, and gives up its waker.
Finish(dead, result) ==
  [h \in Handles |->
     IF \E i \in 1 .. Len(dead) : TaskOf(dead[i]).h = h
     THEN [handles[h] EXCEPT !.waker = NoWaker,
             !.result = IF handles[h].result = "none" THEN result[h] ELSE @]
     ELSE handles[h]]

\* Mutant: descendants are not counted.
Bury_counts_one(dead) ==
  /\ free_slots' = free_slots \o [i \in 1 .. Len(dead) |-> dead[i].slot]
  /\ active_count' = active_count - 1
  /\ UNCHANGED <<generations, nslots>>

Bury(dead) ==
  /\ free_slots' = free_slots \o [i \in 1 .. Len(dead) |-> dead[i].slot]
  /\ active_count' = active_count - Len(dead)
  /\ UNCHANGED <<generations, nslots>>

\* Mutant: the ready queue is emptied.
Retain_nothing(queue, table) == <<>>

\* The ready queue keeps the slots that are occupied.
Retain(queue, table) == Filter(queue, {s \in Slots : table[s] # NoTask})

\* TaskHandle::cancel / cancel_task, by the host (cancel_command) or by the
\* task being polled (the shell's kill), which is not in the subtree.  A handle
\* whose task is still in the spawn queue has no ID, and nothing happens.
CancelTask(h) ==
  LET id == handles[h].id
      dead == Descendants(id) IN
  /\ pc \in {"idle", "poll"}
  /\ Present(id)
  /\ \A i \in 1 .. Len(dead) : dead[i] # current
  /\ tasks' = Unlink(id, dead)
  /\ Bury(dead)
  /\ handles' = Finish(dead, [x \in Handles |-> "cancelled"])
  /\ ready' = Retain(ready \o WaitersOf(dead), tasks')
  /\ returned' = "none"
  /\ UNCHANGED <<spawn_queue, spawned, pc, current>>

-----------------------------------------------------------------------------
(* Polling.                                                                *)

FirstOccupied == {i \in 1 .. Len(ready) :
                    /\ Occupied(ready[i])
                    /\ \A j \in 1 .. i - 1 : ~Occupied(ready[j])}

\* poll_ready_tasks finds a task: entries of empty slots are dropped, and the
\* slot's present occupant is polled, whoever the waker was made for.
PollReadyTask ==
  /\ pc = "pick"
  /\ \E i \in FirstOccupied :
       LET id == [slot |-> ready[i], generation |-> generations[ready[i]]] IN
       /\ ready' = SubSeq(ready, i + 1, Len(ready))
       /\ current' = id
       /\ handles' = [h \in Handles |-> IF handles[h].owner = id
                                        THEN [handles[h] EXCEPT !.awaited = FALSE]
                                        ELSE handles[h]]
  /\ pc' = "poll"
  /\ UNCHANGED <<tables, spawn_queue, spawned, returned>>

\* poll_ready_tasks finds none; run_step returns Done or Blocked.
NothingReady ==
  /\ pc = "pick"
  /\ FirstOccupied = {}
  /\ ready' = <<>>
  /\ returned' = IF active_count = 0 THEN "Done" ELSE "Blocked"
  /\ pc' = "idle"
  /\ UNCHANGED <<tables, spawn_queue, handles, spawned, current>>

\* TaskHandle::poll by its owner, and select_first and join_all on handles.
Await(h) ==
  /\ pc = "poll"
  /\ handles[h].owner = current
  /\ \/ /\ handles[h].result \in {"exit", "cancelled"}
        /\ handles' = [handles EXCEPT ![h].result = "taken"]
     \/ /\ handles[h].result = "none"
        /\ handles' = [handles EXCEPT ![h].waker = current.slot, ![h].awaited = TRUE]
  /\ UNCHANGED <<tables, ready, spawn_queue, spawned, pc, current, returned>>

\* TaskHandle::try_get by the host, for a root task.
TryGet(h) ==
  /\ pc = "idle"
  /\ handles[h].owner = NoTask
  /\ handles[h].result \in {"exit", "cancelled"}
  /\ handles' = [handles EXCEPT ![h].result = "taken"]
  /\ returned' = "none"
  /\ UNCHANGED <<tables, ready, spawn_queue, spawned, pc, current>>

\* Any waker kept by a host operation, a timer, a pipe: a slot, perhaps of a
\* task that is gone.
Wake(s) ==
  /\ pc \in {"idle", "poll"}
  /\ s < nslots
  /\ Len(ready) < MaxReady
  /\ ready' = Append(ready, s)
  /\ returned' = "none"
  /\ UNCHANGED <<tables, spawn_queue, handles, spawned, pc, current>>

\* Poll::Pending.
ReturnPending ==
  /\ pc = "poll"
  /\ pc' = "idle"
  /\ current' = NoTask
  /\ returned' = "Progress"
  /\ UNCHANGED <<tables, ready, spawn_queue, handles, spawned>>

\* Poll::Ready: the result is stored, the children are cancelled, the task
\* leaves its parent's list and its slot, and its waiter is woken last.
ReturnReady ==
  LET dead == Append(ChildrenOfTask(current), current)
      own == TaskOf(current).h IN
  /\ pc = "poll"
  /\ pc' = "idle"
  /\ tasks' = Unlink(current, dead)
  /\ Bury(dead)
  /\ handles' = Finish(dead, [h \in Handles |-> IF h = own THEN "exit" ELSE "cancelled"])
  /\ ready' = ready \o WaitersOf(dead)
  /\ current' = NoTask
  /\ returned' = IF active_count - Len(dead) = 0 THEN "Done" ELSE "Progress"
  /\ UNCHANGED <<spawn_queue, spawned>>

Next ==
  \/ Spawn \/ ProcessSpawnQueue \/ PollReadyTask \/ NothingReady
  \/ \E h \in Handles : CancelTask(h) \/ Await(h) \/ TryGet(h)
  \/ \E s \in Slots : Wake(s)
  \/ ReturnPending \/ ReturnReady

Spec == Init /\ [][Next]_vars

\* The runtime calls run_step again and again, and every poll returns.
Fairness ==
  /\ WF_vars(ProcessSpawnQueue)
  /\ WF_vars(PollReadyTask)
  /\ WF_vars(NothingReady)
  /\ WF_vars(ReturnPending \/ ReturnReady)

FairSpec == Spec /\ Fairness

-----------------------------------------------------------------------------
(* Properties.                                                             *)

Tasks == {id \in TaskId : Present(id)}

\* The walk up the spawn chain, to the task that has no parent.
Top[depth \in 0 .. MaxTasks] ==
  [id \in TaskId |->
     IF ~Present(id) \/ depth = 0 THEN NoTask
     ELSE IF TaskOf(id).parent = NoTask THEN id
     ELSE Top[depth - 1][TaskOf(id).parent]]

root_task == Top[MaxTasks]

\* The tree is consistent: a task's children are present and name it as their
\* parent, each is listed once, and a present parent lists all its children;
\* the root stored when a task was spawned, to which its host operations are
\* attributed, is the top of its chain as long as that chain exists, and no
\* orphan becomes a root when ancestors are gone and their slots reused.
TreeConsistent ==
  \A id \in Tasks :
    LET children == TaskOf(id).children IN
    /\ IsInjective(children)
    /\ Range(children) = {c \in Tasks : TaskOf(c).parent = id}
    /\ root_task[id] \in {NoTask, TaskOf(id).root}
    /\ TaskOf(id).parent = NoTask <=> TaskOf(id).root = id

\* A handle has its result exactly when its task is gone, even when the task
\* was cancelled as a descendant or while completing.
ResultIffGone ==
  \A h \in 1 .. spawned : handles[h].id # NoTask =>
    (Present(handles[h].id) <=> handles[h].result = "none")

\* The end of an awaited task is never lost: as long as its result is not
\* there the handle holds the waiter's waker, and then the waiter is ready.
WaiterIsWoken ==
  \A h \in 1 .. spawned :
    (handles[h].awaited /\ Present(handles[h].owner)) =>
      \/ handles[h].result = "none" /\ handles[h].waker = handles[h].owner.slot
      \/ handles[h].owner.slot \in Range(ready)
      \/ handles[h].result = "taken"

\* Structured concurrency, once a task is in its parent's list: no step ends
\* the parent and leaves the child.
NoChildOutlivesParent ==
  [][\A id \in Tasks :
       Present(id)' /\ Present(TaskOf(id).parent) => Present(TaskOf(id).parent)']_vars

\* A wake of a present task leads to a poll of it (or its end): no entry of
\* the ready queue is lost when cancel_task filters the queue.
WokenIsPolled ==
  \A s \in Slots :
    (s \in Range(ready) /\ Occupied(s))
      ~> ((current # NoTask /\ current.slot = s) \/ ~Occupied(s))
=============================================================================
