------------------------------- MODULE Runtime -------------------------------
(***************************************************************************)
(* The runtime of the sandbox (crates/amla-sandbox/src/runtime.rs): the    *)
(* host creates commands, steps the runtime, executes the operations that  *)
(* a step returns, submits their results, and steps again.                 *)
(*                                                                         *)
(* A command is a root task and the tasks spawned below it.  Scheduler and *)
(* host channel appear here as the runtime sees them: modules              *)
(* TaskScheduler and HostChannel have their slots, generations and wakers, *)
(* and show that IDs of tasks and operations are never confused; so here   *)
(* a task's number is its own, an operation's is used again only when the  *)
(* channel and the runtime have forgotten it, and the queue is large       *)
(* enough.  In a poll a task may submit operations, drop them, spawn       *)
(* children, wake other tasks, and then wait or end.                       *)
(*                                                                         *)
(* A task may also return Pending because something inside the sandbox has *)
(* its waker: a pipe, a block that another store fetches, a timer, the     *)
(* channel's queue when it is full.  Here such a task may be woken or not; *)
(* that it is when it can go on is what modules Pipe, LazyBlocks and Timer *)
(* show, with the exceptions that a closed pipe wakes no writer, and that  *)
(* an abandoned fetch and the channel's queue can leave a task waiting.    *)
(***************************************************************************)
EXTENDS Integers, Sequences, FiniteSets, SequencesExt

CONSTANTS
  MaxCommands,  \* bound: commands created in a behaviour
  MaxTasks,     \* bound: tasks in a behaviour, one for each command
  MaxOps,       \* bound: operations at a time
  MaxWaits,     \* bound: operations submitted, waits inside and stray wakes together
  MaxSteps      \* MAX_STEPS of one call of step

ASSUME RuntimeBounds ==
  /\ MaxCommands \in Nat \ {0} /\ MaxTasks \in Nat /\ MaxTasks >= MaxCommands
  /\ MaxOps \in Nat
  /\ MaxWaits \in Nat /\ MaxSteps \in Nat \ {0}

None == 0       \* no handle, no task, no operation

VARIABLES
  commands,               \* handle -> {} or the set of its one CommandState
  next_handle,
  tasks, ntasks,          \* the scheduler's tasks
  ready, spawn_queue,     \* its queues
  ops,                    \* the channel's operations
  nwaits,                 \* operations, waits inside and stray wakes so far
  pending_requests,       \* its queue
  stdin_closed_commands,
  pending_stdin_ops,      \* operation -> handle, as a set of pairs
  pc,                     \* "host" between calls, else a place in step
  current,                \* the task being polled
  total_steps, state,     \* step's loop
  status,                 \* the last response's, until the host's next call
  told,                   \* history: CommandExit notifications per handle
  eofs                    \* history: handles whose stdin the host ended

schedulerVars == <<tasks, ntasks, ready, spawn_queue>>
channelVars == <<ops, pending_requests>>
stdinVars == <<stdin_closed_commands, pending_stdin_ops>>
loopVars == <<pc, current, total_steps, state>>
history == <<told, eofs>>
vars == <<commands, next_handle, schedulerVars, channelVars, nwaits, stdinVars,
          loopVars, status, history>>

Handles == 1 .. MaxCommands
Tasks == 1 .. MaxTasks
Ops == 1 .. MaxOps

\* exit_code says whether it is Some; a task_handle is its task.
CommandState == [cancelled : BOOLEAN, exit_code : BOOLEAN,
                 task_handle : Tasks \cup {None}]

\* futures are the operations the task waits for, awaits the child whose handle
\* holds its waker, inside says whether something else in the sandbox does.
Kinds == {"tool", "stdin"}
Task == [st : {"none", "queued", "alive", "gone"}, root : Tasks \cup {None},
         parent : Tasks \cup {None}, futures : SUBSET Ops,
         awaits : Tasks \cup {None}, inside : BOOLEAN]

\* command is what the host was told, if it got the operation.  An operation is
\* over, and not free yet, when its slot is free but the runtime tracks its ID.
Op == [st : {"free", "queued", "sent", "answered", "over"}, kind : Kinds,
       task : Tasks \cup {None}, command : Handles \cup {None}]

TypeOK ==
  /\ commands \in [Handles -> SUBSET CommandState]
  /\ next_handle \in 1 .. MaxCommands + 1
  /\ tasks \in [Tasks -> Task] /\ ntasks \in 0 .. MaxTasks
  /\ ready \in Seq(Tasks) /\ spawn_queue \in Seq(Tasks)
  /\ ops \in [Ops -> Op] /\ nwaits \in 0 .. MaxWaits
  /\ pending_requests \in Seq(Ops)
  /\ stdin_closed_commands \subseteq Handles
  /\ pending_stdin_ops \subseteq Ops \X Handles
  /\ pc \in {"host", "run", "poll", "take", "reap"}
  /\ current \in Tasks \cup {None}
  /\ total_steps \in 0 .. MaxSteps - 1
  /\ state \in {"Progress", "Blocked", "Done"}
  /\ status \in {"none", "Running", "AllBlocked", "AllDone"}
  /\ told \in [Handles -> 0 .. 1]
  /\ eofs \subseteq Handles

NoOp == [st |-> "free", kind |-> "tool", task |-> None, command |-> None]

NoTask == [st |-> "none", root |-> None, parent |-> None, futures |-> {},
           awaits |-> None, inside |-> FALSE]

Init ==
  /\ commands = [h \in Handles |-> {}]
  /\ next_handle = 1
  /\ tasks = [t \in Tasks |-> NoTask] /\ ntasks = 0
  /\ ready = <<>> /\ spawn_queue = <<>>
  /\ ops = [o \in Ops |-> NoOp]
  /\ pending_requests = <<>>
  /\ nwaits = 0
  /\ stdin_closed_commands = {} /\ pending_stdin_ops = {}
  /\ pc = "host" /\ current = None /\ total_steps = 0 /\ state = "Progress"
  /\ status = "none"
  /\ told = [h \in Handles |-> 0] /\ eofs = {}

-----------------------------------------------------------------------------
(* The scheduler and the channel, as far as the runtime relies on them.    *)

Alive(t) == t # None /\ tasks[t].st = "alive"
ActiveTasks(table) == {t \in Tasks : table[t].st = "alive"}

\* The future of the operation has not been dropped.
Wanted(o) == Alive(ops[o].task) /\ o \in tasks[ops[o].task].futures

\* Operations that are over are forgotten, except those that are tracked.
Settled(table, tracked) ==
  [o \in Ops |-> IF table[o].st = "over" /\ \A p \in tracked : p[1] # o
                 THEN NoOp ELSE table[o]]

\* A task and the tasks spawned below it, as long as their chain is there: what
\* every set has that has the task and the children of its members.  A child
\* that is still in the spawn queue is in nobody's list.
Subtree(t) ==
  {s \in {t} \cup ActiveTasks(tasks) :
     \A S \in SUBSET ({t} \cup Tasks) :
       t \in S /\ (\A c \in ActiveTasks(tasks) : tasks[c].parent \in S => c \in S) => s \in S}

\* The elements of s that are in T, in their order.
Filter(s, T) == FlattenSeq([i \in 1 .. Len(s) |-> IF s[i] \in T THEN <<s[i]>> ELSE <<>>])

\* Ended tasks drop their futures.
EndAll(dead) == [t \in Tasks |-> IF t \in dead
                                 THEN [tasks[t] EXCEPT !.st = "gone", !.futures = {},
                                         !.awaits = None, !.inside = FALSE]
                                 ELSE tasks[t]]

\* Mutant: nobody is woken.
WaitersOf_none(dead) == <<>>

\* The tasks whose waker is in the handle of one of `dead`.
WaitersOf(dead) == SetToSeq({t \in ActiveTasks(tasks) : tasks[t].awaits \in dead})

\* Mutant: spawned tasks do not count.
has_ready_tasks_queued == ready # <<>>

has_ready_tasks == ready # <<>> \/ spawn_queue # <<>>

-----------------------------------------------------------------------------
(* The host's calls between two steps.                                     *)

Started(cmd) == cmd.task_handle # None
Over(cmd) == cmd.exit_code \/ cmd.cancelled

create_command ==
  /\ pc = "host"
  /\ next_handle <= MaxCommands
  /\ commands' = [commands EXCEPT ![next_handle] =
       {[cancelled |-> FALSE, exit_code |-> FALSE, task_handle |-> None]}]
  /\ next_handle' = next_handle + 1
  /\ status' = "none"
  /\ UNCHANGED <<schedulerVars, channelVars, nwaits, stdinVars, loopVars, history>>

\* The TaskHandle is dropped, which does not cancel the task.
delete_command(h) ==
  /\ pc = "host"
  /\ commands[h] # {}
  /\ commands' = [commands EXCEPT ![h] = {}]
  /\ status' = "none"
  /\ UNCHANGED <<next_handle, schedulerVars, channelVars, nwaits, stdinVars, loopVars, history>>

\* The command's task and the tasks below it end, with their futures; the
\* CommandExit is returned at once.
cancel_command(h) ==
  /\ pc = "host"
  /\ \E cmd \in commands[h] :
       /\ ~Over(cmd)
       /\ commands' = [commands EXCEPT ![h] =
            {[cancelled |-> TRUE, exit_code |-> TRUE, task_handle |-> None]}]
       /\ LET dead == IF Alive(cmd.task_handle) THEN Subtree(cmd.task_handle) ELSE {} IN
            /\ tasks' = EndAll(dead)
            /\ ready' = IF dead = {} THEN ready
                        ELSE Filter(ready, ActiveTasks(tasks) \ dead)
  /\ stdin_closed_commands' = stdin_closed_commands \ {h}
  /\ pending_stdin_ops' = {p \in pending_stdin_ops : p[2] # h}
  /\ ops' = Settled(ops, pending_stdin_ops')
  /\ told' = [told EXCEPT ![h] = @ + 1]
  /\ status' = "none"
  /\ UNCHANGED <<next_handle, ntasks, spawn_queue, pending_requests, nwaits, loopVars, eofs>>

\* Mutant: the table is searched by handle instead of operation.
StdinOf_by_handle(o) == {p \in pending_stdin_ops : p[2] = o}

StdinOf(o) == {p \in pending_stdin_ops : p[1] = o}

\* submit_results for an operation the host was given: the first result, or
\* one more that still changes something.  A result for a dropped future only
\* frees its slot.  (An error is told from data only for stdin, which it leaves
\* tracked.)
submit_results(o, answer) ==
  LET tracked == StdinOf(o) IN
  /\ pc = "host"
  /\ ops[o].st \in {"sent", "answered"} \/ (ops[o].st = "over" /\ tracked # {})
  /\ ops[o].kind = "tool" => answer = "data"
  /\ stdin_closed_commands' = IF answer = "eof"
       THEN stdin_closed_commands \cup {p[2] : p \in tracked}
       ELSE stdin_closed_commands
  /\ pending_stdin_ops' = IF answer = "error" THEN pending_stdin_ops
                                              ELSE pending_stdin_ops \ tracked
  /\ ops' = Settled([ops EXCEPT ![o].st = IF @ # "sent" THEN @
                       ELSE IF Wanted(o) THEN "answered" ELSE "over"], pending_stdin_ops')
  /\ ready' = IF ops[o].st = "sent" /\ Wanted(o) THEN Append(ready, ops[o].task) ELSE ready
  /\ eofs' = IF answer = "eof" /\ ops[o].st = "sent"
             THEN eofs \cup ({ops[o].command} \ {None}) ELSE eofs
  /\ status' = "none"
  /\ UNCHANGED <<commands, next_handle, tasks, ntasks, spawn_queue, nwaits,
                 pending_requests, loopVars, told>>

-----------------------------------------------------------------------------
(* step, phase 1: a task for every command that has none.                  *)

StepBegin ==
  LET fresh == {h \in Handles : \E cmd \in commands[h] : ~Over(cmd) /\ ~Started(cmd)} IN
  /\ pc = "host"
  /\ \E order \in SetToSeqs(fresh) :      \* the HashMap's
       LET task(h) == ntasks + (CHOOSE i \in 1 .. Len(order) : order[i] = h) IN
       /\ commands' = [h \in Handles |->
            IF h \in fresh THEN {[cmd EXCEPT !.task_handle = task(h)] : cmd \in commands[h]}
                           ELSE commands[h]]
       /\ tasks' = [t \in Tasks |->
            IF t \in ntasks + 1 .. ntasks + Len(order)
            THEN [NoTask EXCEPT !.st = "queued", !.root = t] ELSE tasks[t]]
       /\ ntasks' = ntasks + Len(order)
       /\ spawn_queue' = spawn_queue \o [i \in 1 .. Len(order) |-> ntasks + i]
  /\ pc' = "run"
  /\ status' = "none"
  /\ UNCHANGED <<next_handle, ready, channelVars, nwaits, stdinVars, current, total_steps,
                 state, history>>

-----------------------------------------------------------------------------
(* step, phase 2: Scheduler::run_step, then take_host_op until it is empty. *)

\* process_spawn_queue
Spawned(table) == [t \in Tasks |-> IF table[t].st = "queued"
                                   THEN [table[t] EXCEPT !.st = "alive"] ELSE table[t]]

\* The first task of the ready queue that is still there is polled; the answers
\* it waited for are handed to it.
RunStep ==
  LET queue == ready \o spawn_queue
      present == {i \in 1 .. Len(queue) : tasks[queue[i]].st # "gone"} IN
  /\ pc = "run"
  /\ spawn_queue' = <<>>
  /\ \/ /\ present # {}
        /\ LET i == CHOOSE i \in present : \A j \in present : i <= j
               t == queue[i]
               answered == {o \in tasks[t].futures : ops[o].st = "answered"} IN
             /\ ready' = SubSeq(queue, i + 1, Len(queue))
             /\ current' = t
             /\ tasks' = [Spawned(tasks) EXCEPT ![t].awaits = None, ![t].inside = FALSE,
                            ![t].futures = @ \ answered]
             /\ ops' = Settled([o \in Ops |-> IF o \in answered
                                               THEN [ops[o] EXCEPT !.st = "over"]
                                               ELSE ops[o]], pending_stdin_ops)
        /\ pc' = "poll"
        /\ UNCHANGED state
     \/ /\ present = {}
        /\ ready' = <<>>
        /\ state' = IF ActiveTasks(tasks) = {} THEN "Done" ELSE "Blocked"
        /\ pc' = "take"
        /\ UNCHANGED <<tasks, ops, current>>
  /\ UNCHANGED <<commands, next_handle, ntasks, pending_requests, nwaits, stdinVars,
                 total_steps, status, history>>

\* The poll spawns a child (and goes on).
SpawnChild ==
  /\ pc = "poll"
  /\ Cardinality({t \in Tasks : tasks[t].parent # None}) < MaxTasks - MaxCommands
  /\ ntasks' = ntasks + 1
  /\ tasks' = [tasks EXCEPT ![ntasks + 1] =
       [NoTask EXCEPT !.st = "queued", !.root = tasks[current].root, !.parent = current]]
  /\ spawn_queue' = Append(spawn_queue, ntasks + 1)
  /\ UNCHANGED <<commands, next_handle, ready, channelVars, nwaits, stdinVars, loopVars,
                 status, history>>

\* What t waits for inside the sandbox comes, and wakes it: in a poll (of the
\* pipe's other end, of the store that fetched), by the timers in run_step, by
\* take_pending.
WakeInside(t) ==
  /\ pc \in {"run", "poll", "take"}
  /\ tasks[t].inside
  /\ ready' = Append(ready, t)
  /\ tasks' = [tasks EXCEPT ![t].inside = FALSE]
  /\ UNCHANGED <<commands, next_handle, ntasks, spawn_queue, channelVars, nwaits,
                 stdinVars, loopVars, status, history>>

\* It wakes a task, itself perhaps, that has nothing to go on with: a waker that
\* an earlier wait left behind, whose task may be gone.
StrayWake(t) ==
  /\ pc = "poll"
  /\ tasks[t].st \in {"alive", "gone"}
  /\ nwaits < MaxWaits
  /\ nwaits' = nwaits + 1
  /\ ready' = Append(ready, t)
  /\ UNCHANGED <<commands, next_handle, tasks, ntasks, spawn_queue, channelVars,
                 stdinVars, loopVars, status, history>>

Return(table) ==
  /\ pc' = "take"
  /\ current' = None
  /\ state' = IF ActiveTasks(table) = {} THEN "Done" ELSE "Progress"
  /\ UNCHANGED <<commands, next_handle, ntasks, spawn_queue, stdinVars, total_steps,
                 status, history>>

\* It submits an operation.
SubmitOp(kind) ==
  LET free == {o \in Ops : ops[o].st = "free"}
      o == CHOOSE o \in free : \A p \in free : o <= p IN
  /\ pc = "poll"
  /\ free # {} /\ nwaits < MaxWaits
  /\ nwaits' = nwaits + 1
  /\ ops' = [ops EXCEPT ![o] =
       [st |-> "queued", kind |-> kind, task |-> current, command |-> None]]
  /\ pending_requests' = Append(pending_requests, o)
  /\ tasks' = [tasks EXCEPT ![current].futures = @ \cup {o}]
  /\ UNCHANGED <<commands, next_handle, ntasks, ready, spawn_queue, stdinVars,
                 loopVars, status, history>>

\* Pending, with its waker at some of its operations, at a child, or somewhere
\* inside the sandbox, or as it is in the ready queue anyway: it drops its other
\* operations (the losers of a select, a pipeline that was abandoned).
ReturnPending(kept, c, inside) ==
  /\ pc = "poll"
  /\ kept \subseteq tasks[current].futures
  /\ c # None => tasks[c].parent = current /\ tasks[c].st \in {"queued", "alive"}
  /\ \/ kept # {} \/ c # None \/ inside
     \/ \E i \in 1 .. Len(ready) : ready[i] = current
  /\ nwaits' = IF inside THEN nwaits + 1 ELSE nwaits
  /\ nwaits' <= MaxWaits
  /\ tasks' = [tasks EXCEPT ![current].futures = kept, ![current].awaits = c,
                            ![current].inside = inside]
  /\ UNCHANGED <<ready, channelVars>>
  /\ Return(tasks')

\* Ready: the children end with their parent, and whoever waits is woken.
End ==
  LET dead == Subtree(current) IN
  /\ pc = "poll"
  /\ tasks' = EndAll(dead)
  /\ ready' = ready \o WaitersOf(dead)
  /\ UNCHANGED <<channelVars, nwaits>>
  /\ Return(tasks')

\* The command an operation belongs to: the one whose task handle is the root
\* of the task that submitted it.
CommandOf(o) ==
  LET root == tasks[ops[o].task].root
      owners == {h \in Handles : \E cmd \in commands[h] : Started(cmd) /\ cmd.task_handle = root} IN
    IF owners = {} THEN None ELSE CHOOSE h \in owners : TRUE

\* One take_pending and what step does with the request: an unwanted request is
\* skipped; a read of a closed stdin is answered here and now; anything else
\* goes to the host.  (convert_host_op has a request for every kind, so that the
\* branch for None, which answers with no data, is never taken.)
TakeHostOp ==
  LET o == Head(pending_requests)
      h == CommandOf(o)
      stdin == ops[o].kind = "stdin" /\ h # None IN
  /\ pc = "take"
  /\ pending_requests # <<>>
  /\ pending_requests' = Tail(pending_requests)
  /\ \/ /\ ~Wanted(o)
        /\ ops' = [ops EXCEPT ![o] = NoOp]
        /\ UNCHANGED <<ready, pending_stdin_ops>>
     \/ /\ Wanted(o) /\ stdin /\ h \in stdin_closed_commands
        /\ ops' = [ops EXCEPT ![o].st = "answered"]
        /\ ready' = Append(ready, ops[o].task)
        /\ UNCHANGED pending_stdin_ops
     \/ /\ Wanted(o) /\ ~(stdin /\ h \in stdin_closed_commands)
        /\ ops' = [ops EXCEPT ![o] =
             [st |-> "sent", kind |-> ops[o].kind, task |-> ops[o].task, command |-> h]]
        /\ UNCHANGED ready
        /\ pending_stdin_ops' = pending_stdin_ops \cup (IF stdin THEN {<<o, h>>} ELSE {})
  /\ UNCHANGED <<commands, next_handle, tasks, ntasks, spawn_queue, nwaits,
                 stdin_closed_commands, loopVars, status, history>>

StepLimitReached == total_steps + 1 >= MaxSteps

\* The loop goes on unless the scheduler was blocked or done, or for too long.
TakeDone ==
  /\ pc = "take"
  /\ pending_requests = <<>>
  /\ IF state \in {"Blocked", "Done"} \/ StepLimitReached
     THEN pc' = "reap" /\ UNCHANGED total_steps
     ELSE pc' = "run" /\ total_steps' = total_steps + 1
  /\ UNCHANGED <<commands, next_handle, schedulerVars, channelVars, nwaits, stdinVars,
                 current, state, status, history>>

-----------------------------------------------------------------------------
(* step, phase 3: commands whose task has ended exit; then the response.   *)

\* Mutant: a command that is over keeps its task handle.
Exited_keeps_handle(cmd) == [cmd EXCEPT !.exit_code = TRUE]

Exited(cmd) == [cancelled |-> cmd.cancelled, exit_code |-> TRUE, task_handle |-> None]

Finished(h) == {cmd \in commands[h] : ~Over(cmd) /\ Started(cmd)
                                      /\ tasks[cmd.task_handle].st = "gone"}

\* command_status and collect_response: the commands that are not over are
\* running as long as the scheduler has anything in its queues.
collect_response(cmds) ==
  LET unfinished == UNION {{cmd \in cmds[h] : ~Over(cmd)} : h \in Handles} IN
    IF unfinished = {} THEN "AllDone"
    ELSE IF has_ready_tasks \/ \E cmd \in unfinished : ~Started(cmd) THEN "Running"
    ELSE "AllBlocked"

Reap ==
  /\ pc = "reap"
  /\ commands' = [h \in Handles |->
       IF Finished(h) = {} THEN commands[h] ELSE {Exited(cmd) : cmd \in commands[h]}]
  /\ told' = [h \in Handles |-> told[h] + Cardinality(Finished(h))]
  /\ status' = collect_response(commands')
  /\ pc' = "host" /\ total_steps' = 0 /\ state' = "Progress"
  /\ UNCHANGED <<next_handle, schedulerVars, channelVars, nwaits, stdinVars, current, eofs>>

-----------------------------------------------------------------------------
Step == \/ RunStep \/ SpawnChild \/ End
        \/ \E kind \in Kinds : SubmitOp(kind)
        \/ \E t \in Tasks : WakeInside(t) \/ StrayWake(t)
        \/ \E kept \in SUBSET Ops, c \in Tasks \cup {None}, inside \in BOOLEAN :
             ReturnPending(kept, c, inside)
        \/ TakeHostOp \/ TakeDone \/ Reap

Next ==
  \/ create_command
  \/ \E h \in Handles : delete_command(h) \/ cancel_command(h)
  \/ \E o \in Ops, answer \in {"data", "eof", "error"} : submit_results(o, answer)
  \/ StepBegin
  \/ Step

Spec == Init /\ [][Next]_vars

\* A call of step returns (its polls and loops are finite, so that it is enough
\* that it does not stop half-way), the host steps again and again, and it
\* answers every operation it was given.
Fairness ==
  /\ []<>(pc = "host")
  /\ []<><<StepBegin>>_vars
  /\ SF_vars(\E o \in Ops : ops[o].st = "sent" /\ submit_results(o, "data"))

FairSpec == Spec /\ Fairness

-----------------------------------------------------------------------------
(* Properties.                                                             *)

\* CommandExit is the last the host hears of a command, and it hears it once:
\* whatever a cancellation, an exit and tasks that outlive their root (orphans
\* of the spawn queue) do, no operation is attributed to the command later.
ExitIsLast ==
  [][\A h \in Handles : told[h] = 1 =>
       /\ told'[h] = 1
       /\ \A o \in Ops : ops[o].st = "queued" /\ ops'[o].st = "sent"
                           => ops'[o].command # h]_vars

\* Once the host has said that a command's stdin has ended it is not asked for
\* more, although reads may overlap, be dropped, and be answered twice.
EofIsFinal ==
  [][\A o \in Ops :
       ops[o].st = "queued" /\ ops'[o].st = "sent" /\ ops'[o].kind = "stdin"
         => ops'[o].command \notin eofs]_vars

\* The status is what the host acts on.  AllDone: every command has reported
\* its exit.  AllBlocked: no task was woken that has not been polled since, by
\* an answer, by the end of a child, or from inside the sandbox; every task waits,
\* and some task for something other than a child.
StatusIsTrue ==
  /\ status = "AllDone" =>
       \A h \in Handles : commands[h] # {} => told[h] = 1
  /\ status = "AllBlocked" =>
       /\ \A t \in ActiveTasks(tasks) :
            /\ \A o \in tasks[t].futures : ops[o].st = "sent"
            /\ tasks[t].awaits # None => Alive(tasks[t].awaits)
            /\ tasks[t].futures # {} \/ tasks[t].inside \/ tasks[t].awaits # None
       /\ \E t \in ActiveTasks(tasks) : tasks[t].futures # {} \/ tasks[t].inside

\* Under a host that steps and answers, every command that was created exits,
\* is cancelled or is deleted, unless from some time on one of its tasks waits
\* for something inside the sandbox that does not wake it.
CommandsEnd ==
  \A h \in Handles :
    \/ commands[h] # {} ~> (commands[h] = {} \/ told[h] = 1)
    \/ <>[](\E cmd \in commands[h], t \in ActiveTasks(tasks) :
               tasks[t].root = cmd.task_handle /\ tasks[t].inside)

\* "Command is blocked waiting for host operation results" (CommandStatus): then
\* the host has an operation.  Commands also wait for each other's pipes, and when
\* those that do have nobody left to wait for, it has none.
BlockedOnHost == status = "AllBlocked" => \E o \in Ops : ops[o].st = "sent"
=============================================================================
