--------------------------- MODULE RuntimeProofs ---------------------------
(***************************************************************************)
(* What the host is told and asked, for any number of commands, tasks and  *)
(* operations: CommandExit is the last word on a command, a stdin that has *)
(* ended is not read again, and the status of a step is true.  And of the  *)
(* ring of bytes into which the runtime writes its audit log, for any      *)
(* capacity: it is a log that loses only its oldest lines, and its host    *)
(* gets whole ones.                                                        *)
(***************************************************************************)
EXTENDS Runtime, AuditBuffer, FiniteSetTheorems, NaturalsInduction, WellFoundedInduction, TLAPS

-----------------------------------------------------------------------------
(* A command that is over has no task handle, so that no operation can be  *)
(* attributed to it any more.                                              *)
Retired(h) == \A cmd \in commands[h] : Over(cmd) /\ ~Started(cmd)

(* The fields that EXCEPT relies on.  Nothing more is needed of the types. *)
CommandShape(cmd) ==
    cmd = [cancelled |-> cmd.cancelled, exit_code |-> cmd.exit_code,
           task_handle |-> cmd.task_handle]
OpShape(op) ==
    /\ op = [st |-> op.st, kind |-> op.kind, task |-> op.task, command |-> op.command]
    /\ op.kind \in Kinds
OpTable(table) ==
    table = [o \in Ops |-> table[o]] /\ \A o \in Ops : OpShape(table[o])

Shapes ==
    /\ commands = [h \in Handles |-> commands[h]]
    /\ \A h \in Handles : \A cmd \in commands[h] : CommandShape(cmd)
    /\ OpTable(ops)
    /\ told = [h \in Handles |-> told[h]]
    /\ next_handle \in Nat \ {0}

(* A handle that was not given out yet has left no trace.                  *)
FreshHandles ==
    \A h \in Handles : h >= next_handle => commands[h] = {} /\ told[h] = 0 /\ h \notin eofs

(* An end of stdin is remembered as long as the command may read.          *)
ClosedOrRetired ==
    /\ eofs \subseteq Handles
    /\ \A h \in eofs : h \in stdin_closed_commands \/ Retired(h)

(* A read that the host has is tracked as long as its command may read.    *)
Attributed(o) ==
    LET h == ops[o].command IN
    h # None => /\ h \in Handles /\ h < next_handle
                /\ ops[o].kind = "stdin" => <<o, h>> \in pending_stdin_ops \/ Retired(h)

Inv ==
    /\ Shapes
    /\ FreshHandles
    /\ \A h \in Handles : told[h] # 0 => Retired(h)
    /\ ClosedOrRetired
    /\ \A o \in Ops : ops[o].st = "sent" => Attributed(o)

-----------------------------------------------------------------------------
(* A wake concerns the ready queue and whether the task still waits.       *)
LEMMA WakesKeep ==
    ASSUME NEW t, WakeInside(t) \/ StrayWake(t)
    PROVE  /\ UNCHANGED <<commands, next_handle, ntasks, spawn_queue>>
           /\ UNCHANGED <<ops, pending_requests, stdin_closed_commands>>
           /\ UNCHANGED <<pending_stdin_ops, pc, current, total_steps>>
           /\ UNCHANGED <<state, status, told, eofs>>
  BY DEF WakeInside, StrayWake, schedulerVars, channelVars, stdinVars, loopVars, history

LEMMA SettledKeepsSent ==
    ASSUME NEW table, OpTable(table), NEW tracked
    PROVE  /\ OpTable(Settled(table, tracked))
           /\ \A o \in Ops : Settled(table, tracked)[o].st = "sent"
                => Settled(table, tracked)[o] = table[o]
  BY DEF OpTable, OpShape, Settled, NoOp, Kinds

LEMMA RetiredStays ==
    ASSUME Inv, [Next]_vars, NEW h \in Handles, h < next_handle, Retired(h)
    PROVE  Retired(h)'
<1> USE DEF Retired, Over, Started, None
<1>1. CASE create_command
  <2>1. h # next_handle
    BY DEF Inv, Shapes, Handles
  <2> QED BY <1>1, <2>1 DEF create_command, Inv, Shapes
<1>2. CASE \E g \in Handles : delete_command(g)
  BY <1>2 DEF delete_command, Inv, Shapes
<1>3. CASE \E g \in Handles : cancel_command(g)
  BY <1>3 DEF cancel_command, Inv, Shapes
<1>4. CASE StepBegin
  <2>1. commands'[h] = commands[h]
    BY <1>4 DEF StepBegin
  <2> QED BY <2>1
<1>5. CASE Reap
  <2>1. Finished(h) = {}
    BY DEF Finished
  <2>2. commands'[h] = commands[h]
    BY <1>5, <2>1 DEF Reap
  <2> QED BY <2>2
<1>6. CASE UNCHANGED commands
  BY <1>6
<1> QED
  <2>1. [Next]_vars => \/ create_command \/ \E g \in Handles : delete_command(g) \/ cancel_command(g)
                       \/ StepBegin \/ Reap \/ UNCHANGED commands
    BY WakesKeep DEF Next, Step, vars, submit_results, RunStep, SpawnChild, End, SubmitOp,
           ReturnPending, Return, TakeHostOp, TakeDone
  <2> QED BY <2>1, <1>1, <1>2, <1>3, <1>4, <1>5, <1>6

(* An operation is attributed to a command with a task handle, which no    *)
(* retired command has.                                                    *)
LEMMA OwnerIsNotRetired ==
    ASSUME Inv, NEW o, CommandOf(o) # None
    PROVE  /\ CommandOf(o) \in Handles
           /\ CommandOf(o) < next_handle
           /\ ~Retired(CommandOf(o))
<1> DEFINE root == tasks[ops[o].task].root
           owners == {h \in Handles : \E cmd \in commands[h] : Started(cmd) /\ cmd.task_handle = root}
<1>1. owners # {} /\ CommandOf(o) = CHOOSE h \in owners : TRUE
  BY DEF CommandOf, None
<1>2. CommandOf(o) \in owners
  BY <1>1
<1>3. CommandOf(o) \in Handles /\ \E cmd \in commands[CommandOf(o)] : Started(cmd)
  BY <1>2
<1>4. CommandOf(o) < next_handle
  <2> DEFINE h == CommandOf(o)
  <2>1. h \in Handles /\ commands[h] # {}
    BY <1>3
  <2>2. ~(h >= next_handle)
    BY <2>1 DEF Inv, FreshHandles
  <2>3. h \in Int /\ next_handle \in Int
    BY <2>1 DEF Inv, Shapes, Handles
  <2> QED BY <2>2, <2>3
<1>5. ~Retired(CommandOf(o))
  BY <1>3 DEF Retired
<1> QED BY <1>3, <1>4, <1>5

-----------------------------------------------------------------------------
LEMMA InitInv == Init => Inv
  BY DEF Init, Inv, Shapes, OpTable, OpShape, NoOp, Kinds, FreshHandles, ClosedOrRetired,
         Retired, Handles

(* Told and retired: only an exit or a cancellation tells, and both retire. *)
LEMMA ToldStays ==
    ASSUME Inv, [Next]_vars, NEW h \in Handles
    PROVE  /\ told'[h] # 0 => Retired(h)'
           /\ told[h] = 1 => told'[h] = 1
<1>0. told[h] # 0 => h < next_handle /\ Retired(h)
  <2>1. h \in Int /\ next_handle \in Int
    BY DEF Inv, Shapes, Handles
  <2> QED BY <2>1 DEF Inv, FreshHandles
<1>1. told[h] # 0 => Retired(h)'
  BY <1>0, RetiredStays
<1>2. CASE UNCHANGED told
  BY <1>1, <1>2
<1>3. CASE \E g \in Handles : cancel_command(g)
  <2> PICK g \in Handles : cancel_command(g)
    BY <1>3
  <2>1. CASE g = h
    <3>1. ~Retired(h)
      BY <2>1 DEF cancel_command, Retired
    <3>2. commands'[h] = {[cancelled |-> TRUE, exit_code |-> TRUE, task_handle |-> None]}
      BY <2>1 DEF cancel_command, Inv, Shapes
    <3>3. Retired(h)'
      BY <3>2 DEF Retired, Over, Started
    <3>4. told[h] = 0
      BY <1>0, <3>1
    <3> QED BY <3>3, <3>4
  <2>2. CASE g # h
    <3>1. told'[h] = told[h]
      BY <2>2 DEF cancel_command, Inv, Shapes
    <3> QED BY <3>1, <1>1
  <2> QED BY <2>1, <2>2
<1>4. CASE Reap
  <2>1. told'[h] = told[h] + Cardinality(Finished(h))
    BY <1>4 DEF Reap
  <2>2. CASE Finished(h) = {}
    <3>1. Cardinality(Finished(h)) = 0
      BY <2>2, FS_EmptySet
    <3>2. told[h] = 0 => told'[h] = 0
      BY <2>1, <3>1
    <3>3. told[h] = 1 => told'[h] = 1
      BY <2>1, <3>1
    <3> QED BY <3>2, <3>3, <1>1
  <2>3. CASE Finished(h) # {}
    <3>1. ~Retired(h)
      BY <2>3 DEF Finished, Retired
    <3>2. commands'[h] = {Exited(cmd) : cmd \in commands[h]}
      BY <2>3, <1>4 DEF Reap
    <3>3. \A cmd \in commands[h] : Exited(cmd).exit_code = TRUE /\ Exited(cmd).task_handle = None
      BY DEF Exited, Inv, Shapes, CommandShape
    <3>4. Retired(h)'
      BY <3>2, <3>3 DEF Retired, Over, Started
    <3> QED BY <3>1, <3>4, <1>0
  <2> QED BY <2>2, <2>3
<1> QED
  <2>1. [Next]_vars => UNCHANGED told \/ Reap \/ \E g \in Handles : cancel_command(g)
    BY WakesKeep DEF Next, Step, vars, history, submit_results, RunStep, SpawnChild, End, SubmitOp,
           ReturnPending, Return, TakeHostOp, TakeDone, create_command, delete_command, StepBegin
  <2> QED BY <2>1, <1>2, <1>3, <1>4

(* Records of commands stay records of commands.                           *)
LEMMA CommandShapes ==
    /\ \A a, b, c : CommandShape([cancelled |-> a, exit_code |-> b, task_handle |-> c])
    /\ \A cmd, x : CommandShape(cmd) => CommandShape([cmd EXCEPT !.task_handle = x])
    /\ \A cmd : CommandShape(cmd) => CommandShape(Exited(cmd))
<1>1. \A a, b, c : CommandShape([cancelled |-> a, exit_code |-> b, task_handle |-> c])
  BY DEF CommandShape
<1>2. \A cmd, x : CommandShape(cmd) => CommandShape([cmd EXCEPT !.task_handle = x])
  BY DEF CommandShape
<1>3. ASSUME NEW cmd, CommandShape(cmd) PROVE CommandShape(Exited(cmd))
  BY <1>1 DEF Exited
<1> QED BY <1>1, <1>2, <1>3

LEMMA ShapesStay == Inv /\ [Next]_vars => Shapes'
<1> SUFFICES ASSUME Inv, [Next]_vars PROVE Shapes'
  OBVIOUS
<1>1. CASE create_command
  <2> DEFINE new == [cancelled |-> FALSE, exit_code |-> FALSE, task_handle |-> None]
  <2>1. CommandShape(new)
    BY CommandShapes
  <2>2. commands' = [commands EXCEPT ![next_handle] = {new}]
    BY <1>1 DEF create_command
  <2>3. UNCHANGED <<ops, told>> /\ next_handle' = next_handle + 1
    BY <1>1 DEF create_command, channelVars, history
  <2> HIDE DEF new
  <2>4. OpTable(ops)'
    BY <2>3 DEF Inv, Shapes, OpTable
  <2> QED BY <2>1, <2>2, <2>3, <2>4 DEF Inv, Shapes
<1>2. CASE \E h \in Handles : delete_command(h)
  BY <1>2 DEF delete_command, Inv, Shapes, channelVars, history, CommandShape
<1>3. CASE \E h \in Handles : cancel_command(h)
  <2> PICK h \in Handles : cancel_command(h)
    BY <1>3
  <2>1. OpTable(ops')
    BY SettledKeepsSent DEF cancel_command, Inv, Shapes
  <2> DEFINE new == [cancelled |-> TRUE, exit_code |-> TRUE, task_handle |-> None]
  <2>2. CommandShape(new)
    BY CommandShapes
  <2>3. commands' = [commands EXCEPT ![h] = {new}]
    BY DEF cancel_command
  <2>4. UNCHANGED next_handle /\ told' = [told EXCEPT ![h] = @ + 1]
    BY DEF cancel_command
  <2> HIDE DEF new
  <2> QED BY <2>1, <2>2, <2>3, <2>4 DEF Inv, Shapes
<1>4. CASE \E o \in Ops, answer \in {"data", "eof", "error"} : submit_results(o, answer)
  <2> PICK o \in Ops, answer \in {"data", "eof", "error"} : submit_results(o, answer)
    BY <1>4
  <2> DEFINE st == IF ops[o].st # "sent" THEN ops[o].st
                   ELSE IF Wanted(o) THEN "answered" ELSE "over"
             table == [ops EXCEPT ![o].st = st]
  <2>1. OpTable(table)
    <3> HIDE DEF st
    <3> QED BY DEF OpTable, OpShape, Inv, Shapes
  <2>2. ops' = Settled(table, pending_stdin_ops')
    BY DEF submit_results
  <2>3. OpTable(ops')
    BY <2>1, <2>2, SettledKeepsSent
  <2> QED BY <2>3 DEF submit_results, Inv, Shapes
<1>5. CASE StepBegin
  <2> DEFINE fresh == {h \in Handles : \E cmd \in commands[h] : ~Over(cmd) /\ ~Started(cmd)}
  <2> PICK order \in SetToSeqs(fresh) :
        commands' = [h \in Handles |->
            IF h \in fresh
            THEN {[cmd EXCEPT !.task_handle =
                     ntasks + (CHOOSE i \in 1 .. Len(order) : order[i] = h)] : cmd \in commands[h]}
            ELSE commands[h]]
    BY <1>5 DEF StepBegin
  <2>1. \A h \in Handles : \A x : \A cmd \in commands[h] : CommandShape([cmd EXCEPT !.task_handle = x])
    BY CommandShapes DEF Inv, Shapes
  <2>2. commands' = [h \in Handles |-> commands'[h]]
    OBVIOUS
  <2>3. \A h \in Handles : \A cmd \in commands'[h] : CommandShape(cmd)
    <3> TAKE h \in Handles
    <3>1. CASE h \in fresh
      <4> DEFINE x == ntasks + (CHOOSE i \in 1 .. Len(order) : order[i] = h)
      <4>1. commands'[h] = {[cmd EXCEPT !.task_handle = x] : cmd \in commands[h]}
        BY <3>1
      <4>2. \A cmd \in commands[h] : CommandShape([cmd EXCEPT !.task_handle = x])
        <5> HIDE DEF x
        <5> QED BY <2>1
      <4> HIDE DEF x
      <4> QED
        <5> TAKE cmd \in commands'[h]
        <5> PICK old \in commands[h] : cmd = [old EXCEPT !.task_handle = x]
          BY <4>1
        <5> QED BY <4>2
    <3>2. CASE h \notin fresh
      BY <3>2 DEF Inv, Shapes
    <3> QED BY <3>1, <3>2
  <2>4. UNCHANGED <<ops, told, next_handle>>
    BY <1>5 DEF StepBegin, channelVars, history
  <2> QED BY <2>2, <2>3, <2>4 DEF Inv, Shapes, OpTable
<1>6. CASE RunStep
  <2>1. OpTable(ops')
    <3>1. UNCHANGED ops \/ \E answered :
             ops' = Settled([o \in Ops |-> IF o \in answered THEN [ops[o] EXCEPT !.st = "over"]
                                                            ELSE ops[o]], pending_stdin_ops)
      BY <1>6 DEF RunStep
    <3>2. CASE UNCHANGED ops
      BY <3>2 DEF Inv, Shapes, OpTable
    <3>3. ASSUME NEW answered PROVE OpTable([o \in Ops |->
             IF o \in answered THEN [ops[o] EXCEPT !.st = "over"] ELSE ops[o]])
      BY DEF Inv, Shapes, OpTable, OpShape
    <3>4. ASSUME NEW answered,
                 ops' = Settled([o \in Ops |->
                   IF o \in answered THEN [ops[o] EXCEPT !.st = "over"] ELSE ops[o]], pending_stdin_ops)
          PROVE  OpTable(ops')
      <4> DEFINE table == [o \in Ops |->
                   IF o \in answered THEN [ops[o] EXCEPT !.st = "over"] ELSE ops[o]]
      <4>1. OpTable(table) /\ ops' = Settled(table, pending_stdin_ops)
        BY <3>3, <3>4
      <4> HIDE DEF table
      <4> QED BY <4>1, SettledKeepsSent
    <3> QED BY <3>1, <3>2, <3>4
  <2> QED BY <2>1, <1>6 DEF RunStep, Inv, Shapes, history
<1>7. CASE \E kind \in Kinds : SubmitOp(kind)
  <2> PICK kind \in Kinds : SubmitOp(kind)
    BY <1>7
  <2> DEFINE new == [st |-> "queued", kind |-> kind, task |-> current, command |-> None]
  <2>1. OpShape(new)
    BY DEF OpShape
  <2>2. \E o : ops' = [ops EXCEPT ![o] = new]
    BY DEF SubmitOp
  <2> HIDE DEF new
  <2>3. OpTable(ops')
    BY <2>1, <2>2 DEF Inv, Shapes, OpTable
  <2> QED BY <2>3 DEF SubmitOp, Inv, Shapes, history
<1>8. CASE TakeHostOp
  <2>1. OpTable(ops')
    <3>0. OpTable(ops) /\ OpShape(NoOp)
      BY DEF Inv, Shapes, OpShape, NoOp, Kinds
    <3> DEFINE Sent(o, h) ==
          [st |-> "sent", kind |-> ops[o].kind, task |-> ops[o].task, command |-> h]
    <3>1. \E o, h : \/ ops' = [ops EXCEPT ![o] = NoOp]
                   \/ ops' = [ops EXCEPT ![o].st = "answered"]
                   \/ ops' = [ops EXCEPT ![o] = Sent(o, h)]
      BY <1>8 DEF TakeHostOp
    <3> PICK o, h : \/ ops' = [ops EXCEPT ![o] = NoOp]
                   \/ ops' = [ops EXCEPT ![o].st = "answered"]
                   \/ ops' = [ops EXCEPT ![o] = Sent(o, h)]
      BY <3>1
    <3>2. CASE ops' = [ops EXCEPT ![o] = NoOp]
      BY <3>0, <3>2 DEF OpTable
    <3>3. CASE ops' = [ops EXCEPT ![o].st = "answered"]
      <4>1. o \in Ops => OpShape([ops[o] EXCEPT !.st = "answered"])
        BY <3>0 DEF OpTable, OpShape
      <4>2. ops' = [ops EXCEPT ![o] = [ops[o] EXCEPT !.st = "answered"]]
        BY <3>3
      <4> QED BY <3>0, <4>1, <4>2 DEF OpTable
    <3>4. CASE ops' = [ops EXCEPT ![o] = Sent(o, h)]
      <4>1. o \in Ops => OpShape(Sent(o, h))
        BY <3>0 DEF OpTable, OpShape
      <4> HIDE DEF Sent
      <4> QED BY <3>0, <3>4, <4>1 DEF OpTable
    <3> QED BY <3>2, <3>3, <3>4
  <2> QED BY <2>1, <1>8 DEF TakeHostOp, Inv, Shapes, history
<1>9. CASE Reap
  <2>1. \A h \in Handles : \A cmd \in commands[h] : CommandShape(Exited(cmd))
    BY CommandShapes DEF Inv, Shapes
  <2>2. commands' = [h \in Handles |-> commands'[h]] /\ told' = [h \in Handles |-> told'[h]]
    BY <1>9 DEF Reap
  <2>3. \A h \in Handles : \A cmd \in commands'[h] : CommandShape(cmd)
    BY <1>9, <2>1 DEF Reap, Inv, Shapes
  <2>4. UNCHANGED <<ops, next_handle>>
    BY <1>9 DEF Reap, channelVars
  <2> QED BY <2>2, <2>3, <2>4 DEF Inv, Shapes, OpTable
<1>10. CASE UNCHANGED <<commands, ops, told, next_handle>>
  BY <1>10 DEF Inv, Shapes, OpTable
<1> QED
  <2>1. SpawnChild \/ End \/ TakeDone \/ UNCHANGED vars
          \/ (\E t \in Tasks : WakeInside(t) \/ StrayWake(t))
          \/ (\E kept \in SUBSET Ops, c \in Tasks \cup {None}, inside \in BOOLEAN :
                ReturnPending(kept, c, inside))
        => UNCHANGED <<commands, ops, told, next_handle>>
    BY WakesKeep DEF SpawnChild, End, TakeDone, ReturnPending, Return, vars, channelVars, history
  <2> QED BY <2>1, <1>1, <1>2, <1>3, <1>4, <1>5, <1>6, <1>7, <1>8, <1>9, <1>10 DEF Next, Step

-----------------------------------------------------------------------------
LEMMA FreshHandlesStay == Inv /\ [Next]_vars => FreshHandles'
<1> SUFFICES ASSUME Inv, [Next]_vars, NEW h \in Handles, h >= next_handle'
             PROVE  (commands[h] = {} /\ told[h] = 0 /\ h \notin eofs)'
  BY DEF FreshHandles
<1>1. h \in Int /\ next_handle \in Nat \ {0}
  BY DEF Inv, Shapes, Handles
<1>2. next_handle' = next_handle \/ next_handle' = next_handle + 1
  BY WakesKeep DEF Next, Step, vars, submit_results, RunStep, SpawnChild, End, SubmitOp, ReturnPending,
         Return, TakeHostOp, TakeDone, create_command, delete_command, cancel_command, StepBegin, Reap
<1>3. h >= next_handle
  BY <1>1, <1>2
<1>4. commands[h] = {} /\ told[h] = 0 /\ h \notin eofs
  BY <1>3 DEF Inv, FreshHandles
<1>5. commands'[h] = {}
  <2>1. CASE create_command
    BY <2>1, <1>1, <1>4 DEF create_command, Inv, Shapes
  <2>2. CASE \E g \in Handles : delete_command(g) \/ cancel_command(g)
    BY <2>2, <1>4 DEF delete_command, cancel_command, Inv, Shapes
  <2>3. CASE StepBegin
    BY <2>3, <1>4 DEF StepBegin
  <2>4. CASE Reap
    BY <2>4, <1>4 DEF Reap, Finished
  <2>5. CASE UNCHANGED commands
    BY <2>5, <1>4
  <2> QED BY <2>1, <2>2, <2>3, <2>4, <2>5, WakesKeep
          DEF Next, Step, vars, submit_results, RunStep, SpawnChild, End, SubmitOp,
              ReturnPending, Return, TakeHostOp, TakeDone
<1>6. told'[h] = 0
  <2>1. CASE \E g \in Handles : cancel_command(g)
    BY <2>1, <1>4 DEF cancel_command, Inv, Shapes
  <2>2. CASE Reap
    <3>1. Finished(h) = {}
      BY <1>4 DEF Finished
    <3>2. told'[h] = told[h] + Cardinality(Finished(h))
      BY <2>2 DEF Reap
    <3>3. Cardinality(Finished(h)) = 0
      BY <3>1, FS_EmptySet
    <3> QED BY <3>2, <3>3, <1>4
  <2>3. CASE UNCHANGED told
    BY <2>3, <1>4
  <2> QED BY <2>1, <2>2, <2>3, WakesKeep
          DEF Next, Step, vars, history, submit_results, RunStep, SpawnChild, End, SubmitOp,
              ReturnPending, Return, TakeHostOp, TakeDone, create_command, delete_command, StepBegin
<1>7. h \notin eofs'
  <2>1. CASE \E o \in Ops, answer \in {"data", "eof", "error"} : submit_results(o, answer)
    <3> PICK o \in Ops, answer \in {"data", "eof", "error"} : submit_results(o, answer)
      BY <2>1
    <3>1. eofs' = eofs \/ (ops[o].st = "sent" /\ eofs' = eofs \cup ({ops[o].command} \ {None}))
      BY DEF submit_results
    <3>2. ops[o].st = "sent" /\ ops[o].command # None
            => ops[o].command \in Handles /\ ops[o].command < next_handle
      BY DEF Inv, Attributed
    <3>3. h = ops[o].command => ~(h < next_handle)
      BY <1>1, <1>3
    <3> QED BY <3>1, <3>2, <3>3, <1>4
  <2>2. CASE UNCHANGED eofs
    BY <2>2, <1>4
  <2> QED BY <2>1, <2>2, WakesKeep
          DEF Next, Step, vars, history, RunStep, SpawnChild, End, SubmitOp, ReturnPending, Return,
              TakeHostOp, TakeDone, create_command, delete_command, cancel_command, StepBegin, Reap
<1> QED BY <1>5, <1>6, <1>7

(* A cancelled command is retired.                                         *)
LEMMA CancelRetires ==
    ASSUME Inv, NEW h \in Handles, cancel_command(h)
    PROVE  Retired(h)'
<1>1. commands'[h] = {[cancelled |-> TRUE, exit_code |-> TRUE, task_handle |-> None]}
  BY DEF cancel_command, Inv, Shapes
<1> QED BY <1>1 DEF Retired, Over, Started

LEMMA ClosedOrRetiredStays == Inv /\ [Next]_vars => ClosedOrRetired'
<1> SUFFICES ASSUME Inv, [Next]_vars PROVE ClosedOrRetired'
  OBVIOUS
<1>0. \A h \in Handles : Retired(h) /\ h < next_handle => Retired(h)'
  BY RetiredStays
<1>1. \A h \in eofs : h \in Handles /\ h < next_handle
  <2>1. \A h \in eofs : h \in Handles /\ ~(h >= next_handle)
    BY DEF Inv, ClosedOrRetired, FreshHandles
  <2>2. \A h \in Handles : h \in Int /\ next_handle \in Int
    BY DEF Inv, Shapes, Handles
  <2> QED BY <2>1, <2>2
<1>2. CASE \E o \in Ops, answer \in {"data", "eof", "error"} : submit_results(o, answer)
  <2> PICK o \in Ops, answer \in {"data", "eof", "error"} : submit_results(o, answer)
    BY <1>2
  <2> PICK h : h = ops[o].command
    OBVIOUS
  <2>1. stdin_closed_commands \subseteq stdin_closed_commands'
    BY DEF submit_results
  <2>2. CASE eofs' = eofs
    BY <2>1, <2>2, <1>0, <1>1 DEF Inv, ClosedOrRetired
  <2>3. CASE eofs' # eofs
    <3>1. answer = "eof" /\ ops[o].st = "sent" /\ eofs' = eofs \cup ({h} \ {None})
      BY <2>3 DEF submit_results
    <3>2. ops[o].kind = "stdin"
      BY <3>1 DEF submit_results, Inv, Shapes, OpTable, OpShape, Kinds
    <3>3. h # None => h \in Handles /\ h < next_handle /\ (<<o, h>> \in pending_stdin_ops \/ Retired(h))
      BY <3>1, <3>2 DEF Inv, Attributed
    <3>4. <<o, h>> \in pending_stdin_ops => h \in stdin_closed_commands'
      BY <3>1 DEF submit_results, StdinOf
    <3>5. h # None => h \in Handles /\ (h \in stdin_closed_commands' \/ Retired(h)')
      BY <3>3, <3>4, <1>0
    <3>6. \A g \in eofs : g \in Handles /\ (g \in stdin_closed_commands' \/ Retired(g)')
      BY <2>1, <1>0, <1>1 DEF Inv, ClosedOrRetired
    <3> QED BY <3>1, <3>5, <3>6 DEF ClosedOrRetired
  <2> QED BY <2>2, <2>3
<1>3. CASE \E g \in Handles : cancel_command(g)
  <2> PICK g \in Handles : cancel_command(g)
    BY <1>3
  <2>1. Retired(g)'
    BY CancelRetires
  <2>2. eofs' = eofs /\ stdin_closed_commands' = stdin_closed_commands \ {g}
    BY DEF cancel_command
  <2> QED BY <2>1, <2>2, <1>0, <1>1 DEF Inv, ClosedOrRetired
<1>4. CASE UNCHANGED <<eofs, stdin_closed_commands>>
  BY <1>4, <1>0, <1>1 DEF Inv, ClosedOrRetired
<1> QED BY <1>2, <1>3, <1>4, WakesKeep
        DEF Next, Step, vars, history, stdinVars, RunStep, SpawnChild, End, SubmitOp, ReturnPending,
            Return, TakeHostOp, TakeDone, create_command, delete_command, StepBegin, Reap

(* What TakeHostOp sends is tracked, and belongs to nobody who is retired. *)
LEMMA TakenIsAttributed ==
    ASSUME Inv, NEW o \in Ops, TakeHostOp, o = Head(pending_requests), ops'[o].st = "sent"
    PROVE  /\ ops'[o].command = CommandOf(o)
           /\ ops'[o].kind = "stdin" /\ CommandOf(o) # None
                => /\ CommandOf(o) \notin stdin_closed_commands
                   /\ <<o, CommandOf(o)>> \in pending_stdin_ops'
<1>0. OpTable(ops)
  BY DEF Inv, Shapes
<1> DEFINE stdin == ops[o].kind = "stdin" /\ CommandOf(o) # None
<1>1. ops' # [ops EXCEPT ![o] = NoOp] /\ ops' # [ops EXCEPT ![o].st = "answered"]
  BY <1>0 DEF OpTable, OpShape, NoOp
<1>2. /\ ~(stdin /\ CommandOf(o) \in stdin_closed_commands)
      /\ ops' = [ops EXCEPT ![o] = [st |-> "sent", kind |-> ops[o].kind,
                                     task |-> ops[o].task, command |-> CommandOf(o)]]
      /\ pending_stdin_ops' = pending_stdin_ops \cup (IF stdin THEN {<<o, CommandOf(o)>>} ELSE {})
  BY <1>1 DEF TakeHostOp
<1>3. ops'[o].command = CommandOf(o) /\ ops'[o].kind = ops[o].kind
  <2> PICK h : h = CommandOf(o)
    OBVIOUS
  <2>1. ops' = [ops EXCEPT ![o] = [st |-> "sent", kind |-> ops[o].kind,
                                   task |-> ops[o].task, command |-> h]]
    BY <1>2
  <2> QED BY <1>0, <2>1 DEF OpTable
<1> QED BY <1>2, <1>3

(* Only TakeHostOp sends.                                                  *)
LEMMA SentIsTaken ==
    ASSUME Inv, NEW o \in Ops, [Next]_vars, ops[o].st # "sent", ops'[o].st = "sent"
    PROVE  TakeHostOp /\ o = Head(pending_requests)
<1>0. OpTable(ops)
  BY DEF Inv, Shapes
<1>1. ASSUME \E g \in Handles : cancel_command(g)
      PROVE  FALSE
  BY <1>0, <1>1, SettledKeepsSent DEF cancel_command
<1>2. ASSUME NEW x \in Ops, NEW answer, submit_results(x, answer)
      PROVE  FALSE
  <2> DEFINE st == IF ops[x].st # "sent" THEN ops[x].st
                   ELSE IF Wanted(x) THEN "answered" ELSE "over"
             table == [ops EXCEPT ![x].st = st]
  <2>1. ops' = Settled(table, pending_stdin_ops')
    BY <1>2 DEF submit_results
  <2>2. st # "sent"
    OBVIOUS
  <2>3. OpTable(table) /\ table[o].st # "sent"
    <3> HIDE DEF st
    <3> QED BY <1>0, <2>2 DEF OpTable, OpShape
  <2> HIDE DEF table
  <2> QED BY <2>1, <2>3, SettledKeepsSent
<1>3. ASSUME RunStep PROVE FALSE
  <2>1. UNCHANGED ops \/ \E answered :
             ops' = Settled([p \in Ops |-> IF p \in answered THEN [ops[p] EXCEPT !.st = "over"]
                                                            ELSE ops[p]], pending_stdin_ops)
    BY <1>3 DEF RunStep
  <2>2. ASSUME NEW answered,
               ops' = Settled([p \in Ops |-> IF p \in answered THEN [ops[p] EXCEPT !.st = "over"]
                                                            ELSE ops[p]], pending_stdin_ops)
        PROVE  FALSE
    <3> DEFINE table == [p \in Ops |-> IF p \in answered THEN [ops[p] EXCEPT !.st = "over"]
                                                            ELSE ops[p]]
    <3>1. OpTable(table) /\ table[o].st # "sent"
      BY <1>0 DEF OpTable, OpShape
    <3>2. ops' = Settled(table, pending_stdin_ops)
      BY <2>2
    <3> HIDE DEF table
    <3> QED BY <3>1, <3>2, SettledKeepsSent
  <2> QED BY <2>1, <2>2
<1>4. ASSUME NEW kind \in Kinds, SubmitOp(kind) PROVE FALSE
  <2> DEFINE new == [st |-> "queued", kind |-> kind, task |-> current, command |-> None]
  <2>1. \E x : ops' = [ops EXCEPT ![x] = new]
    BY <1>4 DEF SubmitOp
  <2>2. new.st # "sent"
    OBVIOUS
  <2> HIDE DEF new
  <2> QED BY <1>0, <2>1, <2>2 DEF OpTable
<1>5. TakeHostOp
  <2>1. CASE UNCHANGED ops
    BY <2>1
  <2> QED BY <1>1, <1>2, <1>3, <1>4, <2>1, WakesKeep
          DEF Next, Step, vars, channelVars, SpawnChild, End, ReturnPending, Return, TakeDone,
              create_command, delete_command, StepBegin, Reap
<1>6. o = Head(pending_requests)
  <2> DEFINE x == Head(pending_requests)
  <2>1. \E r : ops' = [ops EXCEPT ![x] = r]
    BY <1>5 DEF TakeHostOp
  <2> HIDE DEF x
  <2>2. o = x
    BY <1>0, <2>1 DEF OpTable
  <2> QED BY <2>2 DEF x
<1> QED BY <1>5, <1>6

(* What the host has stays as it was until it is answered.                 *)
LEMMA AnswerEnds ==
    ASSUME Inv, NEW x \in Ops, NEW answer, submit_results(x, answer), NEW o \in Ops,
           ops[o].st = "sent", ops'[o].st = "sent"
    PROVE  x # o /\ ops'[o] = ops[o]
<1>0. OpTable(ops)
  BY DEF Inv, Shapes
<1> DEFINE st == IF ops[x].st # "sent" THEN ops[x].st
                 ELSE IF Wanted(x) THEN "answered" ELSE "over"
           table == [ops EXCEPT ![x].st = st]
<1>1. ops' = Settled(table, pending_stdin_ops')
  BY DEF submit_results
<1>2. x = o => st # "sent"
  OBVIOUS
<1>3. OpTable(table) /\ (x = o => table[o].st # "sent") /\ (x # o => table[o] = ops[o])
  <2> HIDE DEF st
  <2> QED BY <1>0, <1>2 DEF OpTable, OpShape
<1> HIDE DEF table
<1> QED BY <1>1, <1>3, SettledKeepsSent

LEMMA SentStays ==
    ASSUME Inv, [Next]_vars, NEW o \in Ops, ops[o].st = "sent", ops'[o].st = "sent",
           ~(TakeHostOp /\ o = Head(pending_requests))
    PROVE  ops'[o].command = ops[o].command /\ ops'[o].kind = ops[o].kind
<1>0. OpTable(ops)
  BY DEF Inv, Shapes
<1>1. CASE \E g \in Handles : cancel_command(g)
  BY <1>0, <1>1, SettledKeepsSent DEF cancel_command
<1>2. CASE \E x \in Ops, answer \in {"data", "eof", "error"} : submit_results(x, answer)
  BY <1>2, AnswerEnds
<1>3. CASE RunStep
  <2>1. CASE UNCHANGED ops
    BY <2>1
  <2>2. ASSUME NEW answered,
               ops' = Settled([p \in Ops |-> IF p \in answered THEN [ops[p] EXCEPT !.st = "over"]
                                                            ELSE ops[p]], pending_stdin_ops)
        PROVE  ops'[o] = ops[o]
    <3> DEFINE table == [p \in Ops |-> IF p \in answered THEN [ops[p] EXCEPT !.st = "over"]
                                                            ELSE ops[p]]
    <3>1. OpTable(table) /\ (table[o].st = "sent" => table[o] = ops[o])
      BY <1>0 DEF OpTable, OpShape
    <3>2. ops' = Settled(table, pending_stdin_ops)
      BY <2>2
    <3> HIDE DEF table
    <3> QED BY <3>1, <3>2, SettledKeepsSent
  <2>3. UNCHANGED ops \/ \E answered :
             ops' = Settled([p \in Ops |-> IF p \in answered THEN [ops[p] EXCEPT !.st = "over"]
                                                            ELSE ops[p]], pending_stdin_ops)
    BY <1>3 DEF RunStep
  <2> QED BY <2>1, <2>2, <2>3
<1>4. CASE \E kind \in Kinds : SubmitOp(kind)
  <2> PICK kind \in Kinds : SubmitOp(kind)
    BY <1>4
  <2> DEFINE new == [st |-> "queued", kind |-> kind, task |-> current, command |-> None]
  <2>1. \E x : ops' = [ops EXCEPT ![x] = new]
    BY DEF SubmitOp
  <2>2. new.st # "sent"
    OBVIOUS
  <2> HIDE DEF new
  <2> QED BY <1>0, <2>1, <2>2 DEF OpTable
<1>5. CASE TakeHostOp
  <2> DEFINE x == Head(pending_requests)
  <2>1. x # o
    BY <1>5
  <2>2. \E r : ops' = [ops EXCEPT ![x] = r]
    BY <1>5 DEF TakeHostOp
  <2> HIDE DEF x
  <2> QED BY <1>0, <2>1, <2>2 DEF OpTable
<1>6. CASE UNCHANGED ops
  BY <1>6
<1> QED BY <1>1, <1>2, <1>3, <1>4, <1>5, <1>6, WakesKeep
        DEF Next, Step, vars, channelVars, SpawnChild, End, ReturnPending, Return, TakeDone,
            create_command, delete_command, StepBegin, Reap

LEMMA TrackedStays ==
    ASSUME Inv, [Next]_vars, NEW o \in Ops, ops[o].st = "sent", ops'[o].st = "sent",
           NEW h \in Handles, h < next_handle, <<o, h>> \in pending_stdin_ops \/ Retired(h)
    PROVE  <<o, h>> \in pending_stdin_ops' \/ Retired(h)'
<1>0. Retired(h) => Retired(h)'
  BY RetiredStays
<1>1. CASE \E g \in Handles : cancel_command(g)
  <2> PICK g \in Handles : cancel_command(g)
    BY <1>1
  <2>1. Retired(g)'
    BY CancelRetires
  <2>2. pending_stdin_ops' = {p \in pending_stdin_ops : p[2] # g}
    BY DEF cancel_command
  <2>3. h # g => (<<o, h>> \in pending_stdin_ops => <<o, h>> \in pending_stdin_ops')
    BY <2>2
  <2> QED BY <2>1, <2>3, <1>0
<1>2. CASE \E x \in Ops, answer \in {"data", "eof", "error"} : submit_results(x, answer)
  <2> PICK x \in Ops, answer \in {"data", "eof", "error"} : submit_results(x, answer)
    BY <1>2
  <2>1. x # o
    BY AnswerEnds
  <2>2. pending_stdin_ops' = pending_stdin_ops
          \/ pending_stdin_ops' = pending_stdin_ops \ {p \in pending_stdin_ops : p[1] = x}
    BY DEF submit_results, StdinOf
  <2>3. <<o, h>> \in pending_stdin_ops => <<o, h>> \in pending_stdin_ops'
    BY <2>1, <2>2
  <2> QED BY <2>3, <1>0
<1>3. CASE TakeHostOp
  <2>1. pending_stdin_ops \subseteq pending_stdin_ops'
    BY <1>3 DEF TakeHostOp
  <2> QED BY <2>1, <1>0
<1>4. CASE UNCHANGED pending_stdin_ops
  BY <1>4, <1>0
<1> QED BY <1>1, <1>2, <1>3, <1>4, WakesKeep
        DEF Next, Step, vars, stdinVars, RunStep, SpawnChild, End, SubmitOp, ReturnPending, Return,
            TakeDone, create_command, delete_command, StepBegin, Reap

LEMMA AttributionStays ==
    ASSUME Inv, [Next]_vars, NEW o \in Ops, ops'[o].st = "sent"
    PROVE  Attributed(o)'
<1>0. \A h \in Handles : h < next_handle => h < next_handle'
  <2>1. next_handle' = next_handle \/ next_handle' = next_handle + 1
    BY WakesKeep DEF Next, Step, vars, submit_results, RunStep, SpawnChild, End, SubmitOp, ReturnPending,
         Return, TakeHostOp, TakeDone, create_command, delete_command, cancel_command, StepBegin, Reap
  <2> QED BY <2>1 DEF Inv, Shapes, Handles
<1>1. CASE TakeHostOp /\ o = Head(pending_requests)
  <2> PICK h : h = CommandOf(o)
    OBVIOUS
  <2>1. ops'[o].command = h /\ (ops'[o].kind = "stdin" /\ h # None => <<o, h>> \in pending_stdin_ops')
    BY <1>1, TakenIsAttributed
  <2>2. h # None => h \in Handles /\ h < next_handle'
    BY OwnerIsNotRetired, <1>0
  <2> QED BY <2>1, <2>2 DEF Attributed
<1>2. CASE ~(TakeHostOp /\ o = Head(pending_requests))
  <2> PICK h : h = ops[o].command
    OBVIOUS
  <2>1. ops[o].st = "sent"
    BY <1>2, SentIsTaken
  <2>2. ops'[o].command = h /\ ops'[o].kind = ops[o].kind
    BY <1>2, <2>1, SentStays
  <2>3. h # None => /\ h \in Handles /\ h < next_handle
                    /\ ops[o].kind = "stdin" => <<o, h>> \in pending_stdin_ops \/ Retired(h)
    BY <2>1 DEF Inv, Attributed
  <2>4. h # None => /\ h \in Handles /\ h < next_handle'
                    /\ ops[o].kind = "stdin" => <<o, h>> \in pending_stdin_ops' \/ Retired(h)'
    BY <2>1, <2>3, <1>0, TrackedStays
  <2> QED BY <2>2, <2>4 DEF Attributed
<1> QED BY <1>1, <1>2

-----------------------------------------------------------------------------
LEMMA NextInv == Inv /\ [Next]_vars => Inv'
<1> SUFFICES ASSUME Inv, [Next]_vars PROVE Inv'
  OBVIOUS
<1>1. Shapes' /\ FreshHandles' /\ ClosedOrRetired'
  BY ShapesStay, FreshHandlesStay, ClosedOrRetiredStays
<1>2. \A h \in Handles : told'[h] # 0 => Retired(h)'
  BY ToldStays
<1>3. \A o \in Ops : ops'[o].st = "sent" => Attributed(o)'
  BY AttributionStays
<1>4. (\A h \in Handles : told[h] # 0 => Retired(h))'
  BY <1>2
<1>5. (\A o \in Ops : ops[o].st = "sent" => Attributed(o))'
  BY <1>3
<1> QED BY <1>1, <1>4, <1>5 DEF Inv

THEOREM Invariance == Spec => []Inv
<1> QED BY InitInv, NextInv, PTL DEF Spec

(* CommandExit is the last the host hears of a command (Runtime::step,     *)
(* cancel_command): it comes once, and no operation is attributed to the   *)
(* command later.                                                          *)
THEOREM ExitSafe == Spec => ExitIsLast
<1> DEFINE LastWord == \A h \in Handles : told[h] = 1 =>
                         /\ told'[h] = 1
                         /\ \A o \in Ops : ops[o].st = "queued" /\ ops'[o].st = "sent"
                                             => ops'[o].command # h
<1>1. Inv /\ [Next]_vars => LastWord
  <2> SUFFICES ASSUME Inv, [Next]_vars, NEW h \in Handles, told[h] = 1,
                      NEW o \in Ops, ops[o].st = "queued", ops'[o].st = "sent"
               PROVE  ops'[o].command # h
    BY ToldStays
  <2>1. ops'[o].command = CommandOf(o)
    BY SentIsTaken, TakenIsAttributed
  <2>2. Retired(h) /\ h # None
    BY DEF Inv, Handles, None
  <2>3. CommandOf(o) # None => ~Retired(CommandOf(o))
    BY OwnerIsNotRetired
  <2> QED BY <2>1, <2>2, <2>3
<1>2. Inv /\ [Next]_vars => [LastWord]_vars
  BY <1>1
<1> HIDE DEF LastWord
<1>3. Spec => [][LastWord]_vars
  BY Invariance, <1>2, PTL DEF Spec
<1> QED BY <1>3 DEF LastWord, ExitIsLast

(* After the end of a command's stdin the host is not asked for more       *)
(* (submit_results, step), however its reads overlap, are dropped and are  *)
(* answered.                                                               *)
THEOREM EofSafe == Spec => EofIsFinal
<1> DEFINE Final == \A o \in Ops :
                      ops[o].st = "queued" /\ ops'[o].st = "sent" /\ ops'[o].kind = "stdin"
                        => ops'[o].command \notin eofs
<1>1. Inv /\ [Next]_vars => Final
  <2> SUFFICES ASSUME Inv, [Next]_vars, NEW o \in Ops, ops[o].st = "queued",
                      ops'[o].st = "sent", ops'[o].kind = "stdin"
               PROVE  ops'[o].command \notin eofs
    OBVIOUS
  <2>1. ops'[o].command = CommandOf(o)
          /\ (CommandOf(o) # None => CommandOf(o) \notin stdin_closed_commands)
    BY SentIsTaken, TakenIsAttributed
  <2>2. CommandOf(o) # None => ~Retired(CommandOf(o))
    BY OwnerIsNotRetired
  <2>3. \A h \in eofs : h # None /\ (h \in stdin_closed_commands \/ Retired(h))
    BY DEF Inv, ClosedOrRetired, Handles, None
  <2> QED BY <2>1, <2>2, <2>3
<1>2. Inv /\ [Next]_vars => [Final]_vars
  BY <1>1
<1> HIDE DEF Final
<1>3. Spec => [][Final]_vars
  BY Invariance, <1>2, PTL DEF Spec
<1> QED BY <1>3 DEF Final, EofIsFinal

-----------------------------------------------------------------------------
(* Sequences: what is in them, and how to list a set.                      *)

(* A set of numbers that has a member has a least one.                     *)
LEMMA LeastNat ==
    ASSUME NEW T \in SUBSET Nat, T # {}
    PROVE  \E x \in T : \A y \in T : x <= y
<1>1. IsWellFoundedOn(OpToRel(<, Nat), Nat)
  BY NatLessThanWellFounded
<1>2. PICK x \in T : \A y \in T : ~(<<y, x>> \in OpToRel(<, Nat))
  BY <1>1, WFMin
<1>3. \A y \in T : ~(y < x)
  BY <1>2 DEF OpToRel
<1> QED BY <1>3

(* What holds of the first number and of the next, holds of all up to n.   *)
LEMMA Upward ==
    ASSUME NEW n \in Nat, NEW a \in Nat, NEW Good,
           a \in Good, \A i \in (a + 1) .. n : i - 1 \in Good => i \in Good
    PROVE  \A i \in a .. n : i \in Good
<1> DEFINE Bad == {i \in a .. n : i \notin Good}
<1> SUFFICES ASSUME Bad # {} PROVE FALSE
  OBVIOUS
<1>1. Bad \in SUBSET Nat
  OBVIOUS
<1>2. PICK i \in Bad : \A j \in Bad : i <= j
  <2> HIDE DEF Bad
  <2> QED BY <1>1, LeastNat
<1>3. i \in a .. n /\ i \notin Good /\ i # a
  BY <1>2
<1>4. i \in (a + 1) .. n /\ i - 1 \in a .. n /\ ~(i <= i - 1)
  BY <1>3
<1>5. i - 1 \notin Bad
  <2> HIDE DEF Bad
  <2> QED BY <1>2, <1>4
<1> QED BY <1>3, <1>4, <1>5

LEMMA Concatenation ==
    ASSUME NEW S, NEW a \in Seq(S), NEW c \in Seq(S)
    PROVE  /\ (a \o c) \in Seq(S) /\ Len(a \o c) = Len(a) + Len(c)
           /\ \A i \in 1 .. Len(a) : (a \o c)[i] = a[i]
           /\ \A i \in 1 .. Len(c) : (a \o c)[Len(a) + i] = c[i]
  OBVIOUS

LEMMA SeqRange ==
    ASSUME NEW S, NEW s \in Seq(S)
    PROVE  /\ Range(s) \subseteq S
           /\ \A x : x \in Range(s) <=> \E i \in 1 .. Len(s) : s[i] = x
<1>1. DOMAIN s = 1 .. Len(s) /\ \A i \in 1 .. Len(s) : s[i] \in S
  OBVIOUS
<1> QED BY <1>1 DEF Range

LEMMA ConcatRange ==
    ASSUME NEW S, NEW a \in Seq(S), NEW c \in Seq(S)
    PROVE  (a \o c) \in Seq(S) /\ Range(a \o c) = Range(a) \cup Range(c)
<1> DEFINE b == a \o c
<1>1. /\ b \in Seq(S) /\ Len(b) = Len(a) + Len(c) /\ Len(a) \in Nat /\ Len(c) \in Nat
      /\ \A i \in 1 .. Len(a) : b[i] = a[i]
      /\ \A i \in 1 .. Len(c) : b[Len(a) + i] = c[i]
  BY Concatenation
<1> HIDE DEF b
<1>2. \A i \in 1 .. Len(b) :
         \/ i \in 1 .. Len(a) /\ b[i] = a[i]
         \/ i - Len(a) \in 1 .. Len(c) /\ b[i] = c[i - Len(a)]
  <2> SUFFICES ASSUME NEW i \in 1 .. Len(b), i \notin 1 .. Len(a)
               PROVE  i - Len(a) \in 1 .. Len(c) /\ b[i] = c[i - Len(a)]
    BY <1>1
  <2>1. i - Len(a) \in 1 .. Len(c) /\ Len(a) + (i - Len(a)) = i
    BY <1>1
  <2> QED BY <1>1, <2>1
<1>3. Range(b) \subseteq Range(a) \cup Range(c)
  <2> SUFFICES ASSUME NEW x \in Range(b) PROVE x \in Range(a) \cup Range(c)
    OBVIOUS
  <2>1. PICK i \in 1 .. Len(b) : b[i] = x
    BY <1>1, SeqRange
  <2> QED BY <1>1, <1>2, <2>1, SeqRange
<1>4. Range(a) \subseteq Range(b)
  <2> SUFFICES ASSUME NEW x \in Range(a) PROVE x \in Range(b)
    OBVIOUS
  <2>1. PICK i \in 1 .. Len(a) : a[i] = x
    BY SeqRange
  <2>2. i \in 1 .. Len(b) /\ b[i] = x
    BY <1>1, <2>1
  <2> QED BY <1>1, <2>2, SeqRange
<1>5. Range(c) \subseteq Range(b)
  <2> SUFFICES ASSUME NEW x \in Range(c) PROVE x \in Range(b)
    OBVIOUS
  <2>1. PICK i \in 1 .. Len(c) : c[i] = x
    BY SeqRange
  <2>2. Len(a) + i \in 1 .. Len(b) /\ b[Len(a) + i] = x
    BY <1>1, <2>1
  <2> QED BY <1>1, <2>2, SeqRange
<1> QED BY <1>1, <1>3, <1>4, <1>5 DEF b

LEMMA AppendRange ==
    ASSUME NEW S, NEW s \in Seq(S), NEW x \in S
    PROVE  Append(s, x) \in Seq(S) /\ Range(Append(s, x)) = Range(s) \cup {x}
<1> DEFINE t == Append(s, x)
<1>1. /\ t \in Seq(S) /\ Len(t) = Len(s) + 1 /\ Len(s) \in Nat /\ t[Len(s) + 1] = x
      /\ \A i \in 1 .. Len(s) : t[i] = s[i]
  OBVIOUS
<1> HIDE DEF t
<1>2. \A i \in 1 .. Len(t) : i \in 1 .. Len(s) \/ i = Len(s) + 1
  BY <1>1
<1>3. \A i \in 1 .. Len(s) : i \in 1 .. Len(t)
  BY <1>1
<1>4. Len(s) + 1 \in 1 .. Len(t)
  BY <1>1
<1>5. Range(t) = Range(s) \cup {x}
  BY <1>1, <1>2, <1>3, <1>4, SeqRange
<1> QED BY <1>1, <1>5 DEF t

(* What remains behind the i-th element.                                   *)
LEMMA RestRange ==
    ASSUME NEW S, NEW s \in Seq(S), NEW i \in 1 .. Len(s)
    PROVE  /\ SubSeq(s, i + 1, Len(s)) \in Seq(S)
           /\ Range(SubSeq(s, i + 1, Len(s))) \subseteq Range(s)
           /\ \A j \in 1 .. Len(s) : i < j => s[j] \in Range(SubSeq(s, i + 1, Len(s)))
<1> DEFINE t == SubSeq(s, i + 1, Len(s))
<1>1. /\ t \in Seq(S) /\ Len(t) = Len(s) - i /\ Len(s) \in Nat
      /\ \A k \in 1 .. Len(s) - i : t[k] = s[i + k]
  OBVIOUS
<1> HIDE DEF t
<1>2. Range(t) \subseteq Range(s)
  <2> SUFFICES ASSUME NEW x \in Range(t) PROVE x \in Range(s)
    OBVIOUS
  <2>1. PICK k \in 1 .. Len(t) : t[k] = x
    BY <1>1, SeqRange
  <2>2. i + k \in 1 .. Len(s) /\ s[i + k] = x
    BY <1>1, <2>1
  <2> QED BY <2>2, SeqRange
<1>3. ASSUME NEW j \in 1 .. Len(s), i < j PROVE s[j] \in Range(t)
  <2>1. j - i \in 1 .. Len(t) /\ t[j - i] = s[j]
    <3>1. j - i \in 1 .. Len(s) - i /\ i + (j - i) = j
      BY <1>1, <1>3
    <3> QED BY <1>1, <3>1
  <2> QED BY <1>1, <2>1, SeqRange
<1> QED BY <1>1, <1>2, <1>3 DEF t

LEMMA TailRange ==
    ASSUME NEW S, NEW s \in Seq(S), s # <<>>
    PROVE  /\ Head(s) \in S /\ Tail(s) \in Seq(S)
           /\ Head(s) \in Range(s) /\ Range(s) = Range(Tail(s)) \cup {Head(s)}
<1> DEFINE t == Tail(s)
<1>1. /\ t \in Seq(S) /\ Len(s) \in Nat \ {0} /\ Len(t) = Len(s) - 1
      /\ Head(s) = s[1] /\ Head(s) \in S
      /\ \A k \in 1 .. Len(s) - 1 : t[k] = s[k + 1]
  OBVIOUS
<1> HIDE DEF t
<1>2. Head(s) \in Range(s)
  <2>1. 1 \in 1 .. Len(s)
    BY <1>1
  <2> QED BY <1>1, <2>1, SeqRange
<1>3. ASSUME NEW x \in Range(t) PROVE x \in Range(s)
  <2>1. PICK k \in 1 .. Len(t) : t[k] = x
    BY <1>1, SeqRange
  <2>2. k + 1 \in 1 .. Len(s) /\ s[k + 1] = x
    BY <1>1, <2>1
  <2> QED BY <2>2, SeqRange
<1>4. ASSUME NEW x \in Range(s), x # Head(s) PROVE x \in Range(t)
  <2>1. PICK k \in 1 .. Len(s) : s[k] = x
    BY SeqRange
  <2>2. k - 1 \in 1 .. Len(t) /\ t[k - 1] = x
    <3>1. k # 1
      BY <1>1, <1>4, <2>1
    <3>2. k - 1 \in 1 .. Len(s) - 1 /\ (k - 1) + 1 = k
      BY <1>1, <3>1
    <3> QED BY <1>1, <2>1, <3>2
  <2> QED BY <1>1, <2>2, SeqRange
<1> QED BY <1>1, <1>2, <1>3, <1>4 DEF t

(* FlattenSeq puts the sequences one after the other.                      *)
Joined(f, ss, i) == IF i = 1 THEN ss[i] ELSE f[i - 1] \o ss[i]
LEMMA FlattenExists ==
    ASSUME NEW ss, NEW n \in Nat
    PROVE  \E f : f = [i \in 1 .. n |-> Joined(f, ss, i)]
<1> DEFINE Has(m) == \E f : f = [i \in 1 .. m |-> Joined(f, ss, i)]
           Good == {m \in 0 .. n : Has(m)}
<1>1. Has(0)
  <2>1. [i \in 1 .. 0 |-> <<>>] = [i \in 1 .. 0 |-> Joined([k \in 1 .. 0 |-> <<>>], ss, i)]
    OBVIOUS
  <2> QED BY <2>1
<1>2. ASSUME NEW m \in 1 .. n, Has(m - 1) PROVE Has(m)
  <2>1. PICK f : f = [i \in 1 .. (m - 1) |-> Joined(f, ss, i)]
    BY <1>2
  <2> DEFINE g == [i \in 1 .. m |-> IF i < m THEN f[i] ELSE Joined(f, ss, i)]
  <2>2. ASSUME NEW i \in 1 .. m PROVE g[i] = Joined(g, ss, i)
    <3>1. i # 1 => g[i - 1] = f[i - 1]
      OBVIOUS
    <3>2. i < m => f[i] = Joined(f, ss, i)
      <4>1. i < m => i \in 1 .. (m - 1)
        OBVIOUS
      <4> QED BY <2>1, <4>1
    <3>3. g[i] = Joined(f, ss, i)
      BY <3>2
    <3> HIDE DEF g
    <3> QED BY <3>1, <3>3 DEF Joined
  <2>3. g = [i \in 1 .. m |-> g[i]]
    OBVIOUS
  <2> HIDE DEF g
  <2>4. g = [i \in 1 .. m |-> Joined(g, ss, i)]
    BY <2>2, <2>3
  <2> QED BY <2>4
<1>3. \A m \in 0 .. n : m \in Good
  <2> HIDE DEF Has
  <2>1. 0 \in Good
    BY <1>1
  <2>2. ASSUME NEW m \in (0 + 1) .. n, m - 1 \in Good PROVE m \in Good
    BY <1>2, <2>2
  <2> HIDE DEF Good
  <2> QED BY <2>1, <2>2, Upward
<1>4. Has(n)
  <2> HIDE DEF Has
  <2> QED BY <1>3
<1> QED BY <1>4

LEMMA FlattenRange ==
    ASSUME NEW S, NEW ss \in Seq(Seq(S))
    PROVE  /\ FlattenSeq(ss) \in Seq(S)
           /\ \A x : x \in Range(FlattenSeq(ss)) <=> \E i \in 1 .. Len(ss) : x \in Range(ss[i])
<1> DEFINE n == Len(ss)
           F == CHOOSE f : f = [i \in 1 .. n |-> Joined(f, ss, i)]
<1>0. n \in Nat /\ \A i \in 1 .. n : ss[i] \in Seq(S)
  OBVIOUS
<1>1. CASE n = 0
  <2>1. FlattenSeq(ss) = <<>> /\ ss = <<>>
    BY <1>1 DEF FlattenSeq
  <2>2. <<>> \in Seq(S) /\ Range(<<>>) = {}
    BY DEF Range
  <2> QED BY <1>1, <2>1, <2>2
<1>2. CASE n # 0
  <2>1. F = [i \in 1 .. n |-> Joined(F, ss, i)]
    BY <1>0, FlattenExists
  <2>2. FlattenSeq(ss) = F[n]
    BY <1>2 DEF FlattenSeq, Joined
  <2> HIDE DEF F, n
  <2>3. n >= 1
    BY <1>0, <1>2
  <2> DEFINE Ok(m) == /\ F[m] \in Seq(S)
                      /\ \A x : x \in Range(F[m]) <=> \E i \in 1 .. m : x \in Range(ss[i])
             Good == {m \in 1 .. n : Ok(m)}
  <2>4. 1 \in Good
    <3>1. F[1] = ss[1] /\ 1 \in 1 .. n
      BY <2>1, <2>3, <1>0 DEF Joined
    <3>2. \A i \in 1 .. 1 : i = 1
      OBVIOUS
    <3> QED BY <1>0, <3>1, <3>2
  <2>5. ASSUME NEW m \in (1 + 1) .. n, m - 1 \in Good PROVE m \in Good
    <3>0. m \in 1 .. n /\ m - 1 \in 1 .. n /\ m # 1
      BY <1>0
    <3>1. F[m] = F[m - 1] \o ss[m]
      BY <2>1, <3>0 DEF Joined
    <3>2. F[m - 1] \in Seq(S) /\ ss[m] \in Seq(S)
      BY <1>0, <2>5, <3>0
    <3>3. F[m] \in Seq(S) /\ Range(F[m]) = Range(F[m - 1]) \cup Range(ss[m])
      BY <3>1, <3>2, ConcatRange
    <3>4. \A i : i \in 1 .. m <=> i \in 1 .. (m - 1) \/ i = m
      BY <1>0
    <3>5. \A x : x \in Range(F[m]) <=> \E i \in 1 .. m : x \in Range(ss[i])
      BY <2>5, <3>3, <3>4
    <3> QED BY <3>0, <3>3, <3>5
  <2>6. n \in Good
    <3> HIDE DEF Good
    <3>1. \A m \in 1 .. n : m \in Good
      BY <1>0, <2>4, <2>5, Upward
    <3> QED BY <1>0, <2>3, <3>1
  <2> QED BY <2>2, <2>6 DEF n
<1> QED BY <1>1, <1>2

LEMMA FilterRange ==
    ASSUME NEW S, NEW s \in Seq(S), NEW T
    PROVE  Filter(s, T) \in Seq(S) /\ Range(Filter(s, T)) = Range(s) \cap T
<1> DEFINE one(i) == IF s[i] \in T THEN <<s[i]>> ELSE <<>>
           ss == [i \in 1 .. Len(s) |-> one(i)]
<1>1. \A i \in 1 .. Len(s) :
         one(i) \in Seq(S) /\ Range(one(i)) = IF s[i] \in T THEN {s[i]} ELSE {}
  BY DEF Range
<1> HIDE DEF one
<1>2. ss \in Seq(Seq(S)) /\ Len(ss) = Len(s) /\ \A i \in 1 .. Len(s) : ss[i] = one(i)
  BY <1>1
<1>3. Filter(s, T) = FlattenSeq(ss)
  BY DEF Filter, one
<1> HIDE DEF ss
<1>4. /\ FlattenSeq(ss) \in Seq(S)
      /\ \A x : x \in Range(FlattenSeq(ss)) <=> \E i \in 1 .. Len(ss) : x \in Range(ss[i])
  BY ONLY <1>2, FlattenRange
<1>5. Range(FlattenSeq(ss)) = Range(s) \cap T
  <2> SUFFICES ASSUME NEW x PROVE x \in Range(FlattenSeq(ss)) <=> x \in Range(s) /\ x \in T
    OBVIOUS
  <2>1. x \in Range(FlattenSeq(ss)) <=> \E i \in 1 .. Len(s) : s[i] \in T /\ x = s[i]
    <3>1. \A i \in 1 .. Len(s) : x \in Range(ss[i]) <=> s[i] \in T /\ x = s[i]
      BY <1>1, <1>2
    <3> QED BY <1>2, <1>4, <3>1
  <2> QED BY <2>1, SeqRange
<1> QED BY <1>3, <1>4, <1>5

(* SetToSeq and SetToSeqs list every element: as many places as elements,  *)
(* and no element twice.                                                   *)
LEMMA ListsAll ==
    ASSUME NEW T, IsFiniteSet(T), NEW f \in [1 .. Cardinality(T) -> T],
           \A i, j \in 1 .. Cardinality(T) : f[i] = f[j] => i = j
    PROVE  /\ Cardinality(T) \in Nat /\ f \in Seq(T) /\ Len(f) = Cardinality(T)
           /\ \A x \in T : \E i \in 1 .. Cardinality(T) : f[i] = x
<1> DEFINE n == Cardinality(T)
<1>1. n \in Nat
  BY FS_CardinalityType
<1>2. IsFiniteSet(1 .. n) /\ Cardinality(1 .. n) = n
  BY <1>1, FS_Interval
<1>3. f \in Injection(1 .. n, T)
  BY DEF Injection, IsInjective
<1>4. f \in Surjection(1 .. n, T)
  <2> HIDE DEF n
  <2>1. Cardinality(1 .. n) = Cardinality(T)
    BY <1>2 DEF n
  <2> QED BY ONLY <1>3, <2>1, IsFiniteSet(T), FS_Injection
<1>5. \A x \in T : \E i \in 1 .. n : f[i] = x
  BY <1>4 DEF Surjection
<1> QED BY <1>1, <1>5

LEMMA SetToSeqRange ==
    ASSUME NEW T, IsFiniteSet(T)
    PROVE  SetToSeq(T) \in Seq(T) /\ Range(SetToSeq(T)) = T
<1> DEFINE n == Cardinality(T)
           f == SetToSeq(T)
<1>1. \E g \in [1 .. n -> T] : IsInjective(g)
  <2>1. PICK g \in Bijection(1 .. n, T) : TRUE
    BY FS_CardinalityType DEF ExistsBijection
  <2> QED BY <2>1 DEF Bijection, Injection, IsInjective
<1>2. f \in [1 .. n -> T] /\ IsInjective(f)
  BY <1>1 DEF SetToSeq
<1> HIDE DEF f
<1>3. \A i, j \in 1 .. n : f[i] = f[j] => i = j
  BY <1>2 DEF IsInjective
<1>4. f \in Seq(T) /\ Len(f) = n /\ \A x \in T : \E i \in 1 .. n : f[i] = x
  BY <1>2, <1>3, ListsAll
<1> QED BY <1>4, SeqRange DEF f

-----------------------------------------------------------------------------
(* Room for the tasks of the commands: a handle that was given out stands  *)
(* for a task or will, and the others are children.                        *)
Children == {t \in Tasks : tasks[t].parent # None}
Fresh == {h \in Handles : \E cmd \in commands[h] : ~Over(cmd) /\ ~Started(cmd)}
Room ==
    /\ Cardinality(Children) <= MaxTasks - MaxCommands
    /\ ntasks + Cardinality(Fresh) <= Cardinality(Children) + next_handle - 1
    /\ \A t \in Tasks : t > ntasks => tasks[t] = NoTask

(* A handle has one command, which has told its end when it is over, and   *)
(* whose task has no parent.                                               *)
CommandInv ==
    \A h \in Handles :
        /\ \A a, b \in commands[h] : a = b
        /\ \A cmd \in commands[h] :
              /\ Over(cmd) => told[h] = 1
              /\ Started(cmd) => cmd.task_handle <= ntasks /\ tasks[cmd.task_handle].parent = None

QueueInv ==
    /\ \A t \in Range(ready) \cup Range(spawn_queue) : tasks[t].st # "none"
    /\ \A t \in Tasks : tasks[t].st = "queued" =>
          t \in Range(spawn_queue) /\ tasks[t].futures = {} /\ tasks[t].awaits = None
          /\ tasks[t].inside = FALSE

(* What an operation has to say to the task that waits for it will be said. *)
Pending(o) ==
    \/ ops[o].st = "sent"
    \/ ops[o].st = "queued" /\ o \in Range(pending_requests)
    \/ ops[o].st = "answered" /\ ops[o].task \in Range(ready)
FutureInv ==
    \A t \in ActiveTasks(tasks) : \A o \in tasks[t].futures : ops[o].task = t /\ Pending(o)

Coming(t, c) == c \in Tasks /\ tasks[c].parent = t /\ tasks[c].st \in {"queued", "alive"}
AwaitInv ==
    \A t \in ActiveTasks(tasks) : t \in Range(ready) \/ tasks[t].awaits = None \/ Coming(t, tasks[t].awaits)
ReasonInv ==
    \A t \in ActiveTasks(tasks) :
        \/ t \in Range(ready)
        \/ tasks[t].futures # {} \/ tasks[t].awaits # None \/ tasks[t].inside
        \/ pc = "poll" /\ t = current

(* Tasks are numbered as they come, so that a child has a larger number    *)
(* than its parent.                                                        *)
NumberInv ==
    /\ \A t \in Tasks : t <= ntasks => tasks[t].st # "none"
    /\ \A t \in Tasks : tasks[t].parent # None => tasks[t].parent < t

Control ==
    /\ pc = "poll" => current # None /\ tasks[current].st = "alive"
    /\ pc # "host" => status = "none"
    /\ pc = "reap" => pending_requests = <<>>

LiveInv == /\ TypeOK /\ Room /\ CommandInv /\ QueueInv /\ FutureInv /\ AwaitInv /\ ReasonInv
           /\ NumberInv /\ Control

-----------------------------------------------------------------------------
LEMMA Bounds ==
    /\ MaxCommands \in Nat /\ MaxTasks \in Nat /\ MaxTasks >= MaxCommands
    /\ Handles \subseteq Nat \ {0} /\ Tasks \subseteq Nat \ {0} /\ None \notin Tasks /\ None \notin Handles
    /\ MaxSteps \in Nat \ {0} /\ MaxWaits \in Nat
  BY RuntimeBounds DEF Handles, Tasks, None

LEMMA HandleSets ==
    ASSUME NEW T \in SUBSET Handles
    PROVE  /\ IsFiniteSet(T) /\ Cardinality(T) \in Nat
           /\ \A U \in SUBSET T : Cardinality(U) \in Nat /\ Cardinality(U) <= Cardinality(T)
<1>1. IsFiniteSet(Handles)
  BY RuntimeBounds, FS_Interval DEF Handles
<1>2. IsFiniteSet(T)
  BY <1>1, FS_Subset
<1>3. ASSUME NEW U \in SUBSET T PROVE Cardinality(U) \in Nat /\ Cardinality(U) <= Cardinality(T)
  BY <1>2, FS_Subset, FS_CardinalityType
<1> QED BY <1>2, <1>3, FS_CardinalityType

LEMMA TaskSets ==
    ASSUME NEW T \in SUBSET Tasks
    PROVE  IsFiniteSet(T) /\ Cardinality(T) \in Nat
<1>1. IsFiniteSet(Tasks)
  BY RuntimeBounds, FS_Interval DEF Tasks
<1> QED BY <1>1, FS_Subset, FS_CardinalityType

(* There is always a number for the next task of a command, and for a      *)
(* child as long as SpawnChild may take one.                               *)
LEMMA Counts ==
    ASSUME TypeOK, Room
    PROVE  /\ Cardinality(Children) \in Nat /\ Cardinality(Fresh) \in Nat
           /\ ntasks + Cardinality(Fresh) <= MaxTasks
           /\ Cardinality(Children) < MaxTasks - MaxCommands => ntasks + 1 \in Tasks
<1>1. Cardinality(Children) \in Nat /\ Cardinality(Fresh) \in Nat
  BY HandleSets, TaskSets DEF Children, Fresh
<1>2. ntasks \in Nat /\ next_handle \in Nat /\ next_handle <= MaxCommands + 1
  BY Bounds DEF TypeOK
<1> HIDE DEF Children, Fresh
<1> QED BY <1>1, <1>2, Bounds DEF Room, Tasks

(* The fields of a task's record.                                          *)
LEMMA TaskFields ==
    ASSUME NEW r \in Task
    PROVE  /\ r.st \in {"none", "queued", "alive", "gone"} /\ r.futures \in SUBSET Ops
           /\ r.awaits \in Tasks \cup {None} /\ r.parent \in Tasks \cup {None}
           /\ r.inside \in BOOLEAN
           /\ \A x \in {"none", "queued", "alive", "gone"}, f \in SUBSET Ops, a \in Tasks \cup {None} :
                LET q == [st |-> x, root |-> r.root, parent |-> r.parent, futures |-> f, awaits |-> a,
                          inside |-> FALSE]
                IN  q \in Task
  BY DEF Task

LEMMA NoTaskType == NoTask \in Task /\ NoTask.st = "none" /\ NoTask.parent = None
                    /\ NoTask.futures = {} /\ NoTask.awaits = None /\ NoTask.inside = FALSE
  BY DEF NoTask, Task

-----------------------------------------------------------------------------
LEMMA InitLive == Init => LiveInv
<1> SUFFICES ASSUME Init PROVE LiveInv
  OBVIOUS
<1>1. TypeOK
  <2>1. NoTask \in Task /\ NoOp \in Op /\ <<>> \in Seq(Tasks) /\ <<>> \in Seq(Ops)
    BY NoTaskType DEF NoOp, Op, Kinds
  <2>2. 1 \in 1 .. MaxCommands + 1 /\ 0 \in 0 .. MaxTasks /\ 0 \in 0 .. MaxSteps - 1
        /\ 0 \in 0 .. MaxWaits
    BY Bounds
  <2> HIDE DEF NoTask, NoOp
  <2> QED BY <2>1, <2>2 DEF Init, TypeOK
<1>2. Room
  <2>1. Children = {} /\ Fresh = {}
    BY NoTaskType DEF Init, Children, Fresh
  <2>2. Cardinality(Children) = 0 /\ Cardinality(Fresh) = 0
    BY <2>1, FS_EmptySet
  <2> HIDE DEF Children, Fresh
  <2> QED BY <2>2, Bounds DEF Room, Init
<1>3. Range(ready) = {} /\ Range(spawn_queue) = {} /\ ActiveTasks(tasks) = {}
  BY NoTaskType DEF Init, Range, ActiveTasks
<1>4. CommandInv /\ Control
  BY DEF Init, CommandInv, Control
<1>5. QueueInv /\ FutureInv /\ AwaitInv /\ ReasonInv
  BY <1>3, NoTaskType DEF Init, QueueInv, FutureInv, AwaitInv, ReasonInv
<1>6. NumberInv
  <2>1. ntasks = 0 /\ \A t \in Tasks : tasks[t].parent = None /\ ~(t <= 0)
    BY NoTaskType, Bounds DEF Init
  <2> QED BY <2>1 DEF NumberInv
<1> QED BY <1>1, <1>2, <1>4, <1>5, <1>6 DEF LiveInv

-----------------------------------------------------------------------------
(* The host's calls.                                                       *)
LEMMA CreateLive ==
    ASSUME Inv, LiveInv, create_command
    PROVE  LiveInv'
<1> DEFINE new == [cancelled |-> FALSE, exit_code |-> FALSE, task_handle |-> None]
<1>1. /\ UNCHANGED <<tasks, ntasks, ready, spawn_queue, ops, pending_requests,
                     stdin_closed_commands, pending_stdin_ops, pc, current, total_steps, state, told, eofs, nwaits>>
      /\ commands' = [commands EXCEPT ![next_handle] = {new}]
      /\ next_handle' = next_handle + 1 /\ next_handle <= MaxCommands /\ pc = "host" /\ status' = "none"
  BY DEF create_command, schedulerVars, channelVars, stdinVars, loopVars, history
<1>2. /\ new \in CommandState /\ ~Over(new) /\ ~Started(new)
  BY DEF CommandState, Over, Started
<1>3. /\ next_handle \in Handles /\ commands \in [Handles -> SUBSET CommandState]
      /\ next_handle \in Nat /\ next_handle + 1 \in 1 .. MaxCommands + 1
  BY <1>1, Bounds DEF LiveInv, TypeOK, Handles
<1> HIDE DEF new
<1>4. \A h \in Handles : commands'[h] = IF h = next_handle THEN {new} ELSE commands[h]
  BY <1>1, <1>3
<1>5. TypeOK'
  <2>1. commands' \in [Handles -> SUBSET CommandState]
    BY <1>1, <1>2, <1>3
  <2> QED BY <1>1, <1>3, <2>1 DEF LiveInv, TypeOK
<1>6. Room'
  <2>1. Fresh' \subseteq Fresh \cup {next_handle}
    BY <1>4 DEF Fresh
  <2>2. Fresh \subseteq Handles /\ Fresh' \subseteq Handles
    BY DEF Fresh
  <2> HIDE DEF Fresh
  <2>3. Cardinality(Fresh') <= Cardinality(Fresh) + 1 /\ Cardinality(Fresh') \in Nat /\ Cardinality(Fresh) \in Nat
    <3>1. IsFiniteSet(Fresh) /\ Cardinality(Fresh) \in Nat
      BY <2>2, HandleSets
    <3>2. Fresh \cup {next_handle} \in SUBSET Handles
      BY <2>2, <1>3
    <3>3. Cardinality(Fresh') <= Cardinality(Fresh \cup {next_handle}) /\ Cardinality(Fresh') \in Nat
      BY <2>1, <3>2, HandleSets
    <3>4. Cardinality(Fresh \cup {next_handle}) \in {Cardinality(Fresh), Cardinality(Fresh) + 1}
      BY <3>1, FS_AddElement
    <3> QED BY <3>1, <3>3, <3>4
  <2>4. Cardinality(Children') = Cardinality(Children) /\ Cardinality(Children) \in Nat
    BY <1>1, Counts DEF LiveInv, Children
  <2>5. ntasks' = ntasks /\ ntasks \in Nat
    BY <1>1, Bounds DEF LiveInv, TypeOK
  <2> HIDE DEF Children
  <2>6. ntasks' + Cardinality(Fresh') <= Cardinality(Children') + next_handle' - 1
    <3>1. ntasks + Cardinality(Fresh) <= Cardinality(Children) + next_handle - 1
      BY DEF LiveInv, Room
    <3> QED BY <1>1, <1>3, <2>3, <2>4, <2>5, <3>1
  <2> QED BY <1>1, <2>4, <2>6 DEF LiveInv, Room
<1>7. CommandInv'
  BY <1>1, <1>2, <1>4 DEF LiveInv, CommandInv
<1>8. (QueueInv /\ FutureInv /\ AwaitInv /\ ReasonInv /\ NumberInv /\ Control)'
  BY <1>1 DEF LiveInv, QueueInv, FutureInv, Pending, AwaitInv, Coming, ReasonInv,
                      NumberInv, Control, ActiveTasks
<1> QED BY <1>5, <1>6, <1>7, <1>8 DEF LiveInv

LEMMA RoomKept ==
    ASSUME LiveInv, UNCHANGED <<ntasks, next_handle>>, Fresh' \subseteq Fresh, Children' = Children,
           \A t \in Tasks : t > ntasks => tasks'[t] = tasks[t]
    PROVE  Room'
<1>1. /\ Cardinality(Fresh) \in Nat /\ Cardinality(Fresh') \in Nat
      /\ Cardinality(Fresh') <= Cardinality(Fresh)
  BY HandleSets DEF Fresh
<1>2. Cardinality(Children) \in Nat
  BY TaskSets DEF Children
<1>3. ntasks \in Nat /\ next_handle \in Nat
  BY Bounds DEF LiveInv, TypeOK
<1> HIDE DEF Fresh, Children
<1>4. ntasks + Cardinality(Fresh') <= Cardinality(Children) + next_handle - 1
  BY <1>1, <1>2, <1>3 DEF LiveInv, Room
<1> QED BY <1>4 DEF LiveInv, Room

LEMMA NumbersKept ==
    ASSUME LiveInv, UNCHANGED ntasks,
           \A t \in Tasks : /\ tasks'[t].parent = tasks[t].parent
                            /\ tasks[t].st # "none" => tasks'[t].st # "none"
    PROVE  NumberInv'
<1>1. \A t \in Tasks : t <= ntasks => tasks'[t].st # "none"
  BY DEF LiveInv, NumberInv
<1>2. \A t \in Tasks : tasks'[t].parent # None => tasks'[t].parent < t
  <2> SUFFICES ASSUME NEW t \in Tasks, tasks'[t].parent # None PROVE tasks'[t].parent < t
    OBVIOUS
  <2>1. tasks'[t].parent = tasks[t].parent
    OBVIOUS
  <2> QED BY <2>1 DEF LiveInv, NumberInv
<1> QED BY <1>1, <1>2 DEF NumberInv

LEMMA DeleteLive ==
    ASSUME Inv, LiveInv, NEW g \in Handles, delete_command(g)
    PROVE  LiveInv'
<1>1. /\ UNCHANGED <<next_handle, tasks, ntasks, ready, spawn_queue, ops, pending_requests,
                     stdin_closed_commands, pending_stdin_ops, pc, current, total_steps, state, told, eofs, nwaits>>
      /\ commands' = [commands EXCEPT ![g] = {}]
      /\ pc = "host" /\ status' = "none"
  BY DEF delete_command, schedulerVars, channelVars, stdinVars, loopVars, history
<1>2. commands \in [Handles -> SUBSET CommandState]
  BY DEF LiveInv, TypeOK
<1>3. \A h \in Handles : commands'[h] = IF h = g THEN {} ELSE commands[h]
  BY <1>1, <1>2
<1>4. TypeOK'
  BY <1>1, <1>2 DEF LiveInv, TypeOK
<1>5. Room'
  <2>1. Fresh' \subseteq Fresh /\ Children' = Children
    BY <1>1, <1>3 DEF Fresh, Children
  <2> QED BY <1>1, <2>1, RoomKept
<1>6. CommandInv'
  BY <1>1, <1>3 DEF LiveInv, CommandInv
<1>7. (QueueInv /\ FutureInv /\ AwaitInv /\ ReasonInv /\ NumberInv /\ Control)'
  BY <1>1 DEF LiveInv, QueueInv, FutureInv, Pending, AwaitInv, Coming, ReasonInv,
                      NumberInv, Control, ActiveTasks
<1> QED BY <1>4, <1>5, <1>6, <1>7 DEF LiveInv

(* Operations that are not over are not forgotten.                         *)
LEMMA SettledKeeps ==
    ASSUME NEW table, table \in [Ops -> Op], NEW tracked
    PROVE  /\ Settled(table, tracked) \in [Ops -> Op]
           /\ \A o \in Ops : table[o].st # "over" => Settled(table, tracked)[o] = table[o]
           /\ \A o \in Ops : table[o].st = "over" => Settled(table, tracked)[o].st \in {"over", "free"}
<1>1. NoOp \in Op /\ NoOp.st = "free"
  BY DEF NoOp, Op, Kinds
<1> HIDE DEF NoOp
<1> QED BY <1>1 DEF Settled

LEMMA EndAllFields ==
    ASSUME TypeOK, NEW dead
    PROVE  /\ EndAll(dead) \in [Tasks -> Task]
           /\ \A t \in Tasks : EndAll(dead)[t].parent = tasks[t].parent
           /\ \A t \in Tasks : t \in dead => EndAll(dead)[t].st = "gone"
           /\ \A t \in Tasks : t \notin dead => EndAll(dead)[t] = tasks[t]
<1>1. \A r \in Task : [r EXCEPT !.st = "gone", !.futures = {}, !.awaits = None, !.inside = FALSE]
        = [st |-> "gone", root |-> r.root, parent |-> r.parent, futures |-> {}, awaits |-> None, inside |-> FALSE]
  <2> SUFFICES ASSUME NEW r \in Task
               PROVE  [r EXCEPT !.st = "gone", !.futures = {}, !.awaits = None, !.inside = FALSE]
                        = [st |-> "gone", root |-> r.root, parent |-> r.parent,
                           futures |-> {}, awaits |-> None, inside |-> FALSE]
    OBVIOUS
  <2> DEFINE q == [r EXCEPT !.st = "gone", !.futures = {}, !.awaits = None, !.inside = FALSE]
  <2>1. DOMAIN r = {"st", "root", "parent", "futures", "awaits", "inside"}
    BY DEF Task
  <2>2. /\ q = [f \in {"st", "root", "parent", "futures", "awaits", "inside"} |-> q[f]]
        /\ q.st = "gone" /\ q.futures = {} /\ q.awaits = None /\ q.inside = FALSE
        /\ q.root = r.root /\ q.parent = r.parent
    BY <2>1
  <2>3. q = [st |-> "gone", root |-> r.root, parent |-> r.parent, futures |-> {}, awaits |-> None, inside |-> FALSE]
    <3> HIDE DEF q
    <3> QED BY <2>2
  <2> QED BY <2>3
<1>2. \A r \in Task : LET q == [st |-> "gone", root |-> r.root, parent |-> r.parent,
                                futures |-> {}, awaits |-> None, inside |-> FALSE]
                      IN  q \in Task
  BY TaskFields
<1>3. \A t \in Tasks : tasks[t] \in Task
  BY DEF TypeOK
<1>4. EndAll(dead) = [t \in Tasks |-> IF t \in dead
                        THEN [st |-> "gone", root |-> tasks[t].root, parent |-> tasks[t].parent,
                              futures |-> {}, awaits |-> None, inside |-> FALSE]
                        ELSE tasks[t]]
  BY <1>1, <1>3 DEF EndAll
<1>5. EndAll(dead) \in [Tasks -> Task]
  BY <1>2, <1>3, <1>4
<1> QED BY <1>4, <1>5

(* Whoever is below a task hangs on a chain of tasks that are, too.        *)
LEMMA SubtreeChains ==
    ASSUME NEW t
    PROVE  /\ t \in Subtree(t) /\ Subtree(t) \subseteq {t} \cup ActiveTasks(tasks)
           /\ \A c \in Subtree(t) : c # t => tasks[c].parent \in Subtree(t)
<1> DEFINE Closed(S) == t \in S /\ (\A c \in ActiveTasks(tasks) : tasks[c].parent \in S => c \in S)
           U == {t} \cup Tasks
<1>1. Subtree(t) = {s \in {t} \cup ActiveTasks(tasks) : \A S \in SUBSET U : Closed(S) => s \in S}
  BY DEF Subtree
<1>2. t \in Subtree(t) /\ Subtree(t) \subseteq {t} \cup ActiveTasks(tasks) /\ Subtree(t) \subseteq U
  BY <1>1 DEF ActiveTasks
<1>3. ASSUME NEW c \in Subtree(t), c # t, tasks[c].parent \notin Subtree(t) PROVE FALSE
  <2> DEFINE S == Subtree(t) \ {c}
  <2>1. t \in S /\ S \in SUBSET U
    BY <1>2, <1>3
  <2>2. ASSUME NEW d \in ActiveTasks(tasks), tasks[d].parent \in S PROVE d \in S
    <3>1. tasks[d].parent \in Subtree(t) /\ d # c
      BY <2>2, <1>3
    <3>2. \A T \in SUBSET U : Closed(T) => d \in T
      <4> SUFFICES ASSUME NEW T \in SUBSET U, Closed(T) PROVE d \in T
        OBVIOUS
      <4>1. tasks[d].parent \in T
        BY <1>1, <3>1
      <4> QED BY <4>1
    <3>3. d \in Subtree(t)
      BY <1>1, <3>2
    <3> QED BY <3>1, <3>3
  <2>3. Closed(S)
    BY <2>1, <2>2
  <2>4. c \in S
    BY <1>1, <2>1, <2>3
  <2> QED BY <2>4
<1> QED BY <1>2, <1>3

(* The end of some tasks, where those that wait for one of them are woken. *)
LEMMA EndingLive ==
    ASSUME LiveInv, NEW dead, tasks' = EndAll(dead), ready' \in Seq(Tasks),
           Range(ready') \subseteq Range(ready) \cup ActiveTasks(tasks),
           Range(ready) \cap (ActiveTasks(tasks) \ dead) \subseteq Range(ready'),
           \A t \in ActiveTasks(tasks) \ dead : tasks[t].awaits \in dead => t \in Range(ready'),
           pc = "poll" => current \in dead,
           UNCHANGED <<ntasks, spawn_queue, pending_requests>>,
           \A o \in Ops : ops[o].st \in {"queued", "sent", "answered"} => ops'[o] = ops[o]
    PROVE  (QueueInv /\ FutureInv /\ AwaitInv /\ ReasonInv /\ NumberInv)' /\ Children' = Children
<1>1. /\ \A t \in Tasks : tasks'[t].parent = tasks[t].parent
      /\ \A t \in Tasks : t \in dead => tasks'[t].st = "gone"
      /\ \A t \in Tasks : t \notin dead => tasks'[t] = tasks[t]
  BY EndAllFields DEF LiveInv
<1>2. ActiveTasks(tasks') = ActiveTasks(tasks) \ dead
  BY <1>1 DEF ActiveTasks
<1>3. Range(ready) \subseteq Tasks /\ Range(spawn_queue) \subseteq Tasks /\ ActiveTasks(tasks) \subseteq Tasks
  BY SeqRange DEF LiveInv, TypeOK, ActiveTasks
<1>4. \A t \in Tasks : tasks[t].futures \in SUBSET Ops
  BY TaskFields DEF LiveInv, TypeOK
<1>5. QueueInv'
  <2>1. \A t \in Range(ready') \cup Range(spawn_queue) : t \in Tasks /\ tasks[t].st # "none"
    BY <1>3 DEF LiveInv, QueueInv, ActiveTasks
  <2>2. \A t \in Tasks : tasks[t].st # "none" => tasks'[t].st # "none"
    BY <1>1
  <2>3. \A t \in Tasks : tasks'[t].st = "queued" => tasks'[t] = tasks[t]
    BY <1>1
  <2>4. \A t \in Tasks : tasks'[t].st = "queued" =>
          t \in Range(spawn_queue) /\ tasks'[t].futures = {} /\ tasks'[t].awaits = None
          /\ tasks'[t].inside = FALSE
    BY <2>3 DEF LiveInv, QueueInv
  <2> QED BY <2>1, <2>2, <2>4 DEF QueueInv
<1>6. FutureInv'
  <2> SUFFICES ASSUME NEW t \in ActiveTasks(tasks) \ dead, NEW o \in tasks[t].futures
               PROVE  ops'[o].task = t /\ Pending(o)'
    BY <1>1, <1>2, <1>3 DEF FutureInv
  <2>1. o \in Ops /\ ops[o].task = t /\ Pending(o)
    BY <1>3, <1>4 DEF LiveInv, FutureInv
  <2>2. ops'[o] = ops[o]
    BY <2>1 DEF Pending
  <2>3. t \in Range(ready) => t \in Range(ready')
    OBVIOUS
  <2> QED BY <2>1, <2>2, <2>3 DEF Pending
<1>7. AwaitInv'
  <2> SUFFICES ASSUME NEW t \in ActiveTasks(tasks) \ dead, t \notin Range(ready'), tasks[t].awaits # None
               PROVE  Coming(t, tasks[t].awaits)'
    BY <1>1, <1>2, <1>3 DEF AwaitInv
  <2>1. Coming(t, tasks[t].awaits) /\ tasks[t].awaits \notin dead
    BY DEF LiveInv, AwaitInv
  <2> QED BY <2>1, <1>1, <1>3 DEF Coming
<1>8. ReasonInv'
  <2> SUFFICES ASSUME NEW t \in ActiveTasks(tasks) \ dead, t \notin Range(ready')
               PROVE  tasks[t].futures # {} \/ tasks[t].awaits # None \/ tasks[t].inside
    BY <1>1, <1>2, <1>3 DEF ReasonInv
  <2> QED BY DEF LiveInv, ReasonInv
<1>9. Children' = Children
  BY <1>1 DEF Children
<1>10. NumberInv'
  <2>1. \A t \in Tasks : tasks[t].st # "none" => tasks'[t].st # "none"
    BY <1>1
  <2> QED BY <1>1, <2>1, NumbersKept
<1> QED BY <1>5, <1>6, <1>7, <1>8, <1>9, <1>10

LEMMA CancelLive ==
    ASSUME Inv, LiveInv, NEW g \in Handles, cancel_command(g)
    PROVE  LiveInv'
<1> DEFINE dead(cmd) == IF Alive(cmd.task_handle) THEN Subtree(cmd.task_handle) ELSE {}
           over == [cancelled |-> TRUE, exit_code |-> TRUE, task_handle |-> None]
<1>1. PICK cmd \in commands[g] :
        /\ ~Over(cmd)
        /\ commands' = [commands EXCEPT ![g] = {over}]
        /\ tasks' = EndAll(dead(cmd))
        /\ ready' = IF dead(cmd) = {} THEN ready ELSE Filter(ready, ActiveTasks(tasks) \ dead(cmd))
  BY DEF cancel_command
<1>2. /\ UNCHANGED <<next_handle, ntasks, spawn_queue, pending_requests, pc, current,
                     total_steps, state, eofs, nwaits>>
      /\ pc = "host" /\ status' = "none"
      /\ stdin_closed_commands' = stdin_closed_commands \ {g}
      /\ pending_stdin_ops' = {p \in pending_stdin_ops : p[2] # g}
      /\ ops' = Settled(ops, pending_stdin_ops') /\ told' = [told EXCEPT ![g] = @ + 1]
  BY DEF cancel_command, loopVars
<1>3. PICK D : D = dead(cmd)
  OBVIOUS
<1>4. /\ commands \in [Handles -> SUBSET CommandState] /\ told \in [Handles -> 0 .. 1]
      /\ ops \in [Ops -> Op] /\ ready \in Seq(Tasks)
  BY DEF LiveInv, TypeOK
<1>5. /\ over \in CommandState /\ Over(over) /\ ~Started(over)
  BY DEF CommandState, Over, Started
<1>6. cmd.task_handle \in Tasks \cup {None}
  BY <1>4 DEF CommandState
<1>7. /\ D \subseteq ActiveTasks(tasks)
      /\ \A c \in D : (c = cmd.task_handle /\ c # None) \/ tasks[c].parent \in D
  <2>1. CASE Alive(cmd.task_handle)
    BY <1>3, <1>6, <2>1, SubtreeChains DEF Alive, ActiveTasks
  <2>2. CASE ~Alive(cmd.task_handle)
    BY <1>3, <2>2
  <2> QED BY <2>1, <2>2
<1>8. /\ ready' \in Seq(Tasks) /\ Range(ready') \subseteq Range(ready)
      /\ Range(ready) \cap (ActiveTasks(tasks) \ D) \subseteq Range(ready')
  <2>1. ready' = ready \/ ready' = Filter(ready, ActiveTasks(tasks) \ D)
    BY <1>1, <1>3
  <2> QED BY <1>4, <2>1, FilterRange
<1>9. tasks' = EndAll(D)
  BY <1>1, <1>3
<1>10. commands' = [commands EXCEPT ![g] = {over}] /\ ~Over(cmd)
  BY <1>1
<1> HIDE DEF over, dead
<1>11. \A t \in ActiveTasks(tasks) \ D : tasks[t].awaits \in D => t \in Range(ready')
  <2> SUFFICES ASSUME NEW t \in ActiveTasks(tasks) \ D, tasks[t].awaits \in D, t \notin Range(ready)
               PROVE  FALSE
    BY <1>8
  <2>1. t \in Tasks /\ tasks[t].awaits \in Tasks
    BY <1>7 DEF ActiveTasks
  <2>2. tasks[tasks[t].awaits].parent = t
    BY <2>1, Bounds DEF LiveInv, AwaitInv, Coming
  <2>3. tasks[t].awaits = cmd.task_handle
    BY <1>7, <2>2
  <2>4. tasks[cmd.task_handle].parent = None
    BY <2>1, <2>3, Bounds DEF LiveInv, CommandInv, Started
  <2> QED BY <2>1, <2>2, <2>3, <2>4, Bounds
<1>12. ops' \in [Ops -> Op] /\ \A o \in Ops : ops[o].st \in {"queued", "sent", "answered"} => ops'[o] = ops[o]
  BY <1>2, <1>4, SettledKeeps
<1>13. (QueueInv /\ FutureInv /\ AwaitInv /\ ReasonInv /\ NumberInv)' /\ Children' = Children
  BY <1>2, <1>8, <1>9, <1>11, <1>12, EndingLive
<1>14. /\ tasks' \in [Tasks -> Task] /\ \A t \in Tasks : tasks'[t].parent = tasks[t].parent
       /\ \A t \in Tasks : t \notin D => tasks'[t] = tasks[t]
  BY <1>9, EndAllFields DEF LiveInv
<1>15. told[g] = 0
  BY <1>10 DEF Inv, Retired
<1>16. \A h \in Handles : /\ commands'[h] = IF h = g THEN {over} ELSE commands[h]
                          /\ told'[h] = IF h = g THEN 1 ELSE told[h]
  BY <1>2, <1>4, <1>10, <1>15
<1>17. TypeOK'
  <2>1. commands' \in [Handles -> SUBSET CommandState] /\ told' \in [Handles -> 0 .. 1]
    <3>1. told' = [told EXCEPT ![g] = 1]
      BY <1>2, <1>15
    <3> QED BY <1>4, <1>5, <1>10, <3>1
  <2>2. stdin_closed_commands' \subseteq Handles /\ pending_stdin_ops' \subseteq Ops \X Handles
    BY <1>2 DEF LiveInv, TypeOK
  <2> QED BY <1>2, <1>8, <1>12, <1>14, <2>1, <2>2 DEF LiveInv, TypeOK
<1>18. Room'
  <2>1. Fresh' \subseteq Fresh
    BY <1>5, <1>16 DEF Fresh
  <2>2. \A t \in Tasks : t > ntasks => tasks'[t] = tasks[t]
    <3>1. \A t \in Tasks : t > ntasks => tasks[t].st # "alive"
      BY NoTaskType DEF LiveInv, Room
    <3> QED BY <1>7, <1>14, <3>1 DEF ActiveTasks
  <2> QED BY <1>2, <1>13, <2>1, <2>2, RoomKept
<1>19. CommandInv'
  <2> SUFFICES ASSUME NEW h \in Handles
               PROVE  /\ \A a, b \in commands'[h] : a = b
                      /\ \A c \in commands'[h] :
                           /\ Over(c) => told'[h] = 1
                           /\ Started(c) => c.task_handle <= ntasks' /\ tasks'[c.task_handle].parent = None
    BY DEF CommandInv
  <2>1. CASE h = g
    BY <1>5, <1>16, <2>1
  <2>2. CASE h # g
    <3>1. \A c \in commands[h] : Started(c) => c.task_handle \in Tasks
      BY <1>4 DEF Started, CommandState
    <3> QED BY <1>2, <1>14, <1>16, <2>2, <3>1 DEF LiveInv, CommandInv
  <2> QED BY <2>1, <2>2
<1>20. Control'
  BY <1>2 DEF Control
<1> QED BY <1>13, <1>17, <1>18, <1>19, <1>20 DEF LiveInv

(* A record of an operation, and what submit_results does to one.          *)
LEMMA OpFields ==
    ASSUME NEW r \in Op
    PROVE  /\ r.st \in {"free", "queued", "sent", "answered", "over"} /\ r.kind \in Kinds
           /\ r.task \in Tasks \cup {None} /\ r.command \in Handles \cup {None}
  BY DEF Op

LEMMA OpTurns ==
    ASSUME NEW r \in Op, NEW x \in {"free", "queued", "sent", "answered", "over"}
    PROVE  [r EXCEPT !.st = x] \in Op /\ [r EXCEPT !.st = x].st = x /\ [r EXCEPT !.st = x].task = r.task
  BY DEF Op

LEMMA SubmitResultsLive ==
    ASSUME Inv, LiveInv, NEW o \in Ops, NEW answer, submit_results(o, answer)
    PROVE  LiveInv'
<1> DEFINE x == IF ops[o].st # "sent" THEN ops[o].st ELSE IF Wanted(o) THEN "answered" ELSE "over"
           table == [ops EXCEPT ![o].st = x]
<1>1. /\ UNCHANGED <<commands, next_handle, tasks, ntasks, spawn_queue,
                     pending_requests, pc, current, total_steps, state, told, nwaits>>
      /\ pc = "host" /\ status' = "none"
      /\ ready' = IF ops[o].st = "sent" /\ Wanted(o) THEN Append(ready, ops[o].task) ELSE ready
  BY DEF submit_results, loopVars
<1>2. ops' = Settled(table, pending_stdin_ops')
  BY DEF submit_results
<1>4. ops \in [Ops -> Op] /\ ready \in Seq(Tasks)
  BY DEF LiveInv, TypeOK
<1>4a. ops[o] \in Op
  BY <1>4
<1>3. /\ stdin_closed_commands' \subseteq Handles /\ pending_stdin_ops' \subseteq pending_stdin_ops
      /\ eofs' \subseteq Handles
  <2>1. \A p \in StdinOf(o) : p[2] \in Handles
    BY DEF StdinOf, LiveInv, TypeOK
  <2>2. ops[o].command \in Handles \cup {None}
    BY <1>4a, OpFields
  <2> QED BY <2>1, <2>2 DEF submit_results, LiveInv, TypeOK
<1>5. x \in {"free", "queued", "sent", "answered", "over"}
  BY <1>4a, OpFields
<1>6. /\ table \in [Ops -> Op] /\ \A p \in Ops : p # o => table[p] = ops[p]
      /\ table[o].st = x /\ table[o].task = ops[o].task
  <2> DEFINE r == [ops[o] EXCEPT !.st = x]
  <2>1. table = [ops EXCEPT ![o] = r]
    BY <1>4
  <2> HIDE DEF x
  <2>2. r \in Op /\ r.st = x /\ r.task = ops[o].task
    BY <1>4a, <1>5, OpTurns
  <2> HIDE DEF r, table
  <2> QED BY <1>4, <2>1, <2>2
<1>7. /\ \A p \in Ops : p # o /\ ops[p].st # "over" => ops'[p] = ops[p]
      /\ ops[o].st # "sent" /\ ops[o].st # "over" => ops'[o].st = ops[o].st /\ ops'[o].task = ops[o].task
      /\ ops[o].st = "sent" /\ Wanted(o) => ops'[o].st = "answered" /\ ops'[o].task = ops[o].task
      /\ ops' \in [Ops -> Op]
  <2> HIDE DEF table
  <2> QED BY <1>2, <1>5, <1>6, SettledKeeps
<1>8. /\ ready' \in Seq(Tasks) /\ Range(ready) \subseteq Range(ready')
      /\ \A t \in Range(ready') : t \in Range(ready) \/ (t \in Tasks /\ tasks[t].st = "alive")
      /\ ops[o].st = "sent" /\ Wanted(o) => ops[o].task \in Range(ready')
  <2>1. Wanted(o) => ops[o].task \in Tasks /\ tasks[ops[o].task].st = "alive"
    BY <1>4a, OpFields DEF Wanted, Alive
  <2> QED BY <1>1, <1>4, <2>1, AppendRange
<1> HIDE DEF table, x
<1>9. TypeOK'
  BY <1>1, <1>3, <1>7, <1>8 DEF LiveInv, TypeOK
<1>10. Room' /\ CommandInv' /\ Control'
  BY <1>1 DEF LiveInv, Room, CommandInv, Control, Children, Fresh
<1>11. QueueInv'
  BY <1>1, <1>8 DEF LiveInv, QueueInv
<1>12. FutureInv'
  <2> SUFFICES ASSUME NEW t \in ActiveTasks(tasks), NEW p \in tasks[t].futures
               PROVE  ops'[p].task = t /\ Pending(p)'
    BY <1>1 DEF FutureInv
  <2>1. p \in Ops /\ ops[p].task = t /\ Pending(p)
    BY TaskFields DEF LiveInv, FutureInv, TypeOK, ActiveTasks
  <2>2. p = o => Wanted(o)
    BY <2>1, Bounds DEF Wanted, Alive, ActiveTasks
  <2>3. CASE p = o
    BY <1>1, <1>7, <1>8, <2>1, <2>2, <2>3 DEF Pending
  <2>4. CASE p # o
    BY <1>1, <1>7, <1>8, <2>1, <2>4 DEF Pending
  <2> QED BY <2>3, <2>4
<1>13. AwaitInv' /\ ReasonInv' /\ NumberInv'
  BY <1>1, <1>8 DEF LiveInv, AwaitInv, ReasonInv, NumberInv, Coming, ActiveTasks
<1> QED BY <1>9, <1>10, <1>11, <1>12, <1>13 DEF LiveInv

-----------------------------------------------------------------------------
(* step.  New tasks are in the spawn queue.                                *)
LEMMA BirthLive ==
    ASSUME LiveInv, NEW N \in SUBSET Tasks, \A t \in N : tasks[t] = NoTask,
           \A t \in N : tasks'[t].st = "queued" /\ tasks'[t].futures = {}
                       /\ tasks'[t].awaits = None /\ tasks'[t].inside = FALSE,
           \A t \in Tasks \ N : tasks'[t] = tasks[t],
           Range(spawn_queue') = Range(spawn_queue) \cup N,
           UNCHANGED <<ready, ops, pending_requests>>,
           pc = "poll" => pc' = "poll" /\ current' = current
    PROVE  (QueueInv /\ FutureInv /\ AwaitInv /\ ReasonInv)'
<1>1. \A t \in Tasks : tasks[t].st # "none" => tasks'[t] = tasks[t]
  BY NoTaskType
<1>2. ActiveTasks(tasks') = ActiveTasks(tasks)
  BY NoTaskType DEF ActiveTasks
<1>3. Range(ready) \subseteq Tasks /\ Range(spawn_queue) \subseteq Tasks /\ ActiveTasks(tasks) \subseteq Tasks
  BY SeqRange DEF LiveInv, TypeOK, ActiveTasks
<1>4. \A t \in ActiveTasks(tasks) : tasks'[t] = tasks[t]
  BY <1>1 DEF ActiveTasks
<1>5. QueueInv'
  BY <1>1, <1>3 DEF LiveInv, QueueInv
<1>6. FutureInv'
  BY <1>2, <1>4 DEF LiveInv, FutureInv, Pending
<1>7. AwaitInv'
  <2>1. \A t, c : Coming(t, c) => c \in Tasks /\ tasks'[c] = tasks[c]
    BY <1>1 DEF Coming
  <2> QED BY <1>2, <1>4, <2>1 DEF LiveInv, AwaitInv, Coming
<1>8. ReasonInv'
  BY <1>2, <1>4 DEF LiveInv, ReasonInv
<1> QED BY <1>5, <1>6, <1>7, <1>8

LEMMA NewTask ==
    ASSUME NEW a, NEW b
    PROVE  /\ [NoTask EXCEPT !.st = "queued", !.root = a, !.parent = b] =
                [st |-> "queued", root |-> a, parent |-> b, futures |-> {}, awaits |-> None, inside |-> FALSE]
           /\ [NoTask EXCEPT !.st = "queued", !.root = a] =
                [st |-> "queued", root |-> a, parent |-> None, futures |-> {}, awaits |-> None, inside |-> FALSE]
<1> DEFINE D == {"st", "root", "parent", "futures", "awaits", "inside"}
           q == [NoTask EXCEPT !.st = "queued", !.root = a, !.parent = b]
           p == [NoTask EXCEPT !.st = "queued", !.root = a]
<1>1. /\ q = [f \in D |-> q[f]]
      /\ q.st = "queued" /\ q.root = a /\ q.parent = b /\ q.futures = {} /\ q.awaits = None
      /\ q.inside = FALSE
  BY DEF NoTask
<1>2. /\ p = [f \in D |-> p[f]]
      /\ p.st = "queued" /\ p.root = a /\ p.parent = None /\ p.futures = {} /\ p.awaits = None
      /\ p.inside = FALSE
  BY DEF NoTask
<1>3. q = [st |-> "queued", root |-> a, parent |-> b, futures |-> {}, awaits |-> None, inside |-> FALSE]
  <2> HIDE DEF q
  <2> QED BY <1>1
<1>4. p = [st |-> "queued", root |-> a, parent |-> None, futures |-> {}, awaits |-> None, inside |-> FALSE]
  <2> HIDE DEF p
  <2> QED BY <1>2
<1> QED BY <1>3, <1>4

LEMMA SpawnChildLive ==
    ASSUME Inv, LiveInv, SpawnChild
    PROVE  LiveInv'
<1> DEFINE n == ntasks + 1
           new == [NoTask EXCEPT !.st = "queued", !.root = tasks[current].root, !.parent = current]
<1>1. /\ UNCHANGED <<commands, next_handle, ready, ops, pending_requests, stdin_closed_commands,
                     pending_stdin_ops, pc, current, total_steps, state, status, told, eofs, nwaits>>
      /\ pc = "poll" /\ ntasks' = n /\ tasks' = [tasks EXCEPT ![n] = new]
      /\ spawn_queue' = Append(spawn_queue, n) /\ Cardinality(Children) < MaxTasks - MaxCommands
  BY DEF SpawnChild, channelVars, stdinVars, loopVars, history, Children
<1>2. n \in Tasks /\ ntasks \in Nat /\ n > ntasks
  <2>1. ntasks \in Nat
    BY Bounds DEF LiveInv, TypeOK
  <2>2. n \in Tasks
    BY <1>1, Counts DEF LiveInv
  <2> QED BY <2>1, <2>2
<1>3. tasks[n] = NoTask
  BY <1>2 DEF LiveInv, Room
<1>4. tasks \in [Tasks -> Task] /\ spawn_queue \in Seq(Tasks) /\ current \in Tasks
  BY <1>1 DEF LiveInv, TypeOK, Control
<1>5. /\ new = [st |-> "queued", root |-> tasks[current].root, parent |-> current,
                futures |-> {}, awaits |-> None, inside |-> FALSE]
      /\ new \in Task /\ new.parent = current
  <2>1. tasks[current] \in Task
    BY <1>4
  <2>2. tasks[current].root \in Tasks \cup {None}
    BY <2>1 DEF Task
  <2>3. new = [st |-> "queued", root |-> tasks[current].root, parent |-> current,
               futures |-> {}, awaits |-> None, inside |-> FALSE]
    BY NewTask
  <2> HIDE DEF new
  <2> QED BY <1>4, <2>2, <2>3 DEF Task
<1>6. new.st = "queued" /\ new.futures = {} /\ new.awaits = None /\ new.inside = FALSE
  BY <1>5
<1> HIDE DEF n, new
<1>7. \A t \in Tasks : tasks'[t] = IF t = n THEN new ELSE tasks[t]
  BY <1>1, <1>4
<1>8. spawn_queue' \in Seq(Tasks) /\ Range(spawn_queue') = Range(spawn_queue) \cup {n}
  BY <1>1, <1>2, <1>4, AppendRange
<1>9. (QueueInv /\ FutureInv /\ AwaitInv /\ ReasonInv)'
  <2> DEFINE N == {n}
  <2>1. N \in SUBSET Tasks /\ \A t \in N : t = n
    BY <1>2
  <2>2. /\ \A t \in N : tasks[t] = NoTask
        /\ \A t \in N : tasks'[t].st = "queued" /\ tasks'[t].futures = {}
                         /\ tasks'[t].awaits = None /\ tasks'[t].inside = FALSE
        /\ \A t \in Tasks \ N : tasks'[t] = tasks[t]
        /\ Range(spawn_queue') = Range(spawn_queue) \cup N
    BY <1>2, <1>3, <1>6, <1>7, <1>8
  <2> HIDE DEF N
  <2> QED BY <1>1, <2>1, <2>2, BirthLive
<1>10. TypeOK'
  <2>1. tasks' \in [Tasks -> Task] /\ ntasks' \in 0 .. MaxTasks
    BY <1>1, <1>2, <1>4, <1>5 DEF Tasks
  <2> QED BY <1>1, <1>8, <2>1 DEF LiveInv, TypeOK
<1>11. Room'
  <2>1. Children' = Children \cup {n} /\ n \notin Children
    BY <1>2, <1>3, <1>4, <1>5, <1>7, Bounds, NoTaskType DEF Children
  <2>2. Fresh' = Fresh
    BY <1>1 DEF Fresh
  <2>3. IsFiniteSet(Children) /\ Cardinality(Children) \in Nat /\ Cardinality(Fresh) \in Nat
    BY TaskSets, HandleSets DEF Children, Fresh
  <2> HIDE DEF Children, Fresh
  <2>4. Cardinality(Children') = Cardinality(Children) + 1
    BY <2>1, <2>3, FS_AddElement
  <2>5. next_handle \in Nat /\ ntasks' = ntasks + 1
    BY <1>1, Bounds DEF LiveInv, TypeOK, n
  <2>6. Cardinality(Children') <= MaxTasks - MaxCommands
    BY <1>1, <2>3, <2>4, Bounds
  <2>7. ntasks' + Cardinality(Fresh') <= Cardinality(Children') + next_handle' - 1
    BY <1>1, <1>2, <2>2, <2>3, <2>4, <2>5 DEF LiveInv, Room
  <2>8. \A t \in Tasks : t > ntasks' => tasks'[t] = NoTask
    <3>1. \A t \in Tasks : t > ntasks' => t > ntasks /\ t # n
      BY <1>2, <2>5, Bounds DEF n
    <3> QED BY <3>1, <1>7 DEF LiveInv, Room
  <2> QED BY <2>6, <2>7, <2>8 DEF Room
<1>12. CommandInv'
  <2>1. ASSUME NEW h \in Handles, NEW cmd \in commands[h], Started(cmd)
        PROVE  cmd.task_handle <= ntasks' /\ tasks'[cmd.task_handle].parent = None
    <3>1. cmd.task_handle \in Tasks /\ cmd.task_handle <= ntasks /\ tasks[cmd.task_handle].parent = None
      BY <2>1 DEF LiveInv, TypeOK, CommandState, CommandInv, Started
    <3>2. cmd.task_handle # n /\ cmd.task_handle <= ntasks'
      <4>1. cmd.task_handle \in Nat
        BY <3>1, Bounds
      <4> QED BY <1>1, <1>2, <3>1, <4>1 DEF n
    <3> QED BY <1>7, <3>1, <3>2
  <2> QED BY <1>1, <2>1 DEF LiveInv, CommandInv
<1>13. Control'
  <2>1. current # n
    BY <1>1, <1>3, NoTaskType DEF LiveInv, Control
  <2> QED BY <1>1, <1>4, <1>7, <2>1 DEF LiveInv, Control
<1>14. NumberInv'
  <2>1. current <= ntasks /\ current < n
    <3>1. ~(current > ntasks) /\ current \in Nat
      BY <1>1, <1>4, NoTaskType, Bounds DEF LiveInv, Room, Control
    <3> QED BY <1>2, <3>1 DEF n
  <2>2. \A t \in Tasks : t <= ntasks' => t <= ntasks \/ t = n
    BY <1>1, <1>2, Bounds DEF n
  <2> QED BY <1>5, <1>6, <1>7, <2>1, <2>2 DEF LiveInv, NumberInv
<1> QED BY <1>9, <1>10, <1>11, <1>12, <1>13, <1>14 DEF LiveInv

LEMMA StepBeginLive ==
    ASSUME Inv, LiveInv, StepBegin
    PROVE  LiveInv'
<1> DEFINE task(order, h) == ntasks + (CHOOSE i \in 1 .. Len(order) : order[i] = h)
           new(t) == [NoTask EXCEPT !.st = "queued", !.root = t]
<1>1. PICK order \in SetToSeqs(Fresh) :
        /\ commands' = [h \in Handles |->
             IF h \in Fresh THEN {[cmd EXCEPT !.task_handle = task(order, h)] : cmd \in commands[h]}
                            ELSE commands[h]]
        /\ tasks' = [t \in Tasks |-> IF t \in ntasks + 1 .. ntasks + Len(order) THEN new(t) ELSE tasks[t]]
        /\ ntasks' = ntasks + Len(order)
        /\ spawn_queue' = spawn_queue \o [i \in 1 .. Len(order) |-> ntasks + i]
  BY DEF StepBegin, Fresh
<1>2. /\ UNCHANGED <<next_handle, ready, ops, pending_requests, stdin_closed_commands,
                     pending_stdin_ops, current, total_steps, state, told, eofs, nwaits>>
      /\ pc = "host" /\ pc' = "run" /\ status' = "none"
  BY DEF StepBegin, channelVars, stdinVars, history
<1>3. PICK n : n = Len(order)
  OBVIOUS
<1>4. /\ n \in Nat /\ n = Cardinality(Fresh)
      /\ \A h \in Fresh : \E i \in 1 .. n : order[i] = h
  <2> DEFINE m == Cardinality(Fresh)
  <2>1. IsFiniteSet(Fresh) /\ m \in Nat
    BY HandleSets DEF Fresh
  <2>2. order \in [1 .. m -> Fresh] /\ \A i, j \in 1 .. m : order[i] = order[j] => i = j
    BY DEF SetToSeqs
  <2> HIDE DEF Fresh
  <2> QED BY <1>3, <2>1, <2>2, ListsAll
<1>5. PICK T : T = [h \in Fresh |-> task(order, h)]
  OBVIOUS
<1>6. \A h \in Fresh : T[h] \in ntasks + 1 .. ntasks + n
  <2> SUFFICES ASSUME NEW h \in Fresh PROVE T[h] \in ntasks + 1 .. ntasks + n
    OBVIOUS
  <2>1. (CHOOSE i \in 1 .. n : order[i] = h) \in 1 .. n
    BY <1>4
  <2>2. ntasks \in Nat
    BY Bounds DEF LiveInv, TypeOK
  <2>3. T[h] = ntasks + (CHOOSE i \in 1 .. n : order[i] = h)
    BY <1>3, <1>5
  <2> DEFINE k == CHOOSE i \in 1 .. n : order[i] = h
  <2> HIDE DEF k, Fresh
  <2> QED BY <1>4, <2>1, <2>2, <2>3 DEF k
<1>7. /\ \A h \in Fresh : commands'[h] = {[cmd EXCEPT !.task_handle = T[h]] : cmd \in commands[h]}
      /\ \A h \in Handles \ Fresh : commands'[h] = commands[h]
      /\ commands' = [h \in Handles |-> commands'[h]]
  BY <1>1, <1>5 DEF Fresh
<1> DEFINE N == ntasks + 1 .. ntasks + n
<1>8. /\ tasks' = [t \in Tasks |-> IF t \in N THEN new(t) ELSE tasks[t]]
      /\ ntasks' = ntasks + n
      /\ spawn_queue' = spawn_queue \o [i \in 1 .. n |-> ntasks + i]
  BY <1>1, <1>3
<1>9. ntasks \in Nat /\ ntasks + n <= MaxTasks /\ N \in SUBSET Tasks /\ \A t \in N : t > ntasks
  <2>1. ntasks \in Nat /\ ntasks + n <= MaxTasks
    BY <1>4, Counts, Bounds DEF LiveInv, TypeOK
  <2> QED BY <1>4, <2>1, Bounds DEF Tasks
<1>10. \A t \in N : tasks[t] = NoTask
  BY <1>9 DEF LiveInv, Room
<1>11. \A t \in Tasks : /\ new(t) \in Task /\ new(t).st = "queued" /\ new(t).futures = {}
                        /\ new(t).awaits = None /\ new(t).inside = FALSE /\ new(t).parent = None
  <2> SUFFICES ASSUME NEW t \in Tasks
               PROVE  /\ new(t) \in Task /\ new(t).st = "queued" /\ new(t).futures = {}
                      /\ new(t).awaits = None /\ new(t).inside = FALSE /\ new(t).parent = None
    OBVIOUS
  <2>1. new(t) = [st |-> "queued", root |-> t, parent |-> None, futures |-> {}, awaits |-> None, inside |-> FALSE]
    BY NewTask
  <2> HIDE DEF new
  <2> QED BY <2>1 DEF Task
<1> HIDE DEF N, new, task
<1>12. /\ \A t \in N : tasks'[t] = new(t) 
       /\ \A t \in Tasks \ N : tasks'[t] = tasks[t]
  BY <1>8, <1>9
<1>13. spawn_queue' \in Seq(Tasks) /\ Range(spawn_queue') = Range(spawn_queue) \cup N
  <2> DEFINE s == [i \in 1 .. n |-> ntasks + i]
  <2>1. s \in Seq(Tasks) /\ Len(s) = n
    <3>1. \A i \in 1 .. n : ntasks + i \in N
      BY <1>4, <1>9 DEF N
    <3> QED BY <1>4, <1>9, <3>1
  <2>2. Range(s) = N
    <3>1. \A x \in N : x - ntasks \in 1 .. n /\ ntasks + (x - ntasks) = x
      BY <1>4, <1>9 DEF N
    <3>2. \A i \in 1 .. n : ntasks + i \in N
      BY <1>4, <1>9 DEF N
    <3> QED BY <3>1, <3>2 DEF Range
  <2>3. spawn_queue \in Seq(Tasks)
    BY DEF LiveInv, TypeOK
  <2> HIDE DEF s
  <2>4. spawn_queue' = spawn_queue \o s
    BY <1>8 DEF s
  <2> QED BY <2>1, <2>2, <2>3, <2>4, ConcatRange
<1>14. (QueueInv /\ FutureInv /\ AwaitInv /\ ReasonInv)'
  <2>1. /\ \A t \in N : tasks'[t].st = "queued" /\ tasks'[t].futures = {}
                         /\ tasks'[t].awaits = None /\ tasks'[t].inside = FALSE
    BY <1>9, <1>11, <1>12
  <2> QED BY <1>2, <1>9, <1>10, <1>12, <1>13, <2>1, BirthLive
<1>15. \A h \in Fresh : h \in Handles /\ T[h] \in N /\ T[h] \in Tasks /\ T[h] # None
  BY <1>6, <1>9, Bounds DEF N, Fresh
<1>16. \A cmd \in CommandState : \A x \in Tasks :
          /\ [cmd EXCEPT !.task_handle = x] \in CommandState
          /\ [cmd EXCEPT !.task_handle = x].task_handle = x
          /\ Over([cmd EXCEPT !.task_handle = x]) <=> Over(cmd)
  BY DEF CommandState, Over
<1>17. \A h \in Handles : commands[h] \subseteq CommandState
  BY DEF LiveInv, TypeOK
<1>18. TypeOK'
  <2>1. \A h \in Handles : commands'[h] \in SUBSET CommandState
    BY <1>7, <1>15, <1>16, <1>17
  <2>2. commands' \in [Handles -> SUBSET CommandState]
    BY <1>7, <2>1
  <2>3. tasks' \in [Tasks -> Task] /\ ntasks' \in 0 .. MaxTasks
    BY <1>4, <1>8, <1>9, <1>11, Bounds DEF LiveInv, TypeOK
  <2> QED BY <1>2, <1>13, <2>2, <2>3 DEF LiveInv, TypeOK
<1>19. CommandInv'
  <2> SUFFICES ASSUME NEW h \in Handles
               PROVE  /\ \A a, b \in commands'[h] : a = b
                      /\ \A c \in commands'[h] :
                           /\ Over(c) => told'[h] = 1
                           /\ Started(c) => c.task_handle <= ntasks' /\ tasks'[c.task_handle].parent = None
    BY DEF CommandInv
  <2>1. CASE h \in Fresh
    <3>1. \A a, b \in commands'[h] : a = b
      BY <1>7, <2>1 DEF LiveInv, CommandInv
    <3>2. ASSUME NEW c \in commands'[h]
          PROVE  /\ Over(c) => told'[h] = 1
                 /\ c.task_handle <= ntasks' /\ tasks'[c.task_handle].parent = None
      <4>1. PICK cmd \in commands[h] : c = [cmd EXCEPT !.task_handle = T[h]]
        BY <1>7, <2>1, <3>2
      <4>2. c.task_handle = T[h] /\ (Over(c) => Over(cmd))
        BY <1>15, <1>16, <1>17, <2>1, <4>1
      <4>3. T[h] <= ntasks' /\ tasks'[T[h]].parent = None
        BY <1>4, <1>8, <1>9, <1>11, <1>12, <1>15, <2>1 DEF N
      <4> QED BY <1>2, <4>2, <4>3 DEF LiveInv, CommandInv
    <3> QED BY <3>1, <3>2
  <2>2. CASE h \notin Fresh
    <3>1. ASSUME NEW c \in commands[h], Started(c)
          PROVE  c.task_handle <= ntasks' /\ tasks'[c.task_handle].parent = None
      <4>1. c.task_handle \in Tasks /\ c.task_handle <= ntasks /\ tasks[c.task_handle].parent = None
        BY <1>17, <3>1 DEF LiveInv, CommandInv, Started, CommandState
      <4>2. c.task_handle \notin N /\ c.task_handle <= ntasks'
        <5>1. c.task_handle \in Nat
          BY <4>1, Bounds
        <5> QED BY <1>4, <1>8, <1>9, <4>1, <5>1 DEF N
      <4> QED BY <1>12, <4>1, <4>2
    <3> QED BY <1>2, <1>7, <2>2, <3>1 DEF LiveInv, CommandInv
  <2> QED BY <2>1, <2>2
<1>20. Room'
  <2>1. Children' = Children
    BY <1>10, <1>11, <1>12, <1>9, NoTaskType DEF Children
  <2>2. Fresh' = {}
    <3> SUFFICES ASSUME NEW h \in Handles, NEW c \in commands'[h], ~Over(c), ~Started(c) PROVE FALSE
      BY DEF Fresh
    <3>1. CASE h \in Fresh
      <4>1. PICK cmd \in commands[h] : c = [cmd EXCEPT !.task_handle = T[h]]
        BY <1>7, <3>1
      <4>2. c.task_handle = T[h]
        BY <1>15, <1>16, <1>17, <3>1, <4>1
      <4> QED BY <1>15, <3>1, <4>2 DEF Started
    <3>2. CASE h \notin Fresh
      BY <1>7, <3>2 DEF Fresh
    <3> QED BY <3>1, <3>2
  <2>3. Cardinality(Fresh') = 0 /\ Cardinality(Children) \in Nat
    BY <2>2, FS_EmptySet, TaskSets DEF Children
  <2>4. next_handle \in Nat
    BY Bounds DEF LiveInv, TypeOK
  <2>5. \A t \in Tasks : t > ntasks' => tasks'[t] = NoTask
    <3>1. \A t \in Tasks : t > ntasks' => t > ntasks /\ t \notin N
      BY <1>4, <1>8, <1>9, Bounds DEF N
    <3> QED BY <3>1, <1>12 DEF LiveInv, Room
  <2> HIDE DEF Children, Fresh
  <2>6. ntasks' + Cardinality(Fresh') <= Cardinality(Children') + next_handle' - 1
    BY <1>2, <1>4, <1>8, <1>9, <2>1, <2>3, <2>4 DEF LiveInv, Room
  <2> QED BY <2>1, <2>5, <2>6 DEF LiveInv, Room
<1>21. Control'
  BY <1>2 DEF Control
<1>22. NumberInv'
  <2>1. \A t \in Tasks : t <= ntasks' => t <= ntasks \/ t \in N
    BY <1>4, <1>8, <1>9, Bounds DEF N
  <2>2. \A t \in N : t \in Tasks
    BY <1>9
  <2> QED BY <1>11, <1>12, <2>1, <2>2 DEF LiveInv, NumberInv
<1> QED BY <1>14, <1>18, <1>19, <1>20, <1>21, <1>22 DEF LiveInv

LEMMA RunStepLive ==
    ASSUME Inv, LiveInv, RunStep
    PROVE  LiveInv'
<1> DEFINE queue == ready \o spawn_queue
           present == {i \in 1 .. Len(queue) : tasks[queue[i]].st # "gone"}
<1>1. /\ UNCHANGED <<commands, next_handle, ntasks, pending_requests, stdin_closed_commands,
                     pending_stdin_ops, total_steps, status, told, eofs, nwaits>>
      /\ pc = "run" /\ spawn_queue' = <<>>
  BY DEF RunStep, stdinVars, history
<1>2. /\ ready \in Seq(Tasks) /\ spawn_queue \in Seq(Tasks) /\ tasks \in [Tasks -> Task]
      /\ ops \in [Ops -> Op]
  BY DEF LiveInv, TypeOK
<1>3. queue \in Seq(Tasks) /\ Range(queue) = Range(ready) \cup Range(spawn_queue)
  BY <1>2, ConcatRange
<1>4. <<>> \in Seq(Tasks) /\ Range(<<>>) = {}
  BY DEF Range
<1>5. Fresh' = Fresh
  BY <1>1 DEF Fresh
<1>6. CASE present # {}
  <2>1. PICK m \in present : \A j \in present : m <= j
    <3>1. present \in SUBSET Nat
      OBVIOUS
    <3> HIDE DEF present
    <3> QED BY <1>6, <3>1, LeastNat
  <2> DEFINE k == CHOOSE i \in present : \A j \in present : i <= j
             t == queue[k]
             answered == {o \in tasks[t].futures : ops[o].st = "answered"}
             table == [o \in Ops |-> IF o \in answered THEN [ops[o] EXCEPT !.st = "over"] ELSE ops[o]]
  <2>2. /\ ready' = SubSeq(queue, k + 1, Len(queue))
        /\ current' = t /\ pc' = "poll" /\ UNCHANGED state
        /\ tasks' = [Spawned(tasks) EXCEPT ![t].awaits = None, ![t].inside = FALSE,
                    ![t].futures = @ \ answered]
        /\ ops' = Settled(table, pending_stdin_ops)
    BY <1>6 DEF RunStep
  <2>3. k \in present /\ \A j \in present : k <= j
    BY <2>1
  <2> HIDE DEF k, present
  <2>4. k \in 1 .. Len(queue) /\ tasks[t].st # "gone"
    BY <2>3 DEF present
  <2>5. \A j \in 1 .. Len(queue) : tasks[queue[j]].st # "gone" => k <= j
    BY <2>3 DEF present
  <2>6. t \in Tasks /\ t \in Range(queue)
    BY <1>3, <2>4, SeqRange
  <2> HIDE DEF queue
  <2>7. /\ ready' \in Seq(Tasks) /\ Range(ready') \subseteq Range(queue)
        /\ \A j \in 1 .. Len(queue) : k < j => queue[j] \in Range(ready')
    BY <1>3, <2>2, <2>4, RestRange
  <2>8. \A u \in Range(queue) : u # t /\ tasks[u].st # "gone" => u \in Range(ready')
    <3> SUFFICES ASSUME NEW u \in Range(queue), u # t, tasks[u].st # "gone" PROVE u \in Range(ready')
      OBVIOUS
    <3>1. PICK j \in 1 .. Len(queue) : queue[j] = u
      BY <1>3, SeqRange
    <3>2. k <= j /\ j # k
      BY <2>5, <3>1
    <3> QED BY <2>4, <2>7, <3>1, <3>2
  <2> HIDE DEF t
  <2>9. PICK A : A = answered
    OBVIOUS
  <2>10. A \subseteq tasks[t].futures /\ A \subseteq Ops
    BY <1>2, <2>6, <2>9, TaskFields
  <2>11. Spawned(tasks) \in [Tasks -> Task]
         /\ \A u \in Tasks :
              /\ Spawned(tasks)[u].st = (IF tasks[u].st = "queued" THEN "alive" ELSE tasks[u].st)
              /\ Spawned(tasks)[u].parent = tasks[u].parent
              /\ Spawned(tasks)[u].futures = tasks[u].futures
              /\ Spawned(tasks)[u].awaits = tasks[u].awaits
              /\ Spawned(tasks)[u].inside = tasks[u].inside
              /\ tasks[u].st # "queued" => Spawned(tasks)[u] = tasks[u]
    <3>1. \A r \in Task : /\ [r EXCEPT !.st = "alive"] \in Task
                          /\ [r EXCEPT !.st = "alive"].st = "alive"
                          /\ [r EXCEPT !.st = "alive"].parent = r.parent
                          /\ [r EXCEPT !.st = "alive"].futures = r.futures
                          /\ [r EXCEPT !.st = "alive"].awaits = r.awaits
                          /\ [r EXCEPT !.st = "alive"].inside = r.inside
      BY DEF Task
    <3>2. Spawned(tasks) = [u \in Tasks |-> IF tasks[u].st = "queued"
                                            THEN [tasks[u] EXCEPT !.st = "alive"] ELSE tasks[u]]
      BY DEF Spawned
    <3>3. ASSUME NEW u \in Tasks
          PROVE  /\ Spawned(tasks)[u] \in Task
                 /\ Spawned(tasks)[u].st = (IF tasks[u].st = "queued" THEN "alive" ELSE tasks[u].st)
                 /\ Spawned(tasks)[u].parent = tasks[u].parent
                 /\ Spawned(tasks)[u].futures = tasks[u].futures
                 /\ Spawned(tasks)[u].awaits = tasks[u].awaits
                 /\ Spawned(tasks)[u].inside = tasks[u].inside
                 /\ tasks[u].st # "queued" => Spawned(tasks)[u] = tasks[u]
      <4>1. tasks[u] \in Task
        BY <1>2
      <4> QED BY <3>1, <3>2, <4>1
    <3> QED BY <3>2, <3>3
  <2>12. PICK table2 : table2 = Spawned(tasks)
    OBVIOUS
  <2> DEFINE r == table2[t]
             new == [[[r EXCEPT !.awaits = None] EXCEPT !.inside = FALSE] EXCEPT !.futures = r.futures \ A]
  <2>13. new \in Task /\ new.st = r.st /\ new.parent = r.parent /\ new.awaits = None
         /\ new.futures = r.futures \ A /\ new.inside = FALSE
    <3>1. r \in Task
      BY <2>6, <2>11, <2>12
    <3> HIDE DEF r
    <3> QED BY <3>1 DEF Task
  <2>14. tasks' = [table2 EXCEPT ![t] = new]
    <3>1. tasks' = [[[table2 EXCEPT ![t].awaits = None] EXCEPT ![t].inside = FALSE]
                      EXCEPT ![t].futures = @ \ A]
      BY <2>2, <2>9, <2>12
    <3>2. table2 \in [Tasks -> Task] /\ r \in Task
      BY <2>6, <2>11, <2>12
    <3>3. DOMAIN r = {"st", "root", "parent", "futures", "awaits", "inside"}
      BY <3>2 DEF Task
    <3> QED BY <2>6, <3>1, <3>2, <3>3
  <2> HIDE DEF new, r, answered
  <2>15. /\ tasks' \in [Tasks -> Task]
         /\ \A u \in Tasks :
              /\ tasks'[u].st = (IF tasks[u].st = "queued" THEN "alive" ELSE tasks[u].st)
              /\ tasks'[u].parent = tasks[u].parent
              /\ tasks'[u].futures = (IF u = t THEN tasks[u].futures \ A ELSE tasks[u].futures)
              /\ tasks'[u].awaits = (IF u = t THEN None ELSE tasks[u].awaits)
              /\ u = t => tasks'[u].inside = FALSE
              /\ u # t => tasks'[u].inside = tasks[u].inside
    BY <2>6, <2>11, <2>12, <2>13, <2>14 DEF r
  <2>15a. \A u \in Tasks : tasks[u].st = "none" => tasks'[u] = tasks[u]
    <3>1. tasks[t].st # "none"
      BY <1>3, <2>6 DEF LiveInv, QueueInv
    <3> QED BY <2>6, <2>11, <2>12, <2>14, <3>1
  <2>16. /\ ops' \in [Ops -> Op]
         /\ \A o \in Ops : o \notin A /\ ops[o].st # "over" => ops'[o] = ops[o]
    <3>1. table \in [Ops -> Op] /\ \A o \in Ops : o \notin A => table[o] = ops[o]
      <4>1. table = [o \in Ops |-> IF o \in A THEN [ops[o] EXCEPT !.st = "over"] ELSE ops[o]]
        BY <2>9
      <4>2. \A o \in Ops : [ops[o] EXCEPT !.st = "over"] \in Op
        BY <1>2, OpTurns
      <4> HIDE DEF table
      <4> QED BY <1>2, <4>1, <4>2
    <3> HIDE DEF table
    <3> QED BY <2>2, <3>1, SettledKeeps
  <2> HIDE DEF table
  <2>17. \A u \in Range(ready) \cup Range(spawn_queue) : u \in Tasks /\ tasks[u].st # "none"
    BY <1>2, SeqRange DEF LiveInv, QueueInv
  <2>18. TypeOK'
    BY <1>1, <1>4, <2>2, <2>6, <2>7, <2>15, <2>16 DEF LiveInv, TypeOK
  <2>19. Children' = Children
    BY <2>15 DEF Children
  <2>20. Room'
    <3>1. \A u \in Tasks : u > ntasks => tasks'[u] = tasks[u]
      BY <2>15a, NoTaskType DEF LiveInv, Room
    <3> QED BY <1>1, <1>5, <2>19, <3>1, RoomKept
  <2>21. CommandInv'
    <3>1. \A h \in Handles : \A cmd \in commands[h] : Started(cmd) => cmd.task_handle \in Tasks
      BY DEF LiveInv, TypeOK, CommandState, Started
    <3> QED BY <1>1, <2>15, <3>1 DEF LiveInv, CommandInv
  <2>22. QueueInv'
    <3>1. \A u \in Range(ready') : u \in Tasks /\ tasks'[u].st # "none"
      BY <1>3, <2>7, <2>15, <2>17
    <3>2. \A u \in Tasks : tasks'[u].st # "queued"
      BY <2>15
    <3> QED BY <1>1, <1>4, <3>1, <3>2 DEF QueueInv
  <2>23. \A u \in ActiveTasks(tasks') : u # t =>
            \/ u \in Range(ready')
            \/ u \in ActiveTasks(tasks) /\ u \notin Range(ready)
    <3> SUFFICES ASSUME NEW u \in Tasks, tasks'[u].st = "alive", u # t, u \notin Range(ready')
                 PROVE  tasks[u].st = "alive" /\ u \notin Range(ready)
      BY DEF ActiveTasks
    <3>1. tasks[u].st \in {"queued", "alive"}
      BY <2>15
    <3>2. u \notin Range(queue)
      BY <2>8, <3>1
    <3> QED BY <1>3, <3>1, <3>2 DEF LiveInv, QueueInv
  <2>24. FutureInv'
    <3> SUFFICES ASSUME NEW u \in ActiveTasks(tasks'), NEW o \in tasks'[u].futures
                 PROVE  ops'[o].task = u /\ Pending(o)'
      BY DEF FutureInv
    <3>1. u \in Tasks /\ o \in tasks[u].futures /\ (u = t => o \notin A) /\ tasks[u].st \in {"queued", "alive"}
      BY <2>15 DEF ActiveTasks
    <3>2. u \in ActiveTasks(tasks)
      BY <3>1 DEF LiveInv, QueueInv, ActiveTasks
    <3>3. ops[o].task = u /\ Pending(o) /\ o \in Ops
      BY <1>2, <3>1, <3>2, TaskFields DEF LiveInv, FutureInv
    <3>4. o \notin A
      <4>1. CASE u # t /\ o \in A
        <5>1. tasks[t].futures # {} /\ tasks[t].st # "none" /\ tasks[t].st # "gone"
          BY <1>3, <2>4, <2>6, <2>10, <2>17, <4>1
        <5>2. tasks[t].st = "alive"
          BY <1>2, <2>6, <5>1, TaskFields DEF LiveInv, QueueInv
        <5>3. ops[o].task = t
          BY <2>6, <2>10, <4>1, <5>2 DEF LiveInv, FutureInv, ActiveTasks
        <5> QED BY <3>3, <4>1, <5>3
      <4> QED BY <3>1, <4>1
    <3>5. ops'[o] = ops[o]
      BY <2>16, <3>3, <3>4 DEF Pending
    <3>6. ops[o].st = "answered" => u \in Range(ready')
      <4>1. CASE u = t
        BY <2>9, <3>1, <3>4, <4>1 DEF answered
      <4>2. CASE u # t /\ ops[o].st = "answered"
        <5>1. u \in Range(ready)
          BY <3>3, <4>2 DEF Pending
        <5> QED BY <1>3, <2>8, <3>1, <4>2, <5>1
      <4> QED BY <4>1, <4>2
    <3> QED BY <1>1, <3>3, <3>5, <3>6 DEF Pending
  <2>25. AwaitInv'
    <3> SUFFICES ASSUME NEW u \in ActiveTasks(tasks'), u \notin Range(ready'),
                        NEW c, c = tasks'[u].awaits, c # None
                 PROVE  Coming(u, c)'
      BY DEF AwaitInv
    <3>1. u \in Tasks /\ u # t
      BY <2>15 DEF ActiveTasks
    <3>2. u \in ActiveTasks(tasks) /\ u \notin Range(ready) /\ c = tasks[u].awaits
      BY <2>15, <2>23, <3>1
    <3>3. Coming(u, c)
      BY <3>2 DEF LiveInv, AwaitInv
    <3> QED BY <2>15, <3>2, <3>3 DEF Coming
  <2>26. ReasonInv'
    <3> SUFFICES ASSUME NEW u \in ActiveTasks(tasks'), u \notin Range(ready'), u # t
                 PROVE  tasks'[u].futures # {} \/ tasks'[u].awaits # None \/ tasks'[u].inside
      BY <2>2 DEF ReasonInv
    <3>1. u \in ActiveTasks(tasks) /\ u \notin Range(ready) /\ u \in Tasks
      BY <2>23 DEF ActiveTasks
    <3> QED BY <1>1, <2>15, <3>1 DEF LiveInv, ReasonInv
  <2>27. Control'
    <3>1. tasks[t].st \in {"queued", "alive"}
      BY <1>2, <1>3, <2>4, <2>6, <2>17, TaskFields
    <3> QED BY <1>1, <2>2, <2>6, <2>15, <3>1, Bounds DEF LiveInv, Control
  <2>28. NumberInv'
    <3>1. \A u \in Tasks : tasks'[u].parent = tasks[u].parent /\ (tasks[u].st # "none" => tasks'[u].st # "none")
      BY <2>15
    <3> QED BY <1>1, <3>1, NumbersKept
  <2> QED BY <2>18, <2>20, <2>21, <2>22, <2>24, <2>25, <2>26, <2>27, <2>28 DEF LiveInv
<1>7. CASE present = {}
  <2>1. /\ ready' = <<>> /\ pc' = "take" /\ UNCHANGED <<tasks, ops, current>>
        /\ state' \in {"Done", "Blocked"}
    BY <1>7 DEF RunStep
  <2>2. \A u \in Range(queue) : tasks[u].st = "gone"
    <3> HIDE DEF queue
    <3> QED BY <1>3, <1>7, SeqRange
  <2>3. \A u \in Tasks : tasks[u].st # "queued" /\ (tasks[u].st = "alive" => u \notin Range(ready))
    BY <1>3, <2>2 DEF LiveInv, QueueInv
  <2>4. TypeOK'
    BY <1>1, <1>4, <2>1 DEF LiveInv, TypeOK
  <2>5. Room' /\ CommandInv' /\ Control'
    BY <1>1, <2>1 DEF LiveInv, Room, CommandInv, Control, Children, Fresh
  <2>6. QueueInv'
    BY <1>1, <1>4, <2>1, <2>3 DEF QueueInv
  <2>7. FutureInv' 
    <3> SUFFICES ASSUME NEW u \in ActiveTasks(tasks), NEW o \in tasks[u].futures
                 PROVE  ops[o].task = u /\ Pending(o)'
      BY <2>1 DEF FutureInv
    <3> QED BY <1>1, <2>1, <2>3 DEF LiveInv, FutureInv, Pending, ActiveTasks
  <2>8. AwaitInv' /\ ReasonInv'
    BY <1>1, <1>4, <2>1, <2>3 DEF LiveInv, AwaitInv, ReasonInv, Coming, ActiveTasks
  <2>9. NumberInv'
    BY <1>1, <2>1 DEF LiveInv, NumberInv, ActiveTasks
  <2> QED BY <2>4, <2>5, <2>6, <2>7, <2>8, <2>9 DEF LiveInv
<1> QED BY <1>6, <1>7

(* A poll submits an operation: the first free one is a free one.          *)
LEMMA SubmitOpLive ==
    ASSUME Inv, LiveInv, NEW kind \in Kinds, SubmitOp(kind)
    PROVE  LiveInv'
<1> DEFINE free == {o \in Ops : ops[o].st = "free"}
           o == CHOOSE o \in free : \A p \in free : o <= p
           rec == [st |-> "queued", kind |-> kind, task |-> current, command |-> None]
           new == [tasks[current] EXCEPT !.futures = tasks[current].futures \cup {o}]
<1>1. /\ UNCHANGED <<commands, next_handle, ntasks, ready, spawn_queue, stdin_closed_commands,
                     pending_stdin_ops, pc, current, total_steps, state, status, told, eofs>>
      /\ pc = "poll" /\ free # {} /\ nwaits < MaxWaits /\ nwaits' = nwaits + 1
      /\ ops' = [ops EXCEPT ![o] = rec]
      /\ pending_requests' = Append(pending_requests, o)
      /\ tasks' = [tasks EXCEPT ![current].futures = @ \cup {o}]
  BY DEF SubmitOp, stdinVars, loopVars, history
<1>2. o \in Ops /\ ops[o].st = "free"
  <2>1. free \in SUBSET Nat
    BY RuntimeBounds DEF Ops
  <2>2. \E x \in free : \A p \in free : x <= p
    <3> HIDE DEF free
    <3> QED BY <1>1, <2>1, LeastNat
  <2>3. o \in free
    BY <2>2
  <2> QED BY <2>3
<1>3. /\ tasks \in [Tasks -> Task] /\ ops \in [Ops -> Op] /\ pending_requests \in Seq(Ops)
      /\ current \in Tasks /\ tasks[current].st = "alive" /\ tasks[current] \in Task
  <2>1. current \in Tasks /\ tasks[current].st = "alive"
    BY <1>1 DEF LiveInv, TypeOK, Control
  <2> QED BY <2>1 DEF LiveInv, TypeOK
<1>4. rec \in Op /\ rec.st = "queued" /\ rec.task = current
  BY <1>3 DEF Op
<1> HIDE DEF o, rec, free
<1>5. new \in Task /\ new.st = "alive" /\ new.parent = tasks[current].parent
      /\ new.awaits = tasks[current].awaits /\ new.futures = tasks[current].futures \cup {o}
      /\ new.inside = tasks[current].inside
  BY <1>2, <1>3 DEF Task
<1>6. tasks' = [tasks EXCEPT ![current] = new]
  BY <1>1, <1>3
<1> HIDE DEF new
<1>7. /\ \A t \in Tasks : t # current => tasks'[t] = tasks[t]
      /\ tasks'[current] = new /\ tasks' \in [Tasks -> Task]
  BY <1>3, <1>5, <1>6
<1>8. /\ \A p \in Ops : p # o => ops'[p] = ops[p]
      /\ ops'[o] = rec /\ ops' \in [Ops -> Op]
  BY <1>1, <1>2, <1>3, <1>4
<1>9. /\ pending_requests' \in Seq(Ops)
      /\ Range(pending_requests') = Range(pending_requests) \cup {o}
  BY <1>1, <1>2, <1>3, AppendRange
<1>10. ActiveTasks(tasks') = ActiveTasks(tasks)
  BY <1>3, <1>5, <1>7 DEF ActiveTasks
<1>11. /\ \A t \in Tasks : /\ tasks'[t].st = tasks[t].st /\ tasks'[t].parent = tasks[t].parent
                           /\ tasks'[t].awaits = tasks[t].awaits /\ tasks'[t].inside = tasks[t].inside
                           /\ tasks[t].futures \subseteq tasks'[t].futures
  BY <1>3, <1>5, <1>7
<1>12. TypeOK'
  <2>1. nwaits' \in 0 .. MaxWaits
    BY <1>1, Bounds DEF LiveInv, TypeOK
  <2> QED BY <1>1, <1>7, <1>8, <1>9, <2>1 DEF LiveInv, TypeOK
<1>13. Room'
  <2>1. Fresh' = Fresh /\ Children' = Children
    BY <1>1, <1>11 DEF Fresh, Children
  <2>2. \A t \in Tasks : t > ntasks => tasks'[t] = tasks[t]
    <3>1. ~(current > ntasks)
      BY <1>3, NoTaskType DEF LiveInv, Room
    <3> QED BY <1>7, <3>1
  <2> QED BY <1>1, <2>1, <2>2, RoomKept
<1>14. CommandInv'
  <2>1. \A h \in Handles : \A cmd \in commands[h] : Started(cmd) => cmd.task_handle \in Tasks
    BY DEF LiveInv, TypeOK, CommandState, Started
  <2> QED BY <1>1, <1>11, <2>1 DEF LiveInv, CommandInv
<1>15. QueueInv'
  <2>1. Range(ready) \subseteq Tasks /\ Range(spawn_queue) \subseteq Tasks
    BY SeqRange DEF LiveInv, TypeOK
  <2>2. \A t \in Tasks : tasks'[t].st = "queued" => tasks[t].st = "queued" /\ tasks'[t] = tasks[t]
    BY <1>3, <1>7, <1>11
  <2>3. \A t \in Range(ready) \cup Range(spawn_queue) : tasks'[t].st # "none"
    BY <1>11, <2>1 DEF LiveInv, QueueInv
  <2>4. \A t \in Tasks : tasks[t].st = "queued" =>
          t \in Range(spawn_queue) /\ tasks[t].futures = {} /\ tasks[t].awaits = None
          /\ tasks[t].inside = FALSE
    BY DEF LiveInv, QueueInv
  <2> QED BY <1>1, <2>2, <2>3, <2>4 DEF QueueInv
<1>16. FutureInv'
  <2> SUFFICES ASSUME NEW t \in ActiveTasks(tasks), NEW p \in tasks'[t].futures
               PROVE  ops'[p].task = t /\ Pending(p)'
    BY <1>10 DEF FutureInv
  <2>1. CASE p = o /\ t = current
    BY <1>4, <1>8, <1>9, <2>1 DEF Pending
  <2>2. CASE ~(p = o /\ t = current)
    <3>1. p \in tasks[t].futures /\ t \in Tasks
      BY <1>5, <1>7, <2>2 DEF ActiveTasks
    <3>2. ops[p].task = t /\ Pending(p) /\ p \in Ops
      BY <1>3, <3>1, TaskFields DEF LiveInv, FutureInv
    <3>3. p # o
      BY <1>2, <3>2 DEF Pending
    <3> QED BY <1>1, <1>8, <1>9, <3>2, <3>3 DEF Pending
  <2> QED BY <2>1, <2>2
<1>17. AwaitInv'
  <2>1. \A t, c : Coming(t, c) => Coming(t, c)'
    BY <1>11 DEF Coming
  <2>2. \A t \in ActiveTasks(tasks) : tasks'[t].awaits = tasks[t].awaits
    BY <1>11 DEF ActiveTasks
  <2>3. \A t \in ActiveTasks(tasks) : t \in Range(ready) \/ tasks[t].awaits = None \/ Coming(t, tasks[t].awaits)'
    BY <2>1, <2>2 DEF LiveInv, AwaitInv
  <2> QED BY <1>1, <1>10, <1>11, <2>2 DEF LiveInv, AwaitInv, Coming, ActiveTasks
<1>18. ReasonInv'
  <2>1. \A t \in ActiveTasks(tasks) : t \in Tasks
    BY DEF ActiveTasks
  <2> QED BY <1>1, <1>10, <1>11, <2>1 DEF LiveInv, ReasonInv
<1>19. Control'
  BY <1>1, <1>3, <1>11 DEF LiveInv, Control
<1>20. NumberInv'
  BY <1>1, <1>11, NumbersKept
<1> QED BY <1>12, <1>13, <1>14, <1>15, <1>16, <1>17, <1>18, <1>19, <1>20 DEF LiveInv

LEMMA ReturnPendingLive ==
    ASSUME Inv, LiveInv, NEW kept \in SUBSET Ops, NEW c \in Tasks \cup {None},
           NEW inside \in BOOLEAN, ReturnPending(kept, c, inside)
    PROVE  LiveInv'
<1> DEFINE new == [[[tasks[current] EXCEPT !.futures = kept] EXCEPT !.awaits = c] EXCEPT !.inside = inside]
<1>1. /\ UNCHANGED <<commands, next_handle, ntasks, ready, spawn_queue, ops, pending_requests,
                     stdin_closed_commands, pending_stdin_ops, total_steps, status, told, eofs>>
      /\ pc = "poll" /\ pc' = "take" /\ current' = None /\ state' \in {"Done", "Progress"}
      /\ kept \subseteq tasks[current].futures
      /\ kept # {} \/ c # None \/ inside \/ \E i \in 1 .. Len(ready) : ready[i] = current
      /\ nwaits' \in {nwaits, nwaits + 1} /\ nwaits' <= MaxWaits
      /\ c # None => tasks[c].parent = current /\ tasks[c].st \in {"queued", "alive"}
      /\ tasks' = [tasks EXCEPT ![current].futures = kept, ![current].awaits = c,
                                ![current].inside = inside]
  BY DEF ReturnPending, Return, channelVars, stdinVars, history
<1>2. /\ tasks \in [Tasks -> Task]
      /\ current \in Tasks /\ tasks[current].st = "alive" /\ tasks[current] \in Task
  <2>1. current \in Tasks /\ tasks[current].st = "alive"
    BY <1>1 DEF LiveInv, TypeOK, Control
  <2> QED BY <2>1 DEF LiveInv, TypeOK
<1>3. new \in Task /\ new.st = "alive" /\ new.parent = tasks[current].parent
      /\ new.awaits = c /\ new.futures = kept /\ new.inside = inside
  BY <1>2 DEF Task
<1>4. tasks' = [tasks EXCEPT ![current] = new]
  <2>1. DOMAIN tasks[current] = {"st", "root", "parent", "futures", "awaits", "inside"}
    BY <1>2 DEF Task
  <2> QED BY <1>1, <1>2, <2>1
<1> HIDE DEF new
<1>5. /\ \A t \in Tasks : t # current => tasks'[t] = tasks[t]
      /\ tasks'[current] = new /\ tasks' \in [Tasks -> Task]
  BY <1>2, <1>3, <1>4
<1>6. /\ ActiveTasks(tasks') = ActiveTasks(tasks)
      /\ \A t \in Tasks : /\ tasks'[t].st = tasks[t].st /\ tasks'[t].parent = tasks[t].parent
                          /\ tasks'[t].futures \subseteq tasks[t].futures
  <2>1. \A t \in Tasks : /\ tasks'[t].st = tasks[t].st /\ tasks'[t].parent = tasks[t].parent
                         /\ tasks'[t].futures \subseteq tasks[t].futures
    BY <1>1, <1>2, <1>3, <1>5
  <2> QED BY <2>1 DEF ActiveTasks
<1>7. TypeOK'
  <2>1. nwaits' \in 0 .. MaxWaits
    BY <1>1, Bounds DEF LiveInv, TypeOK
  <2> QED BY <1>1, <1>5, <2>1 DEF LiveInv, TypeOK
<1>8. Room'
  <2>1. Fresh' = Fresh /\ Children' = Children
    BY <1>1, <1>6 DEF Fresh, Children
  <2>2. \A t \in Tasks : t > ntasks => tasks'[t] = tasks[t]
    <3>1. ~(current > ntasks)
      BY <1>2, NoTaskType DEF LiveInv, Room
    <3> QED BY <1>5, <3>1
  <2> QED BY <1>1, <2>1, <2>2, RoomKept
<1>9. CommandInv'
  <2>1. \A h \in Handles : \A cmd \in commands[h] : Started(cmd) => cmd.task_handle \in Tasks
    BY DEF LiveInv, TypeOK, CommandState, Started
  <2> QED BY <1>1, <1>6, <2>1 DEF LiveInv, CommandInv
<1>10. QueueInv'
  <2>1. Range(ready) \subseteq Tasks /\ Range(spawn_queue) \subseteq Tasks
    BY SeqRange DEF LiveInv, TypeOK
  <2>2. \A t \in Tasks : tasks[t].st = "queued" => tasks'[t] = tasks[t]
    BY <1>2, <1>5
  <2>3. \A t \in Tasks : tasks[t].st = "queued" =>
          t \in Range(spawn_queue) /\ tasks'[t].futures = {} /\ tasks'[t].awaits = None
          /\ tasks'[t].inside = FALSE
    BY <2>2 DEF LiveInv, QueueInv
  <2>4. \A t \in Range(ready) \cup Range(spawn_queue) : tasks'[t].st # "none"
    BY <1>6, <2>1 DEF LiveInv, QueueInv
  <2> QED BY <1>1, <1>6, <2>3, <2>4 DEF QueueInv
<1>11. FutureInv'
  <2> SUFFICES ASSUME NEW t \in ActiveTasks(tasks), NEW o \in tasks'[t].futures
               PROVE  ops[o].task = t /\ Pending(o)'
    BY <1>1, <1>6 DEF FutureInv
  <2>1. o \in tasks[t].futures
    BY <1>6 DEF ActiveTasks
  <2>2. ops[o].task = t /\ Pending(o)
    BY <2>1 DEF LiveInv, FutureInv
  <2> QED BY <1>1, <2>2 DEF Pending
<1>12. AwaitInv'
  <2> SUFFICES ASSUME NEW t \in ActiveTasks(tasks), t \notin Range(ready),
                      NEW d, d = tasks'[t].awaits, d # None
               PROVE  Coming(t, d)'
    BY <1>1, <1>6 DEF AwaitInv
  <2>1. Coming(t, d)
    BY <1>1, <1>2, <1>3, <1>5 DEF LiveInv, AwaitInv, ActiveTasks, Coming
  <2> QED BY <1>6, <2>1 DEF Coming
<1>13. ReasonInv'
  <2> SUFFICES ASSUME NEW t \in ActiveTasks(tasks), t \notin Range(ready)
               PROVE  tasks'[t].futures # {} \/ tasks'[t].awaits # None \/ tasks'[t].inside
    BY <1>1, <1>6 DEF ReasonInv
  <2>1. CASE t = current
    <3>1. ~ \E i \in 1 .. Len(ready) : ready[i] = current
      BY <2>1, SeqRange DEF LiveInv, TypeOK
    <3> QED BY <1>1, <1>3, <1>5, <2>1, <3>1
  <2>2. CASE t # current
    BY <1>5, <2>2 DEF LiveInv, ReasonInv, ActiveTasks
  <2> QED BY <2>1, <2>2
<1>14. Control'
  BY <1>1 DEF LiveInv, Control
<1>15. NumberInv'
  BY <1>1, <1>6, NumbersKept
<1> QED BY <1>7, <1>8, <1>9, <1>10, <1>11, <1>12, <1>13, <1>14, <1>15 DEF LiveInv

LEMMA EndLive ==
    ASSUME Inv, LiveInv, End
    PROVE  LiveInv'
<1> DEFINE dead == Subtree(current)
           waiters(D) == {t \in ActiveTasks(tasks) : tasks[t].awaits \in D}
<1>1. /\ UNCHANGED <<commands, next_handle, ntasks, spawn_queue, ops, pending_requests,
                     stdin_closed_commands, pending_stdin_ops, total_steps, status, told, eofs, nwaits>>
      /\ pc = "poll" /\ pc' = "take" /\ current' = None /\ state' \in {"Done", "Progress"}
  BY DEF End, Return, channelVars, stdinVars, history
<1>2. PICK D : D = dead
  OBVIOUS
<1>3. tasks' = EndAll(D) /\ ready' = ready \o SetToSeq(waiters(D))
  BY <1>2 DEF End, WaitersOf
<1>4. current \in Tasks /\ tasks[current].st = "alive" /\ ready \in Seq(Tasks)
  BY <1>1 DEF LiveInv, TypeOK, Control
<1>5. current \in D /\ D \subseteq ActiveTasks(tasks)
  BY <1>2, <1>4, SubtreeChains DEF ActiveTasks
<1> HIDE DEF dead
<1>6. ready' \in Seq(Tasks) /\ Range(ready') = Range(ready) \cup waiters(D)
  <2>1. waiters(D) \in SUBSET Tasks /\ IsFiniteSet(waiters(D))
    <3>1. waiters(D) \in SUBSET Tasks
      BY DEF ActiveTasks
    <3> QED BY <3>1, TaskSets
  <2> DEFINE W == waiters(D)
             s == SetToSeq(W)
  <2> HIDE DEF W
  <2>2. s \in Seq(W) /\ Range(s) = W
    BY <2>1, SetToSeqRange DEF W
  <2>3. s \in Seq(Tasks)
    BY <2>1, <2>2 DEF W
  <2> HIDE DEF s
  <2>4. ready' = ready \o s
    BY <1>3 DEF s, W
  <2>5. Range(ready') = Range(ready) \cup W /\ ready' \in Seq(Tasks)
    BY <1>4, <2>2, <2>3, <2>4, ConcatRange
  <2> QED BY <2>5 DEF W
<1>7. (QueueInv /\ FutureInv /\ AwaitInv /\ ReasonInv /\ NumberInv)' /\ Children' = Children
  <2>1. /\ Range(ready') \subseteq Range(ready) \cup ActiveTasks(tasks)
        /\ Range(ready) \cap (ActiveTasks(tasks) \ D) \subseteq Range(ready')
        /\ \A t \in ActiveTasks(tasks) \ D : tasks[t].awaits \in D => t \in Range(ready')
    BY <1>6
  <2> QED BY <1>1, <1>3, <1>5, <1>6, <2>1, EndingLive
<1>8. /\ tasks' \in [Tasks -> Task] /\ \A t \in Tasks : tasks'[t].parent = tasks[t].parent
      /\ \A t \in Tasks : t \notin D => tasks'[t] = tasks[t]
  BY <1>3, EndAllFields DEF LiveInv
<1>9. TypeOK'
  BY <1>1, <1>6, <1>8 DEF LiveInv, TypeOK
<1>10. Room'
  <2>1. Fresh' = Fresh
    BY <1>1 DEF Fresh
  <2>2. \A t \in Tasks : t > ntasks => tasks'[t] = tasks[t]
    <3>1. \A t \in Tasks : t > ntasks => tasks[t].st # "alive"
      BY NoTaskType DEF LiveInv, Room
    <3> QED BY <1>5, <1>8, <3>1 DEF ActiveTasks
  <2> QED BY <1>1, <1>7, <2>1, <2>2, RoomKept
<1>11. CommandInv'
  <2>1. \A h \in Handles : \A cmd \in commands[h] : Started(cmd) => cmd.task_handle \in Tasks
    BY DEF LiveInv, TypeOK, CommandState, Started
  <2> QED BY <1>1, <1>8, <2>1 DEF LiveInv, CommandInv
<1>12. Control'
  BY <1>1 DEF LiveInv, Control
<1> QED BY <1>7, <1>9, <1>10, <1>11, <1>12 DEF LiveInv

LEMMA TakeHostOpLive ==
    ASSUME Inv, LiveInv, TakeHostOp
    PROVE  LiveInv'
<1> DEFINE o == Head(pending_requests)
           h == CommandOf(o)
           sent == [st |-> "sent", kind |-> ops[o].kind, task |-> ops[o].task, command |-> h]
           answered == [ops[o] EXCEPT !.st = "answered"]
<1>1. /\ UNCHANGED <<commands, next_handle, tasks, ntasks, spawn_queue, stdin_closed_commands,
                     pc, current, total_steps, state, status, told, eofs, nwaits>>
      /\ pc = "take" /\ pending_requests # <<>> /\ pending_requests' = Tail(pending_requests)
  BY DEF TakeHostOp, loopVars, history
<1>2. \/ /\ ~Wanted(o)
         /\ ops' = [ops EXCEPT ![o] = NoOp]
         /\ UNCHANGED <<ready, pending_stdin_ops>>
      \/ /\ Wanted(o)
         /\ ops' = [ops EXCEPT ![o].st = "answered"]
         /\ ready' = Append(ready, ops[o].task)
         /\ UNCHANGED pending_stdin_ops
      \/ /\ Wanted(o)
         /\ ops' = [ops EXCEPT ![o] = sent]
         /\ UNCHANGED ready
         /\ \/ pending_stdin_ops' = pending_stdin_ops
            \/ h # None /\ pending_stdin_ops' = pending_stdin_ops \cup {<<o, h>>}
  <2> DEFINE stdin == ops[o].kind = "stdin" /\ h # None
  <2>1. \/ /\ ~Wanted(o)
           /\ ops' = [ops EXCEPT ![o] = NoOp]
           /\ UNCHANGED <<ready, pending_stdin_ops>>
        \/ /\ Wanted(o) /\ stdin /\ h \in stdin_closed_commands
           /\ ops' = [ops EXCEPT ![o].st = "answered"]
           /\ ready' = Append(ready, ops[o].task)
           /\ UNCHANGED pending_stdin_ops
        \/ /\ Wanted(o) /\ ~(stdin /\ h \in stdin_closed_commands)
           /\ ops' = [ops EXCEPT ![o] = sent]
           /\ UNCHANGED ready
           /\ pending_stdin_ops' = pending_stdin_ops \cup (IF stdin THEN {<<o, h>>} ELSE {})
    BY DEF TakeHostOp
  <2> HIDE DEF o, h, sent
  <2> QED BY <2>1
<1>3. /\ ops \in [Ops -> Op] /\ ready \in Seq(Tasks) /\ pending_requests \in Seq(Ops)
      /\ pending_stdin_ops \subseteq Ops \X Handles
  BY DEF LiveInv, TypeOK
<1>4. /\ o \in Ops /\ pending_requests' \in Seq(Ops)
      /\ Range(pending_requests) = Range(pending_requests') \cup {o}
  BY <1>1, <1>3, TailRange
<1>5. h \in Handles \cup {None}
  BY DEF CommandOf
<1>6. ops[o] \in Op
  BY <1>3, <1>4
<1>7. /\ sent \in Op /\ sent.st = "sent" /\ sent.task = ops[o].task
      /\ answered \in Op /\ answered.st = "answered" /\ answered.task = ops[o].task
  <2>1. answered \in Op /\ answered.st = "answered" /\ answered.task = ops[o].task
    BY <1>6, OpTurns
  <2>2. ops[o].kind \in Kinds /\ ops[o].task \in Tasks \cup {None}
    BY <1>6, OpFields
  <2> HIDE DEF h, answered
  <2> QED BY <1>5, <2>1, <2>2 DEF Op
<1>8. NoOp \in Op
  BY DEF NoOp, Op, Kinds
<1>9. Wanted(o) => ops[o].task \in Tasks /\ tasks[ops[o].task].st = "alive"
  BY <1>6, OpFields DEF Wanted, Alive
<1>10. [ops EXCEPT ![o].st = "answered"] = [ops EXCEPT ![o] = answered]
  BY <1>3
<1> HIDE DEF o, h, sent, answered
<1>11. /\ ops' \in [Ops -> Op] /\ \A p \in Ops : p # o => ops'[p] = ops[p]
       /\ Wanted(o) => \/ ops'[o] = sent
                       \/ ops'[o] = answered /\ ops[o].task \in Range(ready')
       /\ ready' \in Seq(Tasks)
       /\ Range(ready) \subseteq Range(ready')
       /\ \A t \in Range(ready') : t \in Range(ready) \/ (t \in Tasks /\ tasks[t].st = "alive")
  <2>1. CASE ~Wanted(o) /\ ops' = [ops EXCEPT ![o] = NoOp] /\ ready' = ready
    <3> HIDE DEF NoOp
    <3> QED BY <1>3, <1>4, <1>8, <2>1
  <2>2. CASE Wanted(o) /\ ops' = [ops EXCEPT ![o] = answered] /\ ready' = Append(ready, ops[o].task)
    <3>1. ready' \in Seq(Tasks) /\ Range(ready') = Range(ready) \cup {ops[o].task}
      BY <1>3, <1>9, <2>2, AppendRange
    <3> QED BY <1>3, <1>4, <1>7, <1>9, <2>2, <3>1
  <2>3. CASE Wanted(o) /\ ops' = [ops EXCEPT ![o] = sent] /\ ready' = ready
    BY <1>3, <1>4, <1>7, <2>3
  <2> QED BY <1>2, <1>10, <2>1, <2>2, <2>3
<1>12. TypeOK'
  <2>1. pending_stdin_ops' \subseteq Ops \X Handles
    BY <1>2, <1>3, <1>4, <1>5
  <2> QED BY <1>1, <1>4, <1>11, <2>1 DEF LiveInv, TypeOK
<1>13. Room' /\ CommandInv' /\ Control'
  BY <1>1 DEF LiveInv, Room, CommandInv, Control, Children, Fresh
<1>14. QueueInv'
  BY <1>1, <1>11 DEF LiveInv, QueueInv
<1>15. FutureInv'
  <2> SUFFICES ASSUME NEW t \in ActiveTasks(tasks), NEW p \in tasks[t].futures
               PROVE  ops'[p].task = t /\ Pending(p)'
    BY <1>1 DEF FutureInv
  <2>1. p \in Ops /\ ops[p].task = t /\ Pending(p) /\ t \in Tasks /\ tasks[t].st = "alive"
    BY TaskFields DEF LiveInv, FutureInv, TypeOK, ActiveTasks
  <2>2. CASE p = o
    <3>1. Wanted(o)
      BY <2>1, <2>2, Bounds DEF Wanted, Alive
    <3> QED BY <1>7, <1>11, <2>1, <2>2, <3>1 DEF Pending
  <2>3. CASE p # o
    BY <1>4, <1>11, <2>1, <2>3 DEF Pending
  <2> QED BY <2>2, <2>3
<1>16. AwaitInv' /\ ReasonInv' /\ NumberInv'
  BY <1>1, <1>11 DEF LiveInv, AwaitInv, ReasonInv, NumberInv, Coming, ActiveTasks
<1> QED BY <1>12, <1>13, <1>14, <1>15, <1>16 DEF LiveInv

LEMMA TakeDoneLive ==
    ASSUME Inv, LiveInv, TakeDone
    PROVE  LiveInv'
<1>1. /\ UNCHANGED <<commands, next_handle, tasks, ntasks, ready, spawn_queue, ops,
                     pending_requests, stdin_closed_commands, pending_stdin_ops, current, state,
                     status, told, eofs, nwaits>>
      /\ pc = "take" /\ pc' \in {"reap", "run"} /\ pending_requests = <<>>
      /\ total_steps' = total_steps \/ (~StepLimitReached /\ total_steps' = total_steps + 1)
  BY DEF TakeDone, schedulerVars, channelVars, stdinVars, history
<1>2. TypeOK'
  <2>1. total_steps' \in 0 .. MaxSteps - 1
    BY <1>1, Bounds DEF LiveInv, TypeOK, StepLimitReached
  <2> QED BY <1>1, <2>1 DEF LiveInv, TypeOK
<1>3. Room' /\ CommandInv' /\ Control'
  BY <1>1 DEF LiveInv, Room, CommandInv, Control, Children, Fresh
<1>4. (QueueInv /\ FutureInv /\ AwaitInv /\ ReasonInv /\ NumberInv)'
  BY <1>1 DEF LiveInv, QueueInv, FutureInv, Pending, AwaitInv, Coming, ReasonInv,
              NumberInv, ActiveTasks
<1> QED BY <1>2, <1>3, <1>4 DEF LiveInv

LEMMA ReapLive ==
    ASSUME Inv, LiveInv, Reap
    PROVE  LiveInv'
<1>1. /\ UNCHANGED <<next_handle, tasks, ntasks, ready, spawn_queue, ops, pending_requests,
                     stdin_closed_commands, pending_stdin_ops, current, eofs, nwaits>>
      /\ pc = "reap" /\ pc' = "host" /\ total_steps' = 0 /\ state' = "Progress"
      /\ status' = collect_response(commands')
      /\ commands' = [h \in Handles |->
           IF Finished(h) = {} THEN commands[h] ELSE {Exited(cmd) : cmd \in commands[h]}]
      /\ told' = [h \in Handles |-> told[h] + Cardinality(Finished(h))]
  BY DEF Reap, schedulerVars, channelVars, stdinVars
<1>2. \A h \in Handles : commands[h] \subseteq CommandState /\ told[h] \in 0 .. 1
  BY DEF LiveInv, TypeOK
<1>3. \A cmd \in CommandState : Exited(cmd) \in CommandState /\ Over(Exited(cmd)) /\ ~Started(Exited(cmd))
  BY DEF CommandState, Exited, Over, Started
<1>4. ASSUME NEW h \in Handles, Finished(h) = {}
      PROVE  commands'[h] = commands[h] /\ told'[h] = told[h]
  <2>1. Cardinality(Finished(h)) = 0
    BY <1>4, FS_EmptySet
  <2>2. told'[h] = told[h] + Cardinality(Finished(h)) /\ commands'[h] = commands[h]
    BY <1>1, <1>4
  <2> QED BY <1>2, <2>1, <2>2
<1>5. ASSUME NEW h \in Handles, Finished(h) # {}
      PROVE  commands'[h] = {Exited(cmd) : cmd \in commands[h]} /\ told'[h] = 1
  <2>1. PICK cmd \in Finished(h) : TRUE
    BY <1>5
  <2>2. cmd \in commands[h] /\ ~Over(cmd)
    BY <2>1 DEF Finished
  <2>3. told[h] = 0
    BY <2>2 DEF Inv, Retired
  <2>4. Finished(h) = {cmd}
    BY <2>1, <2>2 DEF Finished, LiveInv, CommandInv
  <2>5. Cardinality(Finished(h)) = 1
    BY <2>4, FS_Singleton
  <2> QED BY <1>1, <1>5, <2>3, <2>5
<1>6. TypeOK'
  <2>1. \A h \in Handles : commands'[h] \in SUBSET CommandState /\ told'[h] \in 0 .. 1
    BY <1>2, <1>3, <1>4, <1>5
  <2>2. commands' \in [Handles -> SUBSET CommandState] /\ told' \in [Handles -> 0 .. 1]
    BY <1>1, <2>1
  <2>3. status' \in {"none", "Running", "AllBlocked", "AllDone"} /\ total_steps' \in 0 .. MaxSteps - 1
    BY <1>1, Bounds DEF collect_response
  <2> QED BY <1>1, <2>2, <2>3 DEF LiveInv, TypeOK
<1>7. CommandInv'
  <2> SUFFICES ASSUME NEW h \in Handles
               PROVE  /\ \A a, b \in commands'[h] : a = b
                      /\ \A c \in commands'[h] :
                           /\ Over(c) => told'[h] = 1
                           /\ Started(c) => c.task_handle <= ntasks' /\ tasks'[c.task_handle].parent = None
    BY DEF CommandInv
  <2>1. CASE Finished(h) = {}
    BY <1>1, <1>4, <2>1 DEF LiveInv, CommandInv
  <2>2. CASE Finished(h) # {}
    <3>1. \A a, b \in commands[h] : a = b
      BY DEF LiveInv, CommandInv
    <3> QED BY <1>2, <1>3, <1>5, <2>2, <3>1
  <2> QED BY <2>1, <2>2
<1>8. Room'
  <2>1. Fresh' \subseteq Fresh
    <3> SUFFICES ASSUME NEW h \in Handles, NEW c \in commands'[h], ~Over(c), ~Started(c)
                 PROVE  c \in commands[h]
      BY DEF Fresh
    <3> QED BY <1>2, <1>3, <1>4, <1>5
  <2>2. Children' = Children
    BY <1>1 DEF Children
  <2> QED BY <1>1, <2>1, <2>2, RoomKept
<1>9. Control'
  BY <1>1 DEF Control
<1>10. (QueueInv /\ FutureInv /\ AwaitInv /\ ReasonInv /\ NumberInv)'
  BY <1>1 DEF LiveInv, QueueInv, FutureInv, Pending, AwaitInv, Coming, ReasonInv,
              NumberInv, ActiveTasks
<1> QED BY <1>6, <1>7, <1>8, <1>9, <1>10 DEF LiveInv

-----------------------------------------------------------------------------
(* Wakes from inside the sandbox, and stray ones.                          *)
LEMMA WakeInsideLive ==
    ASSUME Inv, LiveInv, NEW w \in Tasks, WakeInside(w)
    PROVE  LiveInv'
<1>1. /\ UNCHANGED <<commands, next_handle, ntasks, spawn_queue, ops, pending_requests,
                     stdin_closed_commands, pending_stdin_ops, pc, current, total_steps, state,
                     status, told, eofs, nwaits>>
      /\ pc # "host" /\ pc # "reap" /\ tasks[w].inside
      /\ ready' = Append(ready, w)
      /\ tasks' = [tasks EXCEPT ![w].inside = FALSE]
  BY DEF WakeInside, channelVars, stdinVars, loopVars, history
<1>2. /\ tasks \in [Tasks -> Task] /\ ready \in Seq(Tasks) /\ ActiveTasks(tasks) \subseteq Tasks
      /\ tasks[w] \in Task
  BY DEF LiveInv, TypeOK, ActiveTasks
<1>3. ready' \in Seq(Tasks) /\ Range(ready') = Range(ready) \cup {w}
  BY <1>1, <1>2, AppendRange
<1>4. tasks[w] # NoTask /\ tasks[w].st # "none"
  <2>1. tasks[w] # NoTask
    BY <1>1, NoTaskType
  <2>2. tasks[w].st = "none" => ~(w <= ntasks)
    BY DEF LiveInv, NumberInv
  <2>3. w > ntasks => tasks[w] = NoTask
    BY DEF LiveInv, Room
  <2>4. w \in Nat /\ ntasks \in Nat
    BY Bounds DEF LiveInv, TypeOK
  <2> QED BY <2>1, <2>2, <2>3, <2>4
<1>5. /\ tasks' \in [Tasks -> Task]
      /\ \A t \in Tasks : /\ tasks'[t].st = tasks[t].st /\ tasks'[t].parent = tasks[t].parent
                          /\ tasks'[t].futures = tasks[t].futures /\ tasks'[t].awaits = tasks[t].awaits
                          /\ t # w => tasks'[t] = tasks[t]
  <2> DEFINE new == [tasks[w] EXCEPT !.inside = FALSE]
  <2>1. new \in Task /\ new.st = tasks[w].st /\ new.parent = tasks[w].parent
        /\ new.futures = tasks[w].futures /\ new.awaits = tasks[w].awaits
    BY <1>2 DEF Task
  <2>2. tasks' = [tasks EXCEPT ![w] = new]
    BY <1>1
  <2> HIDE DEF new
  <2> QED BY <1>2, <2>1, <2>2
<1>6. ActiveTasks(tasks') = ActiveTasks(tasks)
  BY <1>5 DEF ActiveTasks
<1>7. TypeOK'
  BY <1>1, <1>3, <1>5 DEF LiveInv, TypeOK
<1>8. Room'
  <2>1. Fresh' = Fresh /\ Children' = Children
    BY <1>1, <1>5 DEF Fresh, Children
  <2>2. \A t \in Tasks : t > ntasks => tasks'[t] = tasks[t]
    <3>1. ~(w > ntasks)
      BY <1>4 DEF LiveInv, Room
    <3> QED BY <1>5, <3>1
  <2> QED BY <1>1, <2>1, <2>2, RoomKept
<1>9. CommandInv'
  <2>1. \A h \in Handles : \A cmd \in commands[h] : Started(cmd) => cmd.task_handle \in Tasks
    BY DEF LiveInv, TypeOK, CommandState, Started
  <2> QED BY <1>1, <1>5, <2>1 DEF LiveInv, CommandInv
<1>10. QueueInv'
  <2>1. Range(ready) \subseteq Tasks /\ Range(spawn_queue) \subseteq Tasks
    BY SeqRange DEF LiveInv, TypeOK
  <2>2. \A t \in Range(ready') \cup Range(spawn_queue) : t \in Tasks /\ tasks[t].st # "none"
    BY <1>3, <1>4, <2>1 DEF LiveInv, QueueInv
  <2>3. tasks[w].st # "queued"
    BY <1>1 DEF LiveInv, QueueInv
  <2>4. \A t \in Tasks : tasks[t].st = "queued" => tasks'[t] = tasks[t]
    BY <1>5, <2>3
  <2> QED BY <1>1, <1>5, <2>2, <2>4 DEF LiveInv, QueueInv
<1>11. FutureInv'
  <2>1. \A o : Pending(o) => Pending(o)'
    BY <1>1, <1>3 DEF Pending
  <2> QED BY <1>1, <1>2, <1>5, <1>6, <2>1 DEF LiveInv, FutureInv
<1>12. AwaitInv'
  <2>1. \A t, c : Coming(t, c) => Coming(t, c)'
    BY <1>5 DEF Coming
  <2> QED BY <1>2, <1>3, <1>5, <1>6, <2>1 DEF LiveInv, AwaitInv
<1>13. ReasonInv'
  <2> SUFFICES ASSUME NEW t \in ActiveTasks(tasks), t \notin Range(ready'), ~(pc = "poll" /\ t = current)
               PROVE  tasks'[t].futures # {} \/ tasks'[t].awaits # None \/ tasks'[t].inside
    BY <1>1, <1>6 DEF ReasonInv
  <2>1. t \in Tasks /\ t # w /\ t \notin Range(ready)
    BY <1>2, <1>3
  <2>2. tasks'[t] = tasks[t]
    BY <1>5, <2>1
  <2> QED BY <2>1, <2>2 DEF LiveInv, ReasonInv
<1>14. NumberInv' /\ Control'
  BY <1>1, <1>5, NumbersKept DEF LiveInv, TypeOK, Control
<1> QED BY <1>7, <1>8, <1>9, <1>10, <1>11, <1>12, <1>13, <1>14 DEF LiveInv

LEMMA StrayWakeLive ==
    ASSUME Inv, LiveInv, NEW t \in Tasks, StrayWake(t)
    PROVE  LiveInv'
<1>1. /\ UNCHANGED <<commands, next_handle, tasks, ntasks, spawn_queue, ops,
                     pending_requests, stdin_closed_commands, pending_stdin_ops, pc, current,
                     total_steps, state, status, told, eofs>>
      /\ nwaits < MaxWaits /\ nwaits' = nwaits + 1
      /\ ready' = Append(ready, t) /\ tasks[t].st # "none"
  BY DEF StrayWake, channelVars, stdinVars, loopVars, history
<1>2. ready' \in Seq(Tasks) /\ Range(ready') = Range(ready) \cup {t}
  BY <1>1, AppendRange DEF LiveInv, TypeOK
<1>3. TypeOK'
  <2>1. nwaits' \in 0 .. MaxWaits
    BY <1>1, Bounds DEF LiveInv, TypeOK
  <2> QED BY <1>1, <1>2, <2>1 DEF LiveInv, TypeOK
<1>4. (Room /\ CommandInv /\ NumberInv /\ Control)'
  BY <1>1 DEF LiveInv, Room, Children, Fresh, CommandInv, NumberInv, Control, ActiveTasks
<1>5. QueueInv'
  BY <1>1, <1>2 DEF LiveInv, QueueInv
<1>6. (FutureInv /\ AwaitInv /\ ReasonInv)'
  BY <1>1, <1>2 DEF LiveInv, FutureInv, Pending, AwaitInv, Coming, ReasonInv, ActiveTasks
<1> QED BY <1>3, <1>4, <1>5, <1>6 DEF LiveInv

-----------------------------------------------------------------------------
LEMMA NextLive == Inv /\ LiveInv /\ [Next]_vars => LiveInv'
<1> SUFFICES ASSUME Inv, LiveInv, [Next]_vars PROVE LiveInv'
  OBVIOUS
<1>1. CASE create_command
  BY <1>1, CreateLive
<1>2. CASE \E h \in Handles : delete_command(h) \/ cancel_command(h)
  BY <1>2, DeleteLive, CancelLive
<1>3. CASE \E o \in Ops, answer \in {"data", "eof", "error"} : submit_results(o, answer)
  BY <1>3, SubmitResultsLive
<1>4. CASE StepBegin
  BY <1>4, StepBeginLive
<1>5. CASE RunStep
  BY <1>5, RunStepLive
<1>6. CASE SpawnChild
  BY <1>6, SpawnChildLive
<1>7. CASE End
  BY <1>7, EndLive
<1>8. CASE \E kind \in Kinds : SubmitOp(kind)
  BY <1>8, SubmitOpLive
<1>9. CASE \E kept \in SUBSET Ops, c \in Tasks \cup {None}, inside \in BOOLEAN :
             ReturnPending(kept, c, inside)
  BY <1>9, ReturnPendingLive
<1>10. CASE TakeHostOp
  BY <1>10, TakeHostOpLive
<1>11. CASE TakeDone
  BY <1>11, TakeDoneLive
<1>12. CASE Reap
  BY <1>12, ReapLive
<1>13. CASE UNCHANGED vars
  <2>1. UNCHANGED <<commands, next_handle, tasks, ntasks, ready, spawn_queue, ops,
                    pending_requests, stdin_closed_commands, pending_stdin_ops, pc, current,
                    total_steps, state, status, told, eofs, nwaits>>
    BY <1>13 DEF vars, schedulerVars, channelVars, stdinVars, loopVars, history
  <2> QED BY <2>1 DEF LiveInv, TypeOK, Room, Children, Fresh, CommandInv, QueueInv, FutureInv,
                      Pending, AwaitInv, Coming, ReasonInv,
                      NumberInv, Control, ActiveTasks
<1>14. CASE \E t \in Tasks : WakeInside(t) \/ StrayWake(t)
  BY <1>14, WakeInsideLive, StrayWakeLive
<1> QED BY <1>1, <1>2, <1>3, <1>4, <1>5, <1>6, <1>7, <1>8, <1>9, <1>10, <1>11, <1>12, <1>13, <1>14
        DEF Next, Step

(* The tables keep their types; in particular every command finds a number *)
(* for its task, and a told counter never passes one.  A task that is not  *)
(* ready waits for an operation whose answer it has not been woken for, for *)
(* a child that lives or will, or for something inside the sandbox.        *)
THEOREM LiveInvariance == Spec => [](Inv /\ LiveInv)
<1>1. Init => Inv /\ LiveInv
  BY InitInv, InitLive
<1>2. (Inv /\ LiveInv) /\ [Next]_vars => (Inv /\ LiveInv)'
  BY NextInv, NextLive
<1> QED BY <1>1, <1>2, PTL DEF Spec

(* Of the active tasks the one that came last waits for no child.          *)
LEMMA LastTask ==
    ASSUME LiveInv, ActiveTasks(tasks) # {}
    PROVE  \E t \in ActiveTasks(tasks) : ~Alive(tasks[t].awaits) \/ tasks[tasks[t].awaits].parent # t
<1> DEFINE A == ActiveTasks(tasks)
           back == {MaxTasks - t : t \in A}
<1>1. A \subseteq Tasks /\ \A t \in Tasks : t \in Nat /\ MaxTasks - t \in Nat
  BY Bounds DEF ActiveTasks, Tasks
<1>2. back \in SUBSET Nat /\ back # {}
  <2> HIDE DEF A
  <2>1. A # {}
    BY DEF A
  <2>2. \A t \in A : MaxTasks - t \in Nat /\ MaxTasks - t \in back
    BY <1>1
  <2> QED BY <2>1, <2>2
<1>3. PICK x \in back : \A y \in back : x <= y
  <2> HIDE DEF back
  <2> QED BY <1>2, LeastNat
<1>4. PICK t \in A : x = MaxTasks - t
  BY <1>3
<1>5. \A u \in A : ~(t < u)
  <2> SUFFICES ASSUME NEW u \in A, t < u PROVE FALSE
    OBVIOUS
  <2>1. MaxTasks - t <= MaxTasks - u
    BY <1>3, <1>4
  <2>2. t \in Nat /\ u \in Nat
    BY <1>1, <1>4
  <2> HIDE DEF A, back
  <2> QED BY <2>1, <2>2, Bounds
<1>6. ASSUME Alive(tasks[t].awaits), tasks[tasks[t].awaits].parent = t PROVE FALSE
  <2> DEFINE c == tasks[t].awaits
  <2>1. t \in Tasks /\ tasks[t] \in Task
    BY <1>1, <1>4 DEF LiveInv, TypeOK
  <2>2. c \in Tasks /\ c \in A
    BY <1>6, <2>1, TaskFields DEF Alive, ActiveTasks
  <2>3. t < c
    BY <1>6, <2>1, <2>2, Bounds DEF LiveInv, NumberInv
  <2> QED BY <1>5, <2>2, <2>3
<1> QED BY <1>4, <1>6

(* The response that step collects (collect_response).                     *)
LEMMA ReapIsTrue ==
    ASSUME Inv, LiveInv, Reap
    PROVE  StatusIsTrue'
<1>1. /\ UNCHANGED <<tasks, ready, spawn_queue, ops, pending_requests>>
      /\ pc = "reap" /\ status' = collect_response(commands')
      /\ commands' = [h \in Handles |->
           IF Finished(h) = {} THEN commands[h] ELSE {Exited(cmd) : cmd \in commands[h]}]
  BY DEF Reap, schedulerVars, channelVars
<1>2. LiveInv' /\ pending_requests = <<>>
  BY <1>1, ReapLive DEF LiveInv, Control
<1>3. ASSUME status' = "AllDone", NEW h \in Handles, commands'[h] # {} PROVE told'[h] = 1
  <2>1. PICK cmd \in commands'[h] : TRUE
    BY <1>3
  <2>2. Over(cmd)
    BY <1>1, <1>3 DEF collect_response
  <2> QED BY <1>2, <2>2 DEF LiveInv, CommandInv
<1>4. ASSUME status' = "AllBlocked"
      PROVE  /\ Range(ready) = {} /\ Range(spawn_queue) = {} /\ Range(pending_requests) = {}
             /\ \A c \in Tasks : tasks[c].st # "queued"
             /\ \E h \in Handles : \E cmd \in commands'[h] : ~Over(cmd) /\ Started(cmd)
  <2>1. /\ ready = <<>> /\ spawn_queue = <<>>
        /\ \E h \in Handles : \E cmd \in commands'[h] : ~Over(cmd) /\ Started(cmd)
    BY <1>1, <1>4 DEF collect_response, has_ready_tasks
  <2>2. Range(ready) = {} /\ Range(spawn_queue) = {} /\ Range(pending_requests) = {}
    BY <1>2, <2>1 DEF Range
  <2>3. \A c \in Tasks : tasks[c].st # "queued"
    BY <2>2 DEF LiveInv, QueueInv
  <2> QED BY <2>1, <2>2, <2>3
<1>5. ASSUME status' = "AllBlocked", NEW t \in ActiveTasks(tasks)
      PROVE  /\ \A o \in tasks[t].futures : ops[o].st = "sent"
             /\ tasks[t].awaits # None => Alive(tasks[t].awaits) /\ tasks[tasks[t].awaits].parent = t
             /\ tasks[t].futures # {} \/ tasks[t].inside \/ tasks[t].awaits # None
  <2>1. /\ Range(ready) = {} /\ Range(pending_requests) = {}
        /\ \A c \in Tasks : tasks[c].st # "queued"
    BY <1>4, <1>5
  <2>2. \A o \in tasks[t].futures : ops[o].st = "sent"
    BY <2>1 DEF LiveInv, FutureInv, Pending
  <2>4. tasks[t].awaits # None => Alive(tasks[t].awaits) /\ tasks[tasks[t].awaits].parent = t
    BY <2>1 DEF LiveInv, AwaitInv, Coming, Alive
  <2>5. tasks[t].futures # {} \/ tasks[t].inside \/ tasks[t].awaits # None
    BY <1>1, <2>1 DEF LiveInv, ReasonInv
  <2> QED BY <2>2, <2>4, <2>5
<1>6. ASSUME status' = "AllBlocked"
      PROVE  \E t \in ActiveTasks(tasks) : tasks[t].futures # {} \/ tasks[t].inside
  <2>1. PICK h \in Handles : \E cmd \in commands'[h] : ~Over(cmd) /\ Started(cmd)
    BY <1>4, <1>6
  <2>2. Finished(h) = {}
    <3> SUFFICES ASSUME Finished(h) # {} PROVE FALSE
      OBVIOUS
    <3>1. commands'[h] = {Exited(cmd) : cmd \in commands[h]}
      BY <1>1
    <3> QED BY <2>1, <3>1 DEF Exited, Started
  <2>3. PICK cmd \in commands[h] : ~Over(cmd) /\ Started(cmd)
    BY <1>1, <2>1, <2>2
  <2>4. cmd.task_handle \in Tasks /\ cmd.task_handle <= ntasks /\ tasks[cmd.task_handle].st # "gone"
    BY <2>2, <2>3 DEF Finished, LiveInv, TypeOK, CommandState, CommandInv, Started
  <2>5. tasks[cmd.task_handle].st \in {"none", "queued", "alive", "gone"}
    BY <2>4, TaskFields DEF LiveInv, TypeOK
  <2>6. tasks[cmd.task_handle].st = "alive"
    BY <1>4, <1>6, <2>4, <2>5 DEF LiveInv, NumberInv
  <2>7. PICK t \in ActiveTasks(tasks) : ~Alive(tasks[t].awaits) \/ tasks[tasks[t].awaits].parent # t
    <3>1. ActiveTasks(tasks) # {}
      BY <2>4, <2>6 DEF ActiveTasks
    <3> QED BY <3>1, LastTask
  <2>8. tasks[t].futures # {} \/ tasks[t].inside
    BY <1>5, <1>6, <2>7
  <2> QED BY <2>8
<1>7. ActiveTasks(tasks') = ActiveTasks(tasks) /\ \A c : Alive(c)' <=> Alive(c)
  BY <1>1 DEF ActiveTasks, Alive
<1>8. status' = "AllDone" => \A h \in Handles : commands'[h] # {} => told'[h] = 1
  BY <1>3
<1>9. status' = "AllBlocked" =>
        /\ \A t \in ActiveTasks(tasks') :
             /\ \A o \in tasks'[t].futures : ops'[o].st = "sent"
             /\ tasks'[t].awaits # None => Alive(tasks[t].awaits)'
             /\ tasks'[t].futures # {} \/ tasks'[t].inside \/ tasks'[t].awaits # None
        /\ \E t \in ActiveTasks(tasks') : tasks'[t].futures # {} \/ tasks'[t].inside
  <2> SUFFICES ASSUME status' = "AllBlocked"
               PROVE  /\ \A t \in ActiveTasks(tasks) :
                           /\ \A o \in tasks[t].futures : ops[o].st = "sent"
                           /\ tasks[t].awaits # None => Alive(tasks[t].awaits)
                           /\ tasks[t].futures # {} \/ tasks[t].inside \/ tasks[t].awaits # None
                      /\ \E t \in ActiveTasks(tasks) : tasks[t].futures # {} \/ tasks[t].inside
    BY <1>1, <1>7
  <2> QED BY <1>5, <1>6
<1> QED BY <1>1, <1>8, <1>9 DEF StatusIsTrue

(* The status is true (Runtime::step, collect_response): AllDone says that *)
(* every command has reported its exit, AllBlocked that no task was woken  *)
(* that has not been polled since, by an answer, by the end of a child or  *)
(* from inside the sandbox, and that some task waits for something other   *)
(* than a child, which need not be a host operation: BlockedOnHost does    *)
(* not hold.                                                               *)
THEOREM StatusSafe == Spec => []StatusIsTrue
<1>1. Init => StatusIsTrue
  BY DEF Init, StatusIsTrue
<1>2. Inv /\ LiveInv /\ StatusIsTrue /\ [Next]_vars => StatusIsTrue'
  <2> SUFFICES ASSUME Inv, LiveInv, StatusIsTrue, [Next]_vars PROVE StatusIsTrue'
    OBVIOUS
  <2>1. CASE Reap
    BY <2>1, ReapIsTrue
  <2>2. CASE status' = "none"
    BY <2>2 DEF StatusIsTrue
  <2>3. CASE UNCHANGED vars
    <3>1. UNCHANGED <<commands, tasks, ops, status, told>>
      BY <2>3 DEF vars, schedulerVars, channelVars, history
    <3> QED BY <3>1 DEF StatusIsTrue, Alive, ActiveTasks
  <2>4. pc # "host" => status = "none"
    BY DEF LiveInv, Control
  <2>5. CASE \E t \in Tasks : WakeInside(t) \/ StrayWake(t)
    <3>1. pc # "host" /\ UNCHANGED status
      BY <2>5 DEF WakeInside, StrayWake
    <3> QED BY <2>2, <2>4, <3>1
  <2> QED BY <2>1, <2>2, <2>3, <2>4, <2>5
          DEF Next, Step, create_command, delete_command, cancel_command, submit_results, StepBegin,
              RunStep, SpawnChild, End, SubmitOp, ReturnPending, Return, TakeHostOp, TakeDone
<1> QED BY <1>1, <1>2, LiveInvariance, PTL DEF Spec
-----------------------------------------------------------------------------
(* The ring of the audit log: places, distances and what a write changes.  *)

(* Positions up to twice the capacity, brought back into the ring.         *)
Around(i) == IF i >= Capacity THEN i - Capacity ELSE i
Distance(from, to) == IF to >= from THEN to - from ELSE Capacity - from + to
Seen(ring, from, n) == [i \in 1 .. n |-> ring[(from + i - 1) % Capacity]]
PositionsInRing == write_pos \in Places /\ read_pos \in Places

LEMMA AroundIs == \A i \in 0 .. 2 * Capacity - 1 : i % Capacity = Around(i) /\ Around(i) \in Places
<1> USE RingHoldsEntries
<1>1. \A i \in 0 .. 2 * Capacity - 1 : i % Capacity = Around(i)
  BY DEF Around
<1>2. \A i \in 0 .. 2 * Capacity - 1 : Around(i) \in Places
  BY DEF Around, Places
<1> QED BY <1>1, <1>2

LEMMA QuarterIs == Capacity \div 4 \in Nat /\ Capacity \div 4 >= 1 /\ Capacity \div 4 < Capacity
BY RingHoldsEntries

LEMMA DistanceIs ==
    /\ \A r, w \in Places : Distance(r, w) \in 0 .. Capacity - 1 /\ w = Around(r + Distance(r, w))
    /\ \A r \in Places, n \in 0 .. Capacity - 1 : Distance(r, Around(r + n)) = n
BY RingHoldsEntries DEF Distance, Around, Places

(* What is seen of a ring from a place of it.                              *)
LEMMA SeenAt ==
    ASSUME NEW ring, NEW r \in Places, NEW n \in 0 .. Capacity
    PROVE  /\ Len(Seen(ring, r, n)) = n
           /\ DOMAIN Seen(ring, r, n) = 1 .. n
           /\ \A i \in 1 .. n : Seen(ring, r, n)[i] = ring[Around(r + i - 1)]
<1>1. \A i \in 1 .. n : (r + i - 1) % Capacity = Around(r + i - 1)
  <2> TAKE i \in 1 .. n
  <2>1. r + i - 1 \in 0 .. 2 * Capacity - 1
    BY RingHoldsEntries DEF Places
  <2> QED BY <2>1, AroundIs
<1> QED BY <1>1, RingHoldsEntries DEF Seen

LEMMA ReadableIs ==
    ASSUME PositionsInRing
    PROVE  /\ available = Distance(read_pos, write_pos) /\ available \in 0 .. Capacity - 1
           /\ write_pos = Around(read_pos + available)
           /\ Readable = Seen(buffer, read_pos, available)
           /\ Len(Readable) = available /\ DOMAIN Readable = 1 .. available
           /\ \A i \in 1 .. available : Readable[i] = buffer[Around(read_pos + i - 1)]
<1>1. available = Distance(read_pos, write_pos)
  BY DEF available, Distance
<1>2. available \in 0 .. Capacity - 1 /\ write_pos = Around(read_pos + available)
  BY <1>1, DistanceIs DEF PositionsInRing
<1>3. Readable = Seen(buffer, read_pos, available)
  BY DEF Readable, Seen
<1>4. available \in 0 .. Capacity
  BY <1>2, RingHoldsEntries
<1> QED BY <1>1, <1>2, <1>3, <1>4, SeenAt DEF PositionsInRing

(* The ring after a write of data behind n bytes, seen from where these    *)
(* begin: the data, of which the end may lie on their beginning.           *)
ByteAfter(ring, r, n, data, m, j) ==
    IF j > n THEN IF j - n <= m THEN data[j - n] ELSE ring[Around(r + j - 1)]
    ELSE IF j <= n + m - Capacity THEN data[Capacity - n + j] ELSE ring[Around(r + j - 1)]

LEMMA WrittenAt ==
    ASSUME NEW ring, NEW r \in Places, NEW n \in 0 .. Capacity - 1, NEW data,
           NEW m \in 1 .. Capacity - 1, Len(data) = m, NEW j \in 1 .. Capacity
    PROVE  Written(ring, Around(r + n), data)[Around(r + j - 1)] = ByteAfter(ring, r, n, data, m, j)
<1> DEFINE p == Around(r + j - 1)
<1> DEFINE s == Around(r + n)
<1> DEFINE off == IF j > n THEN j - n - 1 ELSE Capacity - n + j - 1
<1>1. p \in Places /\ s \in Places
  <2>1. r + j - 1 \in 0 .. 2 * Capacity - 1 /\ r + n \in 0 .. 2 * Capacity - 1
    BY RingHoldsEntries DEF Places
  <2> QED BY <2>1, AroundIs
<1>2. (p - s + Capacity) % Capacity = off
  <2>1. p - s + Capacity \in 0 .. 2 * Capacity - 1 /\ Around(p - s + Capacity) = off
    BY RingHoldsEntries DEF Places, Around
  <2> QED BY <2>1, AroundIs
<1>3. Written(ring, s, data)[p] = IF off < m THEN data[off + 1] ELSE ring[p]
  BY <1>1, <1>2 DEF Written
<1>4. /\ j > n => (off < m <=> j - n <= m) /\ off + 1 = j - n
      /\ ~(j > n) => (off < m <=> j <= n + m - Capacity) /\ off + 1 = Capacity - n + j
  BY RingHoldsEntries
<1> HIDE DEF p, s, off
<1>5. CASE j > n
  BY <1>3, <1>4, <1>5 DEF p, s, ByteAfter
<1>6. CASE ~(j > n)
  BY <1>3, <1>4, <1>6 DEF p, s, ByteAfter
<1> QED BY <1>5, <1>6

(* write_bytes overwrites just if the ring would be full.                  *)
LEMMA OverwritesIs ==
    ASSUME NEW r \in Places, NEW n \in 0 .. Capacity - 1, NEW m \in 1 .. Capacity - 1
    PROVE  would_overwrite(Around(r + n), Around(Around(r + n) + m), r) <=> n + m >= Capacity
BY RingHoldsEntries DEF would_overwrite, Around, Places

-----------------------------------------------------------------------------
(* Reading and writing seen as operations on the queue.                    *)
EndsWithLine(s) == Len(s) > 0 => IsNewline(s[Len(s)])

(* What is seen from the place k further on.                               *)
LEMMA SeenFrom ==
    ASSUME NEW ring, NEW r \in Places, NEW n \in 0 .. Capacity - 1, NEW k \in 0 .. n
    PROVE  /\ Around(r + k) \in Places /\ Distance(Around(r + k), Around(r + n)) = n - k
           /\ Seen(ring, Around(r + k), n - k) = SubSeq(Seen(ring, r, n), k + 1, n)
<1> USE RingHoldsEntries
<1>1. r + k \in 0 .. 2 * Capacity - 1 /\ r + n \in 0 .. 2 * Capacity - 1
  BY DEF Places
<1>2. Around(r + k) \in Places /\ Around(r + n) \in Places
  BY <1>1, AroundIs
<1>3. Distance(Around(r + k), Around(r + n)) = n - k
  BY DEF Distance, Around, Places
<1>4. n \in 0 .. Capacity /\ n - k \in 0 .. Capacity
  OBVIOUS
<1> DEFINE q == Seen(ring, r, n)
<1> DEFINE t == Seen(ring, Around(r + k), n - k)
<1>5. Len(t) = n - k /\ t = [i \in 1 .. n - k |-> t[i]]
  BY <1>2, <1>4, SeenAt DEF Seen
<1>6. \A i \in 1 .. n - k : t[i] = q[i + k]
  <2> TAKE i \in 1 .. n - k
  <2>1. i + k \in 1 .. n
    OBVIOUS
  <2>2. t[i] = ring[Around(Around(r + k) + i - 1)]
    BY <1>2, <1>4, SeenAt
  <2>3. q[i + k] = ring[Around(r + (i + k) - 1)]
    BY <1>4, <2>1, SeenAt
  <2>4. Around(Around(r + k) + i - 1) = Around(r + (i + k) - 1)
    BY DEF Around, Places
  <2> QED BY <2>2, <2>3, <2>4
<1>7. SubSeq(q, k + 1, n) = [i \in 1 .. n - k |-> q[i + k]]
  <2> HIDE DEF q
  <2>1. \A i \in 1 .. n - k : i + (k + 1) - 1 = i + k
    OBVIOUS
  <2>2. SubSeq(q, k + 1, n) = [i \in 1 .. 1 + n - (k + 1) |-> q[i + (k + 1) - 1]]
    BY DEF SubSeq
  <2>3. 1 + n - (k + 1) = n - k
    OBVIOUS
  <2> QED BY <2>1, <2>2, <2>3
<1> HIDE DEF q, t
<1>8. t = SubSeq(q, k + 1, n)
  BY <1>5, <1>6, <1>7
<1> QED BY <1>2, <1>3, <1>8 DEF q, t

(* drain takes the first bytes.                                            *)
LEMMA DrainIsDrain ==
    ASSUME PositionsInRing, NEW n \in 1 .. Capacity - 1, drain(n)
    PROVE  /\ PositionsInRing' /\ n <= Len(Readable)
           /\ Readable' = SubSeq(Readable, n + 1, Len(Readable))
<1> USE RingHoldsEntries
<1>1. /\ available \in 0 .. Capacity - 1 /\ write_pos = Around(read_pos + available)
      /\ Readable = Seen(buffer, read_pos, available) /\ Len(Readable) = available
  BY ReadableIs
<1>2. n \in 0 .. available /\ read_pos' = (read_pos + n) % Capacity /\ write_pos' = write_pos /\ buffer' = buffer
  BY <1>1 DEF drain
<1>3. read_pos \in Places /\ write_pos \in Places
  BY DEF PositionsInRing
<1>4. read_pos' = Around(read_pos + n)
  <2>1. read_pos + n \in 0 .. 2 * Capacity - 1
    BY <1>3 DEF Places
  <2> QED BY <2>1, <1>2, AroundIs
<1> DEFINE a == available
<1> HIDE DEF a
<1>5. /\ Around(read_pos + n) \in Places /\ Distance(Around(read_pos + n), Around(read_pos + a)) = a - n
      /\ Seen(buffer, Around(read_pos + n), a - n) = SubSeq(Seen(buffer, read_pos, a), n + 1, a)
  BY <1>1, <1>2, <1>3, SeenFrom DEF a
<1>6. PositionsInRing'
  BY <1>2, <1>3, <1>4, <1>5 DEF PositionsInRing
<1>7. available' = Distance(read_pos', write_pos') /\ Readable' = Seen(buffer', read_pos', available')
  <2>1. available' = Distance(read_pos', write_pos')
    BY DEF available, Distance
  <2>2. Readable' = Seen(buffer', read_pos', available')
    BY DEF Readable, Seen
  <2> QED BY <2>1, <2>2
<1>8. available' = a - n
  BY <1>1, <1>2, <1>4, <1>5, <1>7 DEF a
<1> QED BY <1>1, <1>2, <1>4, <1>5, <1>6, <1>7, <1>8 DEF a

(* find_next_entry, among n bytes that end with a newline: behind the first  *)
(* newline at or after the k-th.                                             *)
LEMMA NextEntryIs ==
    ASSUME NEW ring, NEW r \in Places, NEW n \in 1 .. Capacity - 1, NEW k \in 0 .. n - 1,
           IsNewline(ring[Around(r + n - 1)])
    PROVE  \E c \in (k + 1) .. n :
             /\ find_next_entry(ring, Around(r + k)) = Around(r + c)
             /\ IsNewline(ring[Around(r + c - 1)])
             /\ \A j \in (k + 1) .. (c - 1) : ~IsNewline(ring[Around(r + j - 1)])
<1> USE RingHoldsEntries
<1> DEFINE start == Around(r + k)
<1> DEFINE steps == {i \in Places : IsNewline(ring[(start + i) % Capacity])}
<1>1. \A i \in 0 .. n - k - 1 : (start + i) % Capacity = Around(r + (k + 1 + i) - 1)
  <2> TAKE i \in 0 .. n - k - 1
  <2>1. start + i \in 0 .. 2 * Capacity - 1 /\ Around(start + i) = Around(r + (k + 1 + i) - 1)
    BY DEF Around, Places
  <2> QED BY <2>1, AroundIs
<1>2. \A i \in 0 .. n - k - 1 : i \in Places /\ (i \in steps <=> IsNewline(ring[Around(r + (k + 1 + i) - 1)]))
  <2> TAKE i \in 0 .. n - k - 1
  <2>1. i \in Places
    BY DEF Places
  <2> QED BY <1>1, <2>1
<1>3. n - k - 1 \in steps
  <2>1. n - k - 1 \in 0 .. n - k - 1 /\ k + 1 + (n - k - 1) = n
    OBVIOUS
  <2> QED BY <1>2, <2>1
<1>4. steps \in SUBSET Nat
  BY DEF Places
<1> HIDE DEF steps
<1>5. \E x \in steps : \A y \in steps : x <= y
  BY <1>3, <1>4, LeastNat
<1> DEFINE first == CHOOSE i \in steps : \A j \in steps : i <= j
<1>6. first \in steps /\ \A j \in steps : first <= j
  BY <1>5
<1> HIDE DEF first
<1>7. first \in 0 .. n - k - 1
  <2>1. first \in Nat /\ first <= n - k - 1
    BY <1>3, <1>4, <1>6
  <2> QED BY <2>1
<1> DEFINE c == k + 1 + first
<1>8. find_next_entry(ring, start) = (start + first + 1) % Capacity
  BY <1>3 DEF find_next_entry, first, steps
<1>9. (start + first + 1) % Capacity = Around(r + c)
  <2>1. start + first + 1 \in 0 .. 2 * Capacity - 1 /\ Around(start + first + 1) = Around(r + c)
    BY <1>7 DEF Around, Places
  <2> QED BY <2>1, AroundIs
<1>10. c \in (k + 1) .. n /\ IsNewline(ring[Around(r + c - 1)])
  BY <1>2, <1>6, <1>7
<1>11. \A j \in (k + 1) .. (c - 1) : ~IsNewline(ring[Around(r + j - 1)])
  <2> TAKE j \in (k + 1) .. (c - 1)
  <2>1. j - k - 1 \in 0 .. n - k - 1 /\ ~(first <= j - k - 1) /\ k + 1 + (j - k - 1) = j
    BY <1>7
  <2>2. j - k - 1 \notin steps
    BY <1>6, <2>1
  <2> QED BY <1>2, <2>1, <2>2
<1> QED BY <1>8, <1>9, <1>10, <1>11

Byte == Nat \X Nat \X Nat

LEMMA LineIs ==
    ASSUME NEW e \in Nat, NEW n \in Nat
    PROVE  /\ Line(e, n) \in Seq(Byte) /\ Len(Line(e, n)) = n /\ DOMAIN Line(e, n) = 1 .. n
           /\ \A i \in 1 .. n : Line(e, n)[i] = <<e, i, n>>
           /\ Line(e, n) = Log!Line(e, n)
BY DEF Line, Log!Line, Byte

LEMMA NewlineIs == \A b : IsNewline(b) <=> Log!IsNewline(b)
BY DEF IsNewline, Log!IsNewline

(* The bytes behind the k-th, and then a line: element by element.         *)
CutAndPut(s, k, t) == SubSeq(s, k + 1, Len(s)) \o t

LEMMA CutAndPutIs ==
    ASSUME NEW S, NEW s \in Seq(S), NEW n \in Nat, Len(s) = n, NEW k \in 0 .. n, NEW t \in Seq(S), NEW m \in Nat, Len(t) = m
    PROVE  /\ CutAndPut(s, k, t) \in Seq(S) /\ Len(CutAndPut(s, k, t)) = n - k + m
           /\ CutAndPut(s, k, t) = [i \in 1 .. n - k + m |-> IF i <= n - k THEN s[i + k] ELSE t[i - (n - k)]]
<1> DEFINE u == SubSeq(s, k + 1, n)
<1>1. u = [i \in 1 .. n - k |-> s[i + k]]
  <2>1. \A i \in 1 .. n - k : i + (k + 1) - 1 = i + k
    OBVIOUS
  <2>2. u = [i \in 1 .. 1 + n - (k + 1) |-> s[i + (k + 1) - 1]]
    BY DEF SubSeq
  <2>3. 1 + n - (k + 1) = n - k
    OBVIOUS
  <2> HIDE DEF u
  <2> QED BY <2>1, <2>2, <2>3
<1>2. Len(u) = n - k
  <2>1. n - k \in Nat
    OBVIOUS
  <2> HIDE DEF u
  <2> QED BY <1>1, <2>1
<1>a. u \in Seq(S)
  <2>1. \A i \in 1 .. n - k : s[i + k] \in S /\ n - k \in Nat
    OBVIOUS
  <2> HIDE DEF u
  <2> QED BY <1>1, <2>1
<1> HIDE DEF u
<1>3. u \o t = [i \in 1 .. n - k + m |-> IF i <= n - k THEN u[i] ELSE t[i - (n - k)]]
  <2>1. u \o t \in Seq(S) /\ Len(u \o t) = n - k + m
    BY <1>2, <1>a
  <2>2. \A i \in 1 .. n - k + m : (u \o t)[i] = IF i <= n - k THEN u[i] ELSE t[i - (n - k)]
    <3>1. \A x, y \in Seq(S) : \A i \in 1 .. Len(x) + Len(y) :
            (x \o y)[i] = IF i <= Len(x) THEN x[i] ELSE y[i - Len(x)]
      OBVIOUS
    <3> QED BY <1>2, <1>a, <3>1
  <2>3. u \o t = [i \in 1 .. n - k + m |-> (u \o t)[i]]
    <3> DEFINE v == u \o t
    <3> HIDE DEF v
    <3>1. v \in Seq(S) /\ Len(v) = n - k + m
      BY <2>1 DEF v
    <3>2. v = [i \in 1 .. n - k + m |-> v[i]]
      BY <3>1
    <3> QED BY <3>2 DEF v
  <2> QED BY <2>2, <2>3
<1>4. \A i \in 1 .. n - k + m : i <= n - k => u[i] = s[i + k]
  BY <1>1
<1>5. CutAndPut(s, k, t) = u \o t
  BY DEF CutAndPut, u
<1>6. n - k + m \in Nat
  OBVIOUS
<1>7. u \o t \in Seq(S) /\ Len(u \o t) = n - k + m
  BY <1>2, <1>a
<1>8. u \o t = [i \in 1 .. n - k + m |-> IF i <= n - k THEN s[i + k] ELSE t[i - (n - k)]]
  BY <1>3, <1>4
<1> QED BY <1>5, <1>7, <1>8

(* A line goes in at the end; if the ring would be full, lines go out at the *)
(* front, up to the first newline that is not overwritten.                   *)
LEMMA WriteIsPut ==
    ASSUME PositionsInRing, EndsWithLine(Readable), Readable \in Seq(Byte), NEW e \in Nat,
           NEW m \in 1 .. Capacity \div 4, write_bytes(Line(e, m))
    PROVE  /\ PositionsInRing'
           /\ \E k \in Log!Cuts(Readable) :
                /\ Len(Readable) - k + m < Capacity
                /\ \A j \in Log!Cuts(Readable) : j < k => Len(Readable) - j + m >= Capacity
                /\ Readable' = CutAndPut(Readable, k, Line(e, m))
                /\ cut' = (cut \/ (k # 0 /\ tail # <<>>))
<1> USE RingHoldsEntries
<1> DEFINE n == available
<1> DEFINE r == read_pos
<1> DEFINE data == Line(e, m)
<1> DEFINE ring == Written(buffer, write_pos, data)
<1>1. m \in 1 .. Capacity - 1 /\ m \in Nat
  BY QuarterIs
<1>2. Len(data) = m /\ data \in Seq(Byte)
  BY <1>1, LineIs
<1>3. /\ n \in 0 .. Capacity - 1 /\ write_pos = Around(r + n)
      /\ Len(Readable) = n
      /\ \A i \in 1 .. n : Readable[i] = buffer[Around(r + i - 1)]
  BY ReadableIs
<1>4. r \in Places /\ write_pos \in Places
  BY DEF PositionsInRing
<1> HIDE DEF n, r, data
<1>5. (write_pos + m) % Capacity = Around(write_pos + m) /\ Around(write_pos + m) \in Places
  <2>1. write_pos + m \in 0 .. 2 * Capacity - 1
    BY <1>1, <1>4 DEF Places
  <2> QED BY <2>1, AroundIs
<1> DEFINE w == Around(write_pos + m)
<1>6. /\ buffer' = ring /\ write_pos' = w
      /\ read_pos' = IF n + m >= Capacity THEN find_next_entry(ring, w) ELSE r
      /\ cut' = (cut \/ (n + m >= Capacity /\ tail # <<>>))
  <2>1. would_overwrite(write_pos, w, r) <=> n + m >= Capacity
    BY <1>1, <1>3, <1>4, OverwritesIs
  <2> QED BY <1>2, <1>5, <2>1 DEF write_bytes, data, r
<1>7. \A j \in 1 .. Capacity : ring[Around(r + j - 1)] = ByteAfter(buffer, r, n, data, m, j)
  <2> TAKE j \in 1 .. Capacity
  <2>1. Written(buffer, Around(r + n), data)[Around(r + j - 1)] = ByteAfter(buffer, r, n, data, m, j)
    BY <1>1, <1>2, <1>3, <1>4, WrittenAt
  <2> QED BY <1>3, <2>1
<1>8. available' = Distance(read_pos', write_pos') /\ Readable' = Seen(buffer', read_pos', available')
  <2>1. available' = Distance(read_pos', write_pos')
    BY DEF available, Distance
  <2>2. Readable' = Seen(buffer', read_pos', available')
    BY DEF Readable, Seen
  <2> QED BY <2>1, <2>2
<1> HIDE DEF ring, w
(* The queue afterwards, if it begins behind the k-th byte of the old one. *)
<1>9. ASSUME NEW k \in 0 .. n, n - k + m < Capacity, k >= n + m - Capacity + 1 \/ k = 0,
             read_pos' = Around(r + k)
      PROVE  PositionsInRing' /\ Readable' = CutAndPut(Readable, k, data)
  <2>1. read_pos' \in Places
    <3>1. r + k \in 0 .. 2 * Capacity - 1
      BY <1>3, <1>4 DEF Places
    <3> QED BY <3>1, <1>9, AroundIs
  <2>2. n - k + m \in 0 .. Capacity - 1
    BY <1>1, <1>3, <1>9
  <2>3. w = Around(read_pos' + (n - k + m))
    <3>1. w = Around(Around(r + n) + m)
      BY <1>3 DEF w
    <3>2. Around(Around(r + n) + m) = Around(Around(r + k) + (n - k + m))
      BY <1>1, <1>3, <1>4, <2>2 DEF Around, Places
    <3> QED BY <3>1, <3>2, <1>9
  <2>4. available' = n - k + m
    BY <1>6, <1>8, <2>1, <2>2, <2>3, DistanceIs
  <2>5. PositionsInRing'
    BY <1>5, <1>6, <2>1 DEF PositionsInRing, w
  <2>6. n - k + m \in 0 .. Capacity
    BY <2>2
  <2>7. /\ Readable' = Seen(ring, read_pos', n - k + m)
        /\ \A i \in 1 .. n - k + m : Seen(ring, read_pos', n - k + m)[i] = ring[Around(read_pos' + i - 1)]
        /\ Seen(ring, read_pos', n - k + m) = [i \in 1 .. n - k + m |-> Seen(ring, read_pos', n - k + m)[i]]
    <3>1. Readable' = Seen(ring, read_pos', n - k + m)
      BY <1>6, <1>8, <2>4
    <3>2. \A i \in 1 .. n - k + m : Seen(ring, read_pos', n - k + m)[i] = ring[Around(read_pos' + i - 1)]
      BY <2>1, <2>6, SeenAt
    <3>3. Seen(ring, read_pos', n - k + m) = [i \in 1 .. n - k + m |-> Seen(ring, read_pos', n - k + m)[i]]
      BY DEF Seen
    <3> QED BY <3>1, <3>2, <3>3
  <2>8. \A i \in 1 .. n - k + m :
           ring[Around(read_pos' + i - 1)] = IF i <= n - k THEN Readable[i + k] ELSE data[i - (n - k)]
    <3> SUFFICES ASSUME NEW i \in 1 .. n - k + m
                 PROVE  ring[Around(read_pos' + i - 1)] = IF i <= n - k THEN Readable[i + k] ELSE data[i - (n - k)]
      OBVIOUS
    <3>1. CASE i + k <= Capacity
      <4>1. i + k \in 1 .. Capacity /\ Around(Around(r + k) + i - 1) = Around(r + (i + k) - 1)
        BY <1>3, <1>4, <2>2, <3>1 DEF Around, Places
      <4>2. ring[Around(read_pos' + i - 1)] = ByteAfter(buffer, r, n, data, m, i + k)
        BY <1>7, <1>9, <4>1
      <4>3. CASE i + k > n
        <5>1. (i + k) - n <= m /\ (i + k) - n = i - (n - k) /\ ~(i <= n - k)
          BY <1>1, <1>3, <4>3
        <5>2. ring[Around(read_pos' + i - 1)] = data[(i + k) - n]
          <6>1. ByteAfter(buffer, r, n, data, m, i + k) = data[(i + k) - n]
            BY <4>3, <5>1 DEF ByteAfter
          <6> QED BY <4>2, <6>1
        <5>3. data[(i + k) - n] = data[i - (n - k)]
          BY <5>1
        <5> QED BY <5>1, <5>2, <5>3
      <4>4. CASE ~(i + k > n)
        <5>1. ~(i + k <= n + m - Capacity) /\ i <= n - k /\ i + k \in 1 .. n
          <6>1. i <= n - k /\ i + k \in 1 .. n
            BY <1>1, <1>3, <4>4
          <6>2. ~(i + k <= n + m - Capacity)
            <7>1. CASE k = 0
              BY <1>1, <1>3, <1>9, <7>1
            <7>2. CASE k >= n + m - Capacity + 1
              BY <1>1, <1>3, <7>2
            <7> QED BY <1>9, <7>1, <7>2
          <6> QED BY <6>1, <6>2
        <5>2. Readable[i + k] = buffer[Around(r + (i + k) - 1)]
          BY <1>3, <5>1
        <5> QED BY <4>2, <4>4, <5>1, <5>2 DEF ByteAfter
      <4> QED BY <4>3, <4>4
    <3>2. CASE i + k > Capacity
      <4> DEFINE j == i + k - Capacity
      <4>1. /\ j \in 1 .. Capacity /\ j <= n + m - Capacity /\ ~(j > n)
            /\ Capacity - n + j = i - (n - k) /\ ~(i <= n - k)
        <5>1. /\ n \in Nat /\ m \in Nat /\ k \in Nat /\ i \in Nat /\ Capacity \in Nat
              /\ n < Capacity /\ k <= n /\ i <= (n - k) + m /\ (n - k) + m < Capacity
              /\ i + k > Capacity /\ m < Capacity
          BY <1>1, <1>3, <2>2, <3>2
        <5>2. j \in Nat /\ j + Capacity = i + k
          BY <5>1
        <5> HIDE DEF j
        <5> QED BY ONLY <5>1, <5>2
      <4>2. Around(Around(r + k) + i - 1) = Around(r + j - 1)
        BY <1>3, <1>4, <2>2, <3>2 DEF Around, Places
      <4> HIDE DEF j
      <4>3. ring[Around(r + j - 1)] = data[i - (n - k)]
        <5>1. ring[Around(r + j - 1)] = ByteAfter(buffer, r, n, data, m, j)
          BY <1>7, <4>1
        <5> QED BY <4>1, <5>1 DEF ByteAfter
      <4> QED BY <1>9, <4>1, <4>2, <4>3
    <3> QED BY <1>3, <3>1, <3>2
  <2>9. CutAndPut(Readable, k, data) = [i \in 1 .. n - k + m |-> IF i <= n - k THEN Readable[i + k] ELSE data[i - (n - k)]]
    <3>1. n \in Nat /\ k \in 0 .. n
      BY <1>3
    <3> HIDE DEF CutAndPut
    <3> QED BY <1>1, <1>2, <1>3, <3>1, CutAndPutIs
  <2>10. Readable' = CutAndPut(Readable, k, data)
    <3> HIDE DEF CutAndPut
    <3> QED BY <2>7, <2>8, <2>9
  <2> QED BY <2>5, <2>10
<1>10. CASE n + m < Capacity
  <2>1. 0 \in 0 .. n /\ n - 0 + m < Capacity /\ read_pos' = Around(r + 0) /\ Around(r + 0) = r
    BY <1>1, <1>3, <1>4, <1>6, <1>10 DEF Around, Places
  <2>2. PositionsInRing' /\ Readable' = CutAndPut(Readable, 0, data)
    BY <1>9, <2>1
  <2>3. 0 \in Log!Cuts(Readable) /\ \A j \in Log!Cuts(Readable) : ~(j < 0)
    BY <1>3 DEF Log!Cuts
  <2>4. cut' = (cut \/ (0 # 0 /\ tail # <<>>))
    BY <1>1, <1>3, <1>6, <1>10
  <2> QED BY <1>3, <2>1, <2>2, <2>3, <2>4 DEF data
<1>11. CASE n + m >= Capacity
  <2> DEFINE k0 == n + m - Capacity
  <2>1. k0 \in 0 .. n - 1 /\ n \in 1 .. Capacity - 1
    BY <1>1, <1>3, <1>11
  <2>2. w = Around(r + k0)
    <3>1. w = Around(Around(r + n) + m)
      BY <1>3 DEF w
    <3> QED BY <3>1, <1>1, <1>3, <1>4, <1>11 DEF Around, Places
  <2>3. \A j \in (k0 + 1) .. n : ring[Around(r + j - 1)] = Readable[j]
    <3> TAKE j \in (k0 + 1) .. n
    <3>1. j \in 1 .. Capacity /\ j \in 1 .. n /\ ~(j > n) /\ ~(j <= n + m - Capacity)
      BY <1>1, <1>3, <2>1
    <3> HIDE DEF k0
    <3>2. ring[Around(r + j - 1)] = ByteAfter(buffer, r, n, data, m, j)
      BY <1>7, <3>1
    <3> QED BY <1>3, <3>1, <3>2 DEF ByteAfter
  <2>4. IsNewline(ring[Around(r + n - 1)])
    <3>1. IsNewline(Readable[n])
      BY <1>3, <2>1 DEF EndsWithLine
    <3>2. n \in (k0 + 1) .. n
      BY <2>1
    <3> HIDE DEF k0
    <3> QED BY <2>3, <3>1, <3>2
  <2> HIDE DEF k0
  <2>5. PICK c \in (k0 + 1) .. n :
             /\ find_next_entry(ring, w) = Around(r + c)
             /\ IsNewline(ring[Around(r + c - 1)])
             /\ \A j \in (k0 + 1) .. (c - 1) : ~IsNewline(ring[Around(r + j - 1)])
    BY <1>4, <2>1, <2>2, <2>4, NextEntryIs
  <2>6. c \in 0 .. n /\ n - c + m < Capacity /\ c >= n + m - Capacity + 1 /\ c # 0 /\ c \in 1 .. n
    BY <1>1, <1>3, <2>1, <2>5 DEF k0
  <2>7. read_pos' = Around(r + c)
    BY <1>6, <1>11, <2>5
  <2>8. PositionsInRing' /\ Readable' = CutAndPut(Readable, c, data)
    BY <1>9, <2>6, <2>7
  <2>9. c \in Log!Cuts(Readable)
    BY <1>3, <2>3, <2>5, <2>6, NewlineIs DEF Log!Cuts
  <2>10. \A j \in Log!Cuts(Readable) : j < c => n - j + m >= Capacity
    <3> SUFFICES ASSUME NEW j \in Log!Cuts(Readable), j < c, ~(n - j + m >= Capacity) PROVE FALSE
      OBVIOUS
    <3>1. j \in 0 .. n /\ (j = 0 \/ IsNewline(Readable[j]))
      BY <1>3, NewlineIs DEF Log!Cuts
    <3>2. j \in (k0 + 1) .. (c - 1) /\ j # 0 /\ j \in (k0 + 1) .. n
      BY <1>1, <1>3, <2>1, <2>6, <3>1 DEF k0
    <3> QED BY <2>3, <2>5, <3>1, <3>2
  <2>11. cut' = (cut \/ (c # 0 /\ tail # <<>>))
    BY <1>6, <1>11, <2>6
  <2> QED BY <1>3, <2>6, <2>8, <2>9, <2>10, <2>11 DEF data
<1>12. (n + m < Capacity) \/ (n + m >= Capacity)
  BY <1>1, <1>3
<1> QED BY <1>10, <1>11, <1>12

-----------------------------------------------------------------------------
(* The ring implements the log that loses its oldest lines.                *)

AuditRing ==
    /\ PositionsInRing
    /\ seq \in Nat
    /\ Readable \in Seq(Byte)
    /\ EndsWithLine(Readable)

(* What is left when the first k bytes are gone.                           *)
LEMMA RestIs ==
    ASSUME NEW S, NEW s \in Seq(S), NEW k \in 0 .. Len(s)
    PROVE  /\ SubSeq(s, k + 1, Len(s)) \in Seq(S)
           /\ Len(SubSeq(s, k + 1, Len(s))) = Len(s) - k
           /\ \A i \in 1 .. Len(s) - k : SubSeq(s, k + 1, Len(s))[i] = s[i + k]
<1> DEFINE n == Len(s)
<1>0. n \in Nat /\ n - k \in Nat
  OBVIOUS
<1> DEFINE u == SubSeq(s, k + 1, n)
<1>1. u = [i \in 1 .. n - k |-> s[i + k]]
  <2>1. \A i \in 1 .. n - k : i + (k + 1) - 1 = i + k
    BY <1>0
  <2>2. u = [i \in 1 .. 1 + n - (k + 1) |-> s[i + (k + 1) - 1]]
    BY DEF SubSeq
  <2>3. 1 + n - (k + 1) = n - k
    BY <1>0
  <2> HIDE DEF u, n
  <2> QED BY <2>1, <2>2, <2>3
<1>2. \A i \in 1 .. n - k : s[i + k] \in S
  BY <1>0
<1> HIDE DEF u, n
<1>3. u \in Seq(S) /\ Len(u) = n - k /\ \A i \in 1 .. n - k : u[i] = s[i + k]
  BY <1>0, <1>1, <1>2
<1> QED BY <1>3 DEF u, n

LEMMA AuditInitRing == AuditInit => AuditRing /\ Log!Init
<1> SUFFICES ASSUME AuditInit PROVE AuditRing /\ Log!Init
  OBVIOUS
<1> USE RingHoldsEntries
<1>1. PositionsInRing
  BY DEF AuditInit, PositionsInRing, Places
<1>2. available = 0
  BY DEF AuditInit, available
<1>3. Readable = <<>>
  BY <1>2 DEF Readable
<1>4. Readable \in Seq(Byte) /\ EndsWithLine(Readable)
  BY <1>3 DEF EndsWithLine
<1> QED BY <1>1, <1>3, <1>4 DEF AuditInit, AuditRing, Log!Init

LEMMA AppendIsPut ==
    ASSUME AuditRing, NEW l \in Levels, NEW m \in 1 .. Capacity \div 4 + 1, append(l, m)
    PROVE  AuditRing' /\ Log!Next
<1>1. m \in 1 .. Capacity \div 4 /\ m \in Nat /\ m \in 1 .. Capacity
  <2>1. m <= Capacity \div 4 /\ m \in 1 .. Capacity \div 4 + 1
    BY DEF append, Fits
  <2> DEFINE q == Capacity \div 4
  <2>2. q \in Nat /\ q < Capacity /\ Capacity \in Nat
    BY QuarterIs, RingHoldsEntries
  <2> HIDE DEF q
  <2>3. m \in 1 .. q /\ m \in Nat /\ m \in 1 .. Capacity
    BY <2>1, <2>2 DEF q
  <2> QED BY <2>3 DEF q
<1>2. write_bytes(Line(seq + 1, m)) /\ seq' = seq + 1 /\ seq \in Nat /\ seq + 1 \in Nat
  BY DEF append, AuditRing
<1> DEFINE n == Len(Readable)
<1> DEFINE data == Line(seq + 1, m)
<1>3. /\ data \in Seq(Byte) /\ Len(data) = m /\ data[m] = <<seq + 1, m, m>>
      /\ data = Log!Line(seq + 1, m)
  <2>1. /\ data \in Seq(Byte) /\ Len(data) = m /\ data = Log!Line(seq + 1, m)
        /\ \A i \in 1 .. m : data[i] = <<seq + 1, i, m>>
    BY <1>1, <1>2, LineIs
  <2>2. m \in 1 .. m
    BY <1>1
  <2> HIDE DEF data
  <2> QED BY <2>1, <2>2
<1>4. PositionsInRing' /\
      \E k \in Log!Cuts(Readable) :
                /\ n - k + m < Capacity
                /\ \A j \in Log!Cuts(Readable) : j < k => n - j + m >= Capacity
                /\ Readable' = CutAndPut(Readable, k, data)
                /\ cut' = (cut \/ (k # 0 /\ tail # <<>>))
  BY <1>1, <1>2, WriteIsPut DEF AuditRing
<1>5. PICK k \in Log!Cuts(Readable) :
                /\ n - k + m < Capacity
                /\ \A j \in Log!Cuts(Readable) : j < k => n - j + m >= Capacity
                /\ Readable' = CutAndPut(Readable, k, data)
  BY <1>4
<1>6. n \in Nat /\ k \in 0 .. n
  BY DEF Log!Cuts, AuditRing
<1>7. Log!Put(m)
  BY <1>2, <1>3, <1>5 DEF Log!Put, CutAndPut
<1> HIDE DEF n, data
<1>8. /\ Readable' \in Seq(Byte) /\ Len(Readable') = n - k + m
      /\ Readable' = [i \in 1 .. n - k + m |-> IF i <= n - k THEN Readable[i + k] ELSE data[i - (n - k)]]
  <2>1. Readable \in Seq(Byte) /\ Len(Readable) = n
    BY DEF n, AuditRing
  <2>2. /\ CutAndPut(Readable, k, data) \in Seq(Byte) /\ Len(CutAndPut(Readable, k, data)) = n - k + m
        /\ CutAndPut(Readable, k, data) = [i \in 1 .. n - k + m |-> IF i <= n - k THEN Readable[i + k] ELSE data[i - (n - k)]]
    <3>1. m \in Nat /\ n \in Nat /\ k \in 0 .. n /\ data \in Seq(Byte) /\ Len(data) = m
      BY <1>1, <1>3, <1>6
    <3> QED BY ONLY <3>1, <2>1, CutAndPutIs
  <2> QED BY <1>5, <2>2
<1>9. Readable'[n - k + m] = data[m]
  <2>1. n - k + m \in 1 .. n - k + m /\ ~(n - k + m <= n - k) /\ (n - k + m) - (n - k) = m
    BY <1>1, <1>6
  <2> QED BY <1>8, <2>1
<1>10. EndsWithLine(Readable)'
  <2>1. Readable'[Len(Readable')] = <<seq + 1, m, m>>
    BY <1>3, <1>8, <1>9
  <2> QED BY <2>1 DEF EndsWithLine, IsNewline
<1>11. AuditRing'
  BY <1>2, <1>4, <1>8, <1>10 DEF AuditRing
<1> QED BY <1>1, <1>7, <1>11 DEF Log!Next

LEMMA DrainStep ==
    ASSUME AuditRing, NEW n \in 1 .. Capacity - 1, drain(n)
    PROVE  AuditRing' /\ Log!Next
<1> USE RingHoldsEntries
<1>1. /\ PositionsInRing' /\ n <= Len(Readable) /\ Readable \in Seq(Byte)
      /\ Readable' = SubSeq(Readable, n + 1, Len(Readable))
  BY DrainIsDrain DEF AuditRing
<1>2. seq' = seq /\ seq \in Nat
  BY DEF drain, AuditRing
<1>3. /\ n \in 0 .. Len(Readable) /\ Len(Readable) \in Nat /\ n \in 1 .. Capacity
  BY <1>1
<1>4. /\ Readable' \in Seq(Byte) /\ Len(Readable') = Len(Readable) - n
      /\ \A i \in 1 .. Len(Readable) - n : Readable'[i] = Readable[i + n]
  BY <1>1, <1>3, RestIs
<1>5. EndsWithLine(Readable)'
  <2> SUFFICES ASSUME Len(Readable') > 0 PROVE IsNewline(Readable'[Len(Readable')])
    BY DEF EndsWithLine
  <2>1. Len(Readable) - n \in 1 .. Len(Readable) - n /\ (Len(Readable) - n) + n = Len(Readable) /\ Len(Readable) > 0
    BY <1>3, <1>4
  <2>2. Readable'[Len(Readable')] = Readable[Len(Readable)]
    BY <1>4, <2>1
  <2>3. IsNewline(Readable[Len(Readable)])
    BY <2>1 DEF AuditRing, EndsWithLine
  <2> QED BY <2>2, <2>3
<1>6. AuditRing'
  BY <1>1, <1>2, <1>4, <1>5 DEF AuditRing
<1>7. Log!Drain(n)
  BY <1>1, <1>2 DEF Log!Drain
<1> QED BY <1>3, <1>6, <1>7 DEF Log!Next

LEMMA ClearIsClear == AuditRing /\ clear => AuditRing' /\ Log!Next /\ Readable' = <<>>
<1> SUFFICES ASSUME AuditRing, clear PROVE AuditRing' /\ Log!Next /\ Readable' = <<>>
  OBVIOUS
<1> USE RingHoldsEntries
<1>1. PositionsInRing' /\ seq' = seq /\ seq \in Nat
  BY DEF clear, PositionsInRing, Places, AuditRing
<1>2. available' = 0
  BY DEF clear, available
<1>3. Readable' = <<>>
  BY <1>2 DEF Readable
<1>4. Readable' \in Seq(Byte) /\ EndsWithLine(Readable)'
  BY <1>3 DEF EndsWithLine
<1> QED BY <1>1, <1>3, <1>4 DEF AuditRing, Log!Next, Log!Clear

LEMMA QuietAudit ==
    AuditRing /\ UNCHANGED <<buffer, write_pos, read_pos, seq>>
    => AuditRing' /\ Readable' = Readable /\ UNCHANGED Log!vars
<1> SUFFICES ASSUME AuditRing, UNCHANGED <<buffer, write_pos, read_pos, seq>>
             PROVE  AuditRing' /\ Readable' = Readable /\ UNCHANGED Log!vars
  OBVIOUS
<1>1. available' = available
  BY DEF available
<1>2. Readable' = Readable
  BY <1>1 DEF Readable
<1> QED BY <1>2 DEF AuditRing, PositionsInRing, EndsWithLine, Log!vars

LEMMA AuditStep == AuditRing /\ [AuditNext]_auditVars => AuditRing' /\ [Log!Next]_(Log!vars)
<1> SUFFICES ASSUME AuditRing, [AuditNext]_auditVars PROVE AuditRing' /\ [Log!Next]_(Log!vars)
  OBVIOUS
<1>1. ASSUME NEW l \in Levels, NEW n \in 1 .. Capacity \div 4 + 1, append(l, n)
      PROVE  AuditRing' /\ Log!Next
  BY <1>1, AppendIsPut
<1>2. ASSUME NEW n \in 1 .. Capacity - 1, drain(n) PROVE AuditRing' /\ Log!Next
  BY <1>2, DrainStep
<1>3. CASE clear
  BY <1>3, ClearIsClear
<1>4. ASSUME NEW l \in Levels, audit_configure(l) PROVE AuditRing' /\ UNCHANGED Log!vars
  BY <1>4, QuietAudit DEF audit_configure
<1>5. CASE UNCHANGED auditVars
  BY <1>5, QuietAudit DEF auditVars
<1> QED BY <1>1, <1>2, <1>3, <1>4, <1>5 DEF AuditNext

(* The ring of bytes with its two positions, whatever the lengths of the     *)
(* entries, the places where it wraps and the sizes that are drained, does   *)
(* what the queue of lines does: write_bytes and find_next_entry lose the    *)
(* oldest lines only, and no more than must go.                              *)
THEOREM AuditImplementsLog == AuditSpec => ImplementsLossyLog
<1>1. AuditInit => AuditRing /\ Log!Init
  BY AuditInitRing
<1>2. AuditRing /\ [AuditNext]_auditVars => AuditRing' /\ [Log!Next]_(Log!vars)
  BY AuditStep
<1> QED BY <1>1, <1>2, PTL DEF AuditSpec, ImplementsLossyLog, Log!Spec

-----------------------------------------------------------------------------
(* Whole lines.  Byte b is d places further in the line of byte a.         *)
SameLine(a, b, d) == b[1] = a[1] /\ b[3] = a[3] /\ b[2] = a[2] + d

Proper(s) ==
    \A i \in 1 .. Len(s) :
      s[i] \in Byte /\ 1 <= s[i][2] /\ s[i][2] <= s[i][3] /\ s[i][3] <= Capacity \div 4
(* A line that is not over goes on.                                        *)
GoesOn(s) ==
    \A i \in 1 .. Len(s) :
      s[i][2] < s[i][3] => i < Len(s) /\ SameLine(s[i], s[i + 1], 1)
(* A line is there from its beginning.                                     *)
Begun(s) ==
    \A i \in 1 .. Len(s) : \A d \in 1 .. s[i][2] - 1 : i - d >= 1 /\ SameLine(s[i - d], s[i], d)
(* Lines are in order, and each is there once.                             *)
Ascends(s) ==
    \A i, j \in 1 .. Len(s) : i < j => s[i][1] < s[j][1] \/ SameLine(s[i], s[j], j - i)

Lines(s) == Proper(s) /\ GoesOn(s) /\ Begun(s) /\ Ascends(s)

(* Where a sequence of lines may be cut.                                   *)
Cut(s, k) == k = 0 \/ (k \in 1 .. Len(s) /\ IsNewline(s[k]))

(* u is s without its first k bytes.                                       *)
IsRest(u, s, k) ==
    /\ k \in 0 .. Len(s) /\ Len(u) = Len(s) - k
    /\ \A i \in 1 .. Len(s) - k : u[i] = s[i + k]

(* Lines, cut behind a newline, are lines.                                 *)
LEMMA LinesCut ==
    ASSUME NEW s \in Seq(Byte), NEW u \in Seq(Byte), NEW k, Cut(s, k), IsRest(u, s, k), Lines(s)
    PROVE  Lines(u)
<1> DEFINE n == Len(s)
<1>0. n \in Nat /\ k \in 0 .. n /\ Len(u) = n - k /\ n - k \in Nat
  BY DEF IsRest
<1>1. \A i \in 1 .. n - k : u[i] = s[i + k] /\ i + k \in 1 .. n
  BY <1>0 DEF IsRest
<1> HIDE DEF n
<1>2. \A i \in 1 .. n : /\ s[i] \in Byte /\ 1 <= s[i][2] /\ s[i][2] <= s[i][3] /\ s[i][3] <= Capacity \div 4
                        /\ s[i][1] \in Nat /\ s[i][2] \in Nat /\ s[i][3] \in Nat
  BY DEF n, Lines, Proper, Byte
<1>3. Proper(u)
  BY <1>0, <1>1, <1>2 DEF Proper
<1>4. GoesOn(u)
  <2> SUFFICES ASSUME NEW i \in 1 .. n - k, u[i][2] < u[i][3]
               PROVE  i < n - k /\ SameLine(u[i], u[i + 1], 1)
    BY <1>0 DEF GoesOn
  <2>1. i + k < n /\ SameLine(s[i + k], s[(i + k) + 1], 1)
    BY <1>1 DEF Lines, GoesOn, n
  <2>2. i < n - k /\ i + 1 \in 1 .. n - k /\ (i + 1) + k = (i + k) + 1
    BY <1>0, <2>1
  <2>3. u[i + 1] = s[(i + k) + 1]
    BY <1>1, <2>2
  <2> QED BY <1>1, <2>1, <2>2, <2>3
<1>5. Begun(u)
  <2> SUFFICES ASSUME NEW i \in 1 .. n - k, NEW d \in 1 .. u[i][2] - 1
               PROVE  i - d >= 1 /\ SameLine(u[i - d], u[i], d)
    BY <1>0 DEF Begun
  <2>0. i + k \in 1 .. n /\ u[i] = s[i + k] /\ u[i][2] \in Nat /\ d \in Nat /\ d < u[i][2]
    BY <1>1, <1>2
  <2>1. \A c \in 1 .. u[i][2] - 1 : (i + k) - c >= 1 /\ SameLine(s[(i + k) - c], s[i + k], c)
    BY <2>0 DEF Lines, Begun, n
  <2>2. i - d >= 1
    <3> SUFFICES ASSUME i <= d PROVE FALSE
      BY <1>0, <2>0
    <3>1. i \in 1 .. u[i][2] - 1 /\ (i + k) - i = k
      BY <1>0, <2>0
    <3>2. k >= 1 /\ SameLine(s[k], s[i + k], i)
      BY <2>1, <3>1
    <3>3. k \in 1 .. n /\ IsNewline(s[k])
      BY <1>0, <3>2 DEF Cut, n
    <3>4. s[k][2] = s[k][3] /\ s[i + k][3] = s[k][3] /\ s[i + k][2] = s[k][2] + i
      BY <3>2, <3>3 DEF IsNewline, SameLine
    <3>5. s[k][2] \in Nat /\ s[k][3] \in Nat /\ s[i + k][2] <= s[i + k][3]
      BY <1>2, <2>0, <3>3
    <3> QED BY <3>4, <3>5
  <2>3. i - d \in 1 .. n - k /\ (i - d) + k = (i + k) - d
    <3>1. n \in Nat /\ k \in Nat /\ i \in Nat /\ i <= n - k /\ d \in Nat /\ d >= 1
      BY <1>0, <2>0
    <3> QED BY ONLY <2>2, <3>1
  <2>4. u[i - d] = s[(i + k) - d]
    BY <1>1, <2>3
  <2> QED BY <2>0, <2>1, <2>2, <2>4
<1>6. Ascends(u)
  <2> SUFFICES ASSUME NEW i \in 1 .. n - k, NEW j \in 1 .. n - k, i < j
               PROVE  u[i][1] < u[j][1] \/ SameLine(u[i], u[j], j - i)
    BY <1>0 DEF Ascends
  <2>1. i + k \in 1 .. n /\ j + k \in 1 .. n /\ i + k < j + k /\ (j + k) - (i + k) = j - i
    BY <1>0, <1>1
  <2>2. s[i + k][1] < s[j + k][1] \/ SameLine(s[i + k], s[j + k], (j + k) - (i + k))
    BY <2>1 DEF Lines, Ascends, n
  <2>3. u[i] = s[i + k] /\ u[j] = s[j + k]
    BY <1>1
  <2> QED BY <2>1, <2>2, <2>3
<1> QED BY <1>3, <1>4, <1>5, <1>6 DEF Lines

(* Lines that end with a newline, and one more of a later entry, are lines. *)
LEMMA LinesAppend ==
    ASSUME NEW s \in Seq(Byte), Lines(s), EndsWithLine(s), NEW e \in Nat, NEW m \in 1 .. Capacity \div 4,
           \A i \in 1 .. Len(s) : s[i][1] < e
    PROVE  Lines(s \o Line(e, m))
<1> USE QuarterIs
<1> DEFINE n == Len(s)
<1> DEFINE t == Line(e, m)
<1> DEFINE u == s \o t
<1>a. m \in Nat /\ n \in Nat /\ n + m \in Nat
  BY QuarterIs
<1>b. t \in Seq(Byte) /\ Len(t) = m /\ \A i \in 1 .. m : t[i] = <<e, i, m>>
  BY <1>a, LineIs
<1> HIDE DEF n, t
<1>c. /\ u \in Seq(Byte) /\ Len(u) = n + m
      /\ \A i \in 1 .. n : u[i] = s[i]
      /\ \A i \in 1 .. m : u[n + i] = t[i]
  <2>1. u \in Seq(Byte) /\ Len(u) = n + m
    BY <1>b DEF n
  <2>2. \A i \in 1 .. n : u[i] = s[i]
    BY <1>b DEF n
  <2>3. \A i \in 1 .. m : u[n + i] = t[i]
    <3> TAKE i \in 1 .. m
    <3>1. n + i \in 1 .. n + m /\ ~(n + i <= n) /\ (n + i) - n = i
      BY <1>a
    <3> QED BY <1>b, <3>1 DEF n
  <2> QED BY <2>1, <2>2, <2>3
<1>d. \A i \in 1 .. n : u[i] = s[i] /\ s[i] \in Byte /\ 1 <= s[i][2] /\ s[i][2] <= s[i][3] /\ s[i][3] <= Capacity \div 4
                        /\ s[i][1] \in Nat /\ s[i][2] \in Nat /\ s[i][3] \in Nat /\ s[i][1] < e
  BY <1>c DEF n, Lines, Proper, Byte
<1>e. \A i \in (n + 1) .. (n + m) : u[i] = <<e, i - n, m>> /\ i - n \in 1 .. m
  <2> TAKE i \in (n + 1) .. (n + m)
  <2>1. i - n \in 1 .. m /\ n + (i - n) = i
    BY <1>a
  <2> QED BY <1>b, <1>c, <2>1
<1>f. \A i \in 1 .. Len(u) : i \in 1 .. n \/ i \in (n + 1) .. (n + m)
  BY <1>a, <1>c
<1> HIDE DEF u
<1>1. Proper(u)
  <2> SUFFICES ASSUME NEW i \in 1 .. Len(u)
               PROVE  u[i] \in Byte /\ 1 <= u[i][2] /\ u[i][2] <= u[i][3] /\ u[i][3] <= Capacity \div 4
    BY DEF Proper
  <2>1. CASE i \in 1 .. n
    BY <1>d, <2>1
  <2>2. CASE i \in (n + 1) .. (n + m)
    <3>1. u[i] = <<e, i - n, m>> /\ i - n \in 1 .. m
      BY <1>e, <2>2
    <3>2. m <= Capacity \div 4 /\ m \in Nat
      BY <1>a
    <3>3. i - n \in Nat /\ 1 <= i - n /\ i - n <= m
      BY <1>a, <3>1
    <3> QED BY <3>1, <3>2, <3>3 DEF Byte
  <2> QED BY <1>f, <2>1, <2>2
<1>2. GoesOn(u)
  <2> SUFFICES ASSUME NEW i \in 1 .. Len(u), u[i][2] < u[i][3]
               PROVE  i < Len(u) /\ SameLine(u[i], u[i + 1], 1)
    BY DEF GoesOn
  <2>1. CASE i \in 1 .. n
    <3>1. s[i][2] < s[i][3] /\ u[i] = s[i]
      BY <1>d, <2>1
    <3>2. i < n /\ SameLine(s[i], s[i + 1], 1)
      BY <2>1, <3>1 DEF Lines, GoesOn, n
    <3>3. i + 1 \in 1 .. n
      BY <1>a, <3>2
    <3>4. u[i + 1] = s[i + 1]
      BY <1>d, <3>3
    <3> QED BY <1>a, <1>c, <3>1, <3>2, <3>4
  <2>2. CASE i \in (n + 1) .. (n + m)
    <3>1. u[i] = <<e, i - n, m>> /\ i - n \in 1 .. m
      BY <1>e, <2>2
    <3>2. i - n < m
      BY <3>1
    <3>3. i + 1 \in (n + 1) .. (n + m) /\ i < n + m /\ (i + 1) - n = (i - n) + 1
      BY <1>a, <2>2, <3>2
    <3>4. u[i + 1] = <<e, (i - n) + 1, m>>
      BY <1>e, <3>3
    <3> QED BY <1>c, <3>1, <3>3, <3>4 DEF SameLine
  <2> QED BY <1>f, <2>1, <2>2
<1>3. Begun(u)
  <2> SUFFICES ASSUME NEW i \in 1 .. Len(u), NEW d \in 1 .. u[i][2] - 1
               PROVE  i - d >= 1 /\ SameLine(u[i - d], u[i], d)
    BY DEF Begun
  <2>1. CASE i \in 1 .. n
    <3>1. u[i] = s[i] /\ s[i][2] \in Nat
      BY <1>d, <2>1
    <3>2. i - d >= 1 /\ SameLine(s[i - d], s[i], d)
      BY <2>1, <3>1 DEF Lines, Begun, n
    <3>3. i - d \in 1 .. n
      BY <1>a, <2>1, <3>1, <3>2
    <3>4. u[i - d] = s[i - d]
      BY <1>d, <3>3
    <3> QED BY <3>1, <3>2, <3>4
  <2>2. CASE i \in (n + 1) .. (n + m)
    <3>1. u[i] = <<e, i - n, m>> /\ i - n \in 1 .. m
      BY <1>e, <2>2
    <3>2. d \in 1 .. (i - n) - 1
      BY <3>1
    <3>3. i - d \in (n + 1) .. (n + m) /\ i - d >= 1 /\ (i - d) - n = (i - n) - d /\ ((i - n) - d) + d = i - n
      BY <1>a, <2>2, <3>2
    <3>4. u[i - d] = <<e, (i - n) - d, m>>
      BY <1>e, <3>3
    <3> QED BY <3>1, <3>3, <3>4 DEF SameLine
  <2> QED BY <1>f, <2>1, <2>2
<1>4. Ascends(u)
  <2> SUFFICES ASSUME NEW i \in 1 .. Len(u), NEW j \in 1 .. Len(u), i < j
               PROVE  u[i][1] < u[j][1] \/ SameLine(u[i], u[j], j - i)
    BY DEF Ascends
  <2>1. CASE j \in 1 .. n
    <3>1. i \in 1 .. n
      BY <1>a, <2>1
    <3>2. s[i][1] < s[j][1] \/ SameLine(s[i], s[j], j - i)
      BY <2>1, <3>1 DEF Lines, Ascends, n
    <3> QED BY <1>d, <2>1, <3>1, <3>2
  <2>2. CASE i \in 1 .. n /\ j \in (n + 1) .. (n + m)
    <3>1. u[i] = s[i] /\ s[i][1] < e /\ u[j] = <<e, j - n, m>>
      BY <1>d, <1>e, <2>2
    <3> QED BY <3>1
  <2>3. CASE i \in (n + 1) .. (n + m) /\ j \in (n + 1) .. (n + m)
    <3>1. u[i] = <<e, i - n, m>> /\ u[j] = <<e, j - n, m>>
      BY <1>e, <2>3
    <3>2. j - n = (i - n) + (j - i)
      BY <1>a, <2>3
    <3> QED BY <3>1, <3>2 DEF SameLine
  <2> QED BY <1>f, <2>1, <2>2, <2>3
<1> QED BY <1>1, <1>2, <1>3, <1>4 DEF Lines, u, t

-----------------------------------------------------------------------------
(* What the host makes of the bytes.                                       *)
Stream == tail \o Readable

(* Unless an unfinished line lost its rest: the host holds the beginning of  *)
(* one, and what it holds and what waits in the ring are lines, later than   *)
(* those it got.                                                             *)
HostInv ==
    /\ ~garbled
    /\ last \in Nat /\ last <= seq
    /\ tail \in Seq(Byte)
    /\ \A i \in 1 .. Len(tail) : ~IsNewline(tail[i])
    /\ Lines(Stream)
    /\ \A i \in 1 .. Len(Stream) : last < Stream[i][1] /\ Stream[i][1] <= seq

AuditInv == AuditRing /\ (~cut => HostInv)

LEMMA StreamIs ==
    ASSUME AuditRing, tail \in Seq(Byte)
    PROVE  /\ Stream \in Seq(Byte) /\ Len(Stream) = Len(tail) + Len(Readable)
           /\ \A i \in 1 .. Len(tail) : Stream[i] = tail[i]
           /\ \A i \in 1 .. Len(Readable) : Stream[Len(tail) + i] = Readable[i]
<1> DEFINE n == Len(tail)
<1> DEFINE m == Len(Readable)
<1> DEFINE S == tail \o Readable
<1>1. tail \in Seq(Byte) /\ Readable \in Seq(Byte) /\ n \in Nat /\ m \in Nat
  BY DEF AuditRing
<1>2. S \in Seq(Byte) /\ Len(S) = n + m
  BY <1>1
<1>3. \A i \in 1 .. n : S[i] = tail[i]
  BY <1>1
<1>4. \A i \in 1 .. m : S[n + i] = Readable[i]
  <2> TAKE i \in 1 .. m
  <2>1. n + i \in 1 .. n + m /\ ~(n + i <= n) /\ (n + i) - n = i
    BY <1>1
  <2> QED BY <1>1, <2>1
<1> QED BY <1>2, <1>3, <1>4 DEF Stream

(* The bytes of the stream, in numbers.                                    *)
LEMMA LineNumbers ==
    ASSUME NEW s \in Seq(Byte), Lines(s)
    PROVE  \A i \in 1 .. Len(s) :
             /\ s[i] = <<s[i][1], s[i][2], s[i][3]>>
             /\ s[i][1] \in Nat /\ s[i][2] \in Nat /\ s[i][3] \in Nat
             /\ 1 <= s[i][2] /\ s[i][2] <= s[i][3] /\ s[i][3] <= Capacity \div 4
BY DEF Lines, Proper, Byte

(* Where there is no newline among the first n bytes, they are one line's. *)
LEMMA OneLine ==
    ASSUME NEW s \in Seq(Byte), Lines(s), NEW a \in Nat, NEW n \in 1 .. Len(s), a < n,
           a = 0 \/ IsNewline(s[a]),
           \A i \in (a + 1) .. (n - 1) : ~IsNewline(s[i])
    PROVE  /\ s[n][2] = n - a
           /\ \A d \in 0 .. (n - a) - 1 : s[n - d] = <<s[n][1], (n - a) - d, s[n][3]>>
<1> DEFINE m == s[n][2]
<1>0. /\ m \in Nat /\ 1 <= m /\ m <= s[n][3] /\ s[n][1] \in Nat /\ s[n][3] \in Nat
      /\ Len(s) \in Nat
  BY LineNumbers
<1>1. \A d \in 1 .. m - 1 : n - d >= 1 /\ SameLine(s[n - d], s[n], d)
  BY DEF Lines, Begun
<1>2. \A d \in 0 .. m - 1 : n - d \in 1 .. n /\ s[n - d] = <<s[n][1], m - d, s[n][3]>>
  <2> TAKE d \in 0 .. m - 1
  <2>1. CASE d = 0
    <3>1. n - 0 = n /\ m - 0 = m
      BY <1>0
    <3>2. s[n] = <<s[n][1], m, s[n][3]>>
      BY LineNumbers
    <3> QED BY <2>1, <3>1, <3>2, <1>0
  <2>2. CASE d # 0
    <3>1. d \in 1 .. m - 1
      BY <1>0, <2>2
    <3>2. n - d >= 1 /\ SameLine(s[n - d], s[n], d)
      BY <1>1, <3>1
    <3>3. n - d \in 1 .. n /\ n - d \in 1 .. Len(s)
      BY <1>0, <3>1, <3>2
    <3> DEFINE b == s[n - d]
    <3>4. b = <<b[1], b[2], b[3]>> /\ b[2] \in Nat
      BY <3>3, LineNumbers
    <3>5. b[1] = s[n][1] /\ b[3] = s[n][3] /\ m = b[2] + d
      BY <3>2 DEF SameLine
    <3> HIDE DEF b, m
    <3>6. b[2] = m - d
      BY <1>0, <3>1, <3>4, <3>5
    <3> QED BY <3>3, <3>4, <3>5, <3>6 DEF b
  <2> QED BY <2>1, <2>2
<1> HIDE DEF m
<1>3. m = n - a
  <2>1. ASSUME m < n - a PROVE FALSE
    <3> DEFINE x == n - m
    <3>1. x \in (a + 1) .. (n - 1) /\ x \in 1 .. Len(s) /\ x + 1 = n - (m - 1) /\ m - 1 \in 0 .. m - 1
      BY <1>0, <2>1
    <3> HIDE DEF x
    <3>2. ~IsNewline(s[x])
      BY <3>1
    <3>3. s[x][2] < s[x][3]
      BY <3>1, <3>2, LineNumbers DEF IsNewline
    <3>4. SameLine(s[x], s[x + 1], 1)
      BY <3>1, <3>3 DEF Lines, GoesOn
    <3>5. s[x + 1] = <<s[n][1], m - (m - 1), s[n][3]>>
      BY <1>2, <3>1
    <3>6. m - (m - 1) = s[x][2] + 1 /\ s[x][2] >= 1 /\ s[x][2] \in Nat
      BY <3>1, <3>4, <3>5, LineNumbers DEF SameLine
    <3> QED BY <1>0, <3>6
  <2>2. ASSUME m > n - a PROVE FALSE
    <3>1. n - a \in 0 .. m - 1 /\ n - (n - a) = a /\ ~(m <= m - (n - a))
      BY <1>0, <2>2
    <3>2. a \in 1 .. n /\ s[a] = <<s[n][1], m - (n - a), s[n][3]>>
      BY <1>2, <3>1
    <3>3. IsNewline(s[a])
      BY <3>2
    <3>4. m - (n - a) = s[n][3]
      BY <3>2, <3>3 DEF IsNewline
    <3>5. m <= m - (n - a)
      BY <1>0, <3>4
    <3> QED BY <3>1, <3>5
  <2> QED BY <1>0, <2>1, <2>2
<1> QED BY <1>2, <1>3 DEF m

(* The unfinished line is shorter than the longest entry.                  *)
LEMMA HostInvHelps == AuditInv => LinesAreWhole
<1> SUFFICES ASSUME AuditInv, ~cut PROVE ~garbled /\ Len(tail) < Capacity \div 4
  BY DEF LinesAreWhole
<1>1. HostInv /\ AuditRing
  BY DEF AuditInv
<1> DEFINE n == Len(tail)
<1>2. /\ Stream \in Seq(Byte) /\ Len(Stream) = n + Len(Readable)
      /\ \A i \in 1 .. n : Stream[i] = tail[i] /\ ~IsNewline(Stream[i])
      /\ n \in Nat /\ Len(Readable) \in Nat
  BY <1>1, StreamIs DEF HostInv, AuditRing
<1> HIDE DEF n
<1>3. CASE n = 0
  BY <1>1, <1>3, QuarterIs DEF HostInv, n
<1>4. CASE n # 0
  <2>1. n \in 1 .. Len(Stream) /\ 0 \in Nat /\ 0 < n /\ n \in 1 .. n
    BY <1>2, <1>4
  <2>2. \A i \in (0 + 1) .. (n - 1) : ~IsNewline(Stream[i])
    BY <1>2
  <2>3. Stream[n][2] = n - 0
    BY <1>1, <1>2, <2>1, <2>2, OneLine DEF HostInv
  <2>4. Stream[n][2] # Stream[n][3] /\ Stream[n][2] <= Stream[n][3] /\ Stream[n][3] <= Capacity \div 4
        /\ Stream[n][3] \in Nat
    <3>1. ~IsNewline(Stream[n])
      BY <1>2, <2>1
    <3> QED BY <1>1, <1>2, <2>1, <3>1, LineNumbers DEF HostInv, IsNewline
  <2>5. n < Capacity \div 4
    BY <1>2, <2>3, <2>4, QuarterIs
  <2> QED BY <1>1, <2>5 DEF HostInv, n
<1> QED BY <1>3, <1>4

(* What the stream loses at the front, it loses up to a newline.           *)
LEMMA HostKeepsStream ==
    ASSUME AuditInv, AuditRing', ~cut, UNCHANGED <<tail, last, garbled>>, seq' \in Nat, seq <= seq',
           tail \in Seq(Byte),
           NEW k, Cut(Stream, k), NEW u \in Seq(Byte), IsRest(u, Stream, k),
           NEW e \in Nat, seq < e, e <= seq', NEW m \in 1 .. Capacity \div 4,
           EndsWithLine(u), Stream' = u \o Line(e, m)
    PROVE  HostInv'
<1>1. HostInv /\ Stream \in Seq(Byte) /\ seq \in Nat /\ AuditRing
  BY StreamIs DEF AuditInv, HostInv, AuditRing
<1>2. Lines(u)
  BY <1>1, LinesCut DEF HostInv
<1>3. \A i \in 1 .. Len(u) : last < u[i][1] /\ u[i][1] <= seq /\ u[i][1] \in Nat
  <2> TAKE i \in 1 .. Len(u)
  <2>1. i + k \in 1 .. Len(Stream) /\ u[i] = Stream[i + k]
    <3>1. /\ k \in 0 .. Len(Stream) /\ Len(u) = Len(Stream) - k /\ Len(Stream) \in Nat
          /\ \A j \in 1 .. Len(Stream) - k : u[j] = Stream[j + k]
      BY <1>1 DEF IsRest
    <3> DEFINE n == Len(Stream)
    <3> HIDE DEF n
    <3>2. i \in 1 .. n - k /\ i + k \in 1 .. n
      BY <3>1 DEF n
    <3> QED BY <3>1, <3>2 DEF n
  <2> QED BY <1>1, <2>1, LineNumbers DEF HostInv
<1>4. Lines(u \o Line(e, m))
  <2>1. \A i \in 1 .. Len(u) : u[i][1] < e
    BY <1>1, <1>3
  <2> QED BY <1>2, <2>1, LinesAppend
<1>5. \A i \in 1 .. Len(Stream') : last' < Stream'[i][1] /\ Stream'[i][1] <= seq'
  <2>1. m \in Nat /\ last \in Nat /\ last < e
    BY <1>1, QuarterIs DEF HostInv
  <2>2. Line(e, m) \in Seq(Byte) /\ Len(Line(e, m)) = m /\ \A i \in 1 .. m : Line(e, m)[i] = <<e, i, m>>
    BY <2>1, LineIs
  <2> DEFINE t == Line(e, m)
  <2> HIDE DEF t
  <2> SUFFICES ASSUME NEW i \in 1 .. Len(Stream') PROVE last' < Stream'[i][1] /\ Stream'[i][1] <= seq'
    OBVIOUS
  <2>3. Len(Stream') = Len(u) + m /\ Len(u) \in Nat
    BY <2>1, <2>2 DEF t
  <2>4. CASE i <= Len(u)
    <3>1. i \in 1 .. Len(u) /\ Stream'[i] = u[i]
      BY <2>2, <2>3, <2>4 DEF t
    <3> QED BY <1>1, <1>3, <3>1
  <2>5. CASE ~(i <= Len(u))
    <3>1. i - Len(u) \in 1 .. m /\ Stream'[i] = t[i - Len(u)]
      BY <2>1, <2>2, <2>3, <2>5 DEF t
    <3>2. Stream'[i] = <<e, i - Len(u), m>>
      BY <2>2, <3>1 DEF t
    <3> QED BY <2>1, <3>2
  <2> QED BY <2>4, <2>5
<1>6. last' <= seq'
  BY <1>1 DEF HostInv
<1> QED BY <1>1, <1>4, <1>5, <1>6 DEF HostInv

(* An append adds a line to the stream, and cuts it only where the host holds *)
(* no unfinished line.                                                       *)
LEMMA AppendKeepsHost ==
    ASSUME AuditInv, NEW l \in Levels, NEW m \in 1 .. Capacity \div 4 + 1, append(l, m)
    PROVE  AuditInv'
<1>1. AuditRing'
  BY AppendIsPut DEF AuditInv
<1> SUFFICES ASSUME ~cut' PROVE HostInv'
  BY <1>1 DEF AuditInv
<1>2. m \in 1 .. Capacity \div 4
  <2> DEFINE q == Capacity \div 4
  <2>1. m <= q /\ m \in 1 .. q + 1 /\ q \in Nat
    BY QuarterIs DEF append, Fits
  <2> HIDE DEF q
  <2>2. m \in 1 .. q
    BY <2>1
  <2> QED BY <2>2 DEF q
<1>3. /\ write_bytes(Line(seq + 1, m)) /\ seq' = seq + 1 /\ seq \in Nat /\ seq + 1 \in Nat
      /\ UNCHANGED <<tail, last, garbled>>
  BY DEF append, AuditInv, AuditRing
<1> DEFINE data == Line(seq + 1, m)
<1>4. \E k \in Log!Cuts(Readable) :
                /\ Readable' = CutAndPut(Readable, k, data)
                /\ cut' = (cut \/ (k # 0 /\ tail # <<>>))
  BY <1>2, <1>3, WriteIsPut DEF AuditInv, AuditRing
<1>5. PICK k \in Log!Cuts(Readable) :
                /\ Readable' = CutAndPut(Readable, k, data)
                /\ cut' = (cut \/ (k # 0 /\ tail # <<>>))
  BY <1>4
<1>6. ~cut /\ (k = 0 \/ tail = <<>>)
  BY <1>5
<1>7. HostInv /\ AuditRing /\ tail \in Seq(Byte) /\ Readable \in Seq(Byte)
  BY <1>6 DEF AuditInv, HostInv, AuditRing
<1>8. /\ Stream \in Seq(Byte) /\ Len(Stream) = Len(tail) + Len(Readable)
      /\ \A i \in 1 .. Len(tail) : Stream[i] = tail[i]
      /\ \A i \in 1 .. Len(Readable) : Stream[Len(tail) + i] = Readable[i]
  BY <1>7, StreamIs
<1>9. k \in 0 .. Len(Readable) /\ (k = 0 \/ IsNewline(Readable[k])) /\ Len(Readable) \in Nat
  BY <1>7, NewlineIs DEF Log!Cuts
<1>10. data \in Seq(Byte)
  <2>1. m \in Nat
    BY <1>2, QuarterIs
  <2> QED BY <1>3, <2>1, LineIs
<1> HIDE DEF data
<1> DEFINE rest == SubSeq(Readable, k + 1, Len(Readable))
<1> DEFINE u == tail \o rest
<1>11. /\ rest \in Seq(Byte) /\ Len(rest) = Len(Readable) - k
       /\ \A i \in 1 .. Len(Readable) - k : rest[i] = Readable[i + k]
  BY <1>7, <1>9, RestIs
<1> HIDE DEF rest
<1>12. u \in Seq(Byte) /\ Stream' = u \o data
  <2>1. Stream' = tail \o (rest \o data)
    BY <1>3, <1>5 DEF Stream, CutAndPut, rest
  <2> QED BY <1>7, <1>10, <1>11, <2>1
<1>13. Cut(Stream, k)
  <2>1. CASE k = 0
    BY <2>1 DEF Cut
  <2>2. CASE k # 0
    <3>1. Len(tail) = 0 /\ Len(Stream) = Len(Readable)
      BY <1>6, <1>8, <1>9, <2>2
    <3>2. k \in 1 .. Len(Readable) /\ Stream[0 + k] = Readable[k] /\ 0 + k = k
      BY <1>8, <1>9, <2>2, <3>1
    <3> QED BY <1>9, <2>2, <3>1, <3>2 DEF Cut
  <2> QED BY <2>1, <2>2
<1>14. /\ Len(u) = Len(tail) + Len(rest) /\ Len(tail) \in Nat /\ Len(rest) \in Nat
       /\ \A i \in 1 .. Len(tail) : u[i] = tail[i]
       /\ \A i \in 1 .. Len(rest) : u[Len(tail) + i] = rest[i]
  <2>1. Len(u) = Len(tail) + Len(rest) /\ Len(tail) \in Nat /\ Len(rest) \in Nat
    BY <1>7, <1>11
  <2>2. \A i \in 1 .. Len(tail) : u[i] = tail[i]
    BY <1>7, <1>11
  <2>3. \A i \in 1 .. Len(rest) : u[Len(tail) + i] = rest[i]
    <3> TAKE i \in 1 .. Len(rest)
    <3> DEFINE n == Len(tail)
    <3>1. n + i \in 1 .. n + Len(rest) /\ ~(n + i <= n) /\ (n + i) - n = i
      BY <2>1
    <3> QED BY <1>7, <1>11, <2>1, <3>1
  <2> QED BY <2>1, <2>2, <2>3
<1> HIDE DEF u
<1>15. IsRest(u, Stream, k)
  <2> DEFINE n == Len(tail)
  <2> DEFINE a == Len(Readable)
  <2>1. CASE k = 0
    <3>1. Len(rest) = a /\ Len(u) = n + a /\ Len(Stream) = n + a /\ n \in Nat /\ a \in Nat
      BY <1>8, <1>9, <1>11, <1>14, <2>1
    <3>2. \A i \in 1 .. n + a : u[i] = Stream[i]
      <4> TAKE i \in 1 .. n + a
      <4>1. CASE i <= n
        <5>1. i \in 1 .. n
          BY <3>1, <4>1
        <5> QED BY <1>8, <1>14, <5>1
      <4>2. CASE ~(i <= n)
        <5> HIDE DEF n, a
        <5>1. i - n \in 1 .. a /\ n + (i - n) = i /\ (i - n) + 0 = i - n
          BY <3>1, <4>2
        <5>2. u[i] = rest[i - n] /\ Stream[i] = Readable[i - n]
          BY <1>8, <1>14, <3>1, <5>1 DEF n, a
        <5>3. rest[i - n] = Readable[(i - n) + 0]
          <6>1. a - 0 = a
            BY <3>1
          <6> QED BY <1>11, <2>1, <5>1, <6>1 DEF a
        <5> QED BY <5>1, <5>2, <5>3
      <4> QED BY <4>1, <4>2
    <3> HIDE DEF n, a
    <3>3. 0 \in 0 .. n + a /\ (n + a) - 0 = n + a /\ \A i \in 1 .. n + a : i + 0 = i
      BY <3>1
    <3> QED BY <2>1, <3>1, <3>2, <3>3 DEF IsRest
  <2>2. CASE tail = <<>>
    <3>1. n = 0 /\ Len(Stream) = a /\ Len(u) = a - k /\ a \in Nat /\ k \in 0 .. a
      BY <1>8, <1>9, <1>11, <1>14, <2>2
    <3>2. \A i \in 1 .. a : Stream[i] = Readable[i]
      BY <1>8, <3>1
    <3>3. \A i \in 1 .. a - k : u[i] = rest[i]
      BY <1>11, <1>14, <3>1
    <3> HIDE DEF a
    <3>4. \A i \in 1 .. a - k : i + k \in 1 .. a
      BY <3>1
    <3>5. \A i \in 1 .. a - k : u[i] = Stream[i + k]
      BY <1>11, <3>2, <3>3, <3>4 DEF a
    <3> QED BY <3>1, <3>5 DEF IsRest
  <2> QED BY <1>6, <2>1, <2>2
<1>16. EndsWithLine(u)
  <2> SUFFICES ASSUME Len(u) > 0 PROVE IsNewline(u[Len(u)])
    BY DEF EndsWithLine
  <2>1. CASE Len(rest) = 0
    <3>1. Len(u) = Len(tail) /\ Len(tail) > 0 /\ k = 0 /\ Len(Readable) = 0
      BY <1>6, <1>9, <1>11, <1>14, <2>1
    <3> DEFINE n == Len(tail)
    <3>2. Len(Stream) = n /\ n \in 1 .. n /\ n \in Nat
      BY <1>8, <1>14, <3>1
    <3>3. ~IsNewline(tail[n]) /\ Stream[n] = tail[n]
      BY <1>7, <1>8, <3>2 DEF HostInv
    <3>4. Lines(Stream)
      BY <1>7 DEF HostInv
    <3>5. Stream[n][2] < Stream[n][3]
      BY <1>8, <3>2, <3>3, <3>4, LineNumbers DEF IsNewline
    <3>6. n < n
      BY <3>2, <3>4, <3>5 DEF Lines, GoesOn
    <3> QED BY <3>2, <3>6
  <2>2. CASE Len(rest) # 0
    <3> DEFINE n == Len(tail)
    <3> DEFINE a == Len(Readable)
    <3>1. n \in Nat /\ a \in Nat /\ k \in 0 .. a /\ Len(rest) = a - k /\ Len(u) = n + (a - k)
      BY <1>9, <1>11, <1>14
    <3> HIDE DEF n, a
    <3>2. a - k \in 1 .. a - k /\ (a - k) + k = a /\ a > 0
      BY <2>2, <3>1
    <3>3. u[Len(u)] = Readable[a]
      BY <1>11, <1>14, <3>1, <3>2 DEF n, a
    <3>4. IsNewline(Readable[a])
      BY <1>7, <3>2 DEF AuditRing, EndsWithLine, a
    <3> QED BY <3>3, <3>4
  <2> QED BY <2>1, <2>2
<1>17. seq < seq + 1 /\ seq + 1 <= seq' /\ seq <= seq' /\ seq' \in Nat
  BY <1>3
<1> QED BY <1>1, <1>2, <1>3, <1>6, <1>7, <1>12, <1>13, <1>15, <1>16, <1>17, HostKeepsStream DEF data

LEMMA MiddleIs ==
    \A s : \A a, i \in Nat : SubSeq(s, 1 + a, i) = [j \in 1 .. i - a |-> s[a + j]]
<1> SUFFICES ASSUME NEW s, NEW a \in Nat, NEW i \in Nat
             PROVE  SubSeq(s, 1 + a, i) = [j \in 1 .. i - a |-> s[a + j]]
  OBVIOUS
<1> DEFINE b == 1 + a
<1>1. b \in Int /\ 1 + (i - b) = i - a /\ \A j \in 1 .. i - a : j + (b - 1) = a + j
  OBVIOUS
<1> HIDE DEF b
<1>2. SubSeq(s, b, i) = [j \in 1 .. 1 + (i - b) |-> s[j + (b - 1)]]
  BY <1>1 DEF SubSeq
<1>3. SubSeq(s, b, i) = [j \in 1 .. i - a |-> s[a + j]]
  BY <1>1, <1>2
<1> QED BY <1>3 DEF b

LEMMA NoGain == \A x \in Nat, d \in Int : x + d <= x => ~(d > 0)
OBVIOUS

(* A drain gives the host whole lines, in order, and the beginning of one.   *)
LEMMA DrainKeepsHost ==
    ASSUME AuditInv, NEW n \in 1 .. Capacity - 1, drain(n)
    PROVE  AuditInv'
<1>1. AuditRing'
  BY DrainStep DEF AuditInv
<1> SUFFICES ASSUME ~cut PROVE HostInv'
  BY <1>1 DEF AuditInv, drain
<1>2. HostInv /\ AuditRing /\ tail \in Seq(Byte) /\ Readable \in Seq(Byte)
  BY DEF AuditInv, HostInv, AuditRing
<1>3. /\ Stream \in Seq(Byte) /\ Len(Stream) = Len(tail) + Len(Readable)
      /\ \A i \in 1 .. Len(tail) : Stream[i] = tail[i]
      /\ \A i \in 1 .. Len(Readable) : Stream[Len(tail) + i] = Readable[i]
  BY <1>2, StreamIs
<1> DEFINE T == Len(tail)
<1> DEFINE R == Len(Readable)
<1> DEFINE S == Stream
<1> DEFINE got == Drained(n)
<1> DEFINE text == tail \o got
<1>4. n \in 1 .. R /\ R \in Nat /\ T \in Nat /\ n \in Nat
  BY <1>2, DrainIsDrain DEF AuditRing
<1>5. got \in Seq(Byte) /\ Len(got) = n /\ \A i \in 1 .. n : got[i] = Readable[i]
  <2>1. got = SubSeq(Readable, 1, n)
    BY DEF Drained
  <2>2. 1 \in 1 .. Len(Readable) /\ n \in 1 .. Len(Readable)
    BY <1>4
  <2>3. got \in Seq(Byte) /\ Len(got) = n
    BY <1>2, <1>4, <2>1, <2>2
  <2>4. \A i \in 1 .. n : got[i] = Readable[i]
    <3> TAKE i \in 1 .. n
    <3> HIDE DEF got
    <3>1. got[i] = Readable[1 + i - 1]
      BY <1>2, <1>4, <2>1, <2>2
    <3>2. 1 + i - 1 = i
      BY <1>4
    <3> QED BY <3>1, <3>2
  <2> QED BY <2>3, <2>4
<1> HIDE DEF got
<1>6. text \in Seq(Byte) /\ Len(text) = T + n /\ \A i \in 1 .. T + n : text[i] = S[i]
  <2>1. text \in Seq(Byte) /\ Len(text) = T + n
    BY <1>2, <1>5
  <2>2. \A i \in 1 .. T + n : text[i] = S[i]
    <3> TAKE i \in 1 .. T + n
    <3>1. CASE i <= T
      <4>1. i \in 1 .. T
        BY <1>4, <3>1
      <4>2. text[i] = tail[i]
        BY <1>2, <1>5, <4>1
      <4> QED BY <1>3, <4>1, <4>2
    <3>2. CASE ~(i <= T)
      <4>1. i - T \in 1 .. n /\ i - T \in 1 .. R /\ T + (i - T) = i
        BY <1>4, <3>2
      <4>2. text[i] = got[i - T]
        BY <1>2, <1>4, <1>5, <3>2
      <4>3. S[T + (i - T)] = Readable[i - T]
        BY <1>3, <4>1
      <4> QED BY <1>5, <4>1, <4>2, <4>3
    <3> QED BY <3>1, <3>2
  <2> QED BY <2>1, <2>2
<1> DEFINE N == T + n
<1>7. N \in Nat /\ N >= 1 /\ \A i \in 1 .. N : i \in 1 .. Len(S)
  BY <1>3, <1>4
<1>8. /\ Lines(S) /\ S \in Seq(Byte) /\ \A i \in 1 .. Len(S) : last < S[i][1] /\ S[i][1] <= seq
      /\ last \in Nat /\ last <= seq /\ ~garbled /\ seq \in Nat
  BY <1>2, <1>3 DEF HostInv, AuditRing
<1>9. /\ text \in Seq(Byte) /\ Len(text) = N /\ \A i \in 1 .. N : text[i] = S[i]
  BY <1>6
<1> DEFINE ends == EndsOf(text)
<1>10. ends = {i \in 1 .. N : IsNewline(S[i])}
  <2> HIDE DEF text, N, S
  <2> QED BY <1>9 DEF EndsOf
<1> DEFINE end == IF ends = {} THEN 0 ELSE CHOOSE i \in ends : \A j \in ends : j <= i
<1>11. /\ garbled' = \/ garbled
                     \/ \E i \in ends : ~IsEntry(LineEnding(text, i)) \/ text[i][1] <= last
                     \/ ~InOrder(text)
       /\ tail' = IF garbled' THEN <<>> ELSE SubSeq(text, end + 1, Len(text))
       /\ last' = IF end = 0 THEN last ELSE text[end][1]
       /\ seq' = seq
  BY DEF drain, got
<1>12. /\ Readable' = SubSeq(Readable, n + 1, R)
  BY <1>2, DrainIsDrain DEF AuditRing
<1> HIDE DEF text, N, S, ends, T, R
<1>13. ends \subseteq 1 .. N
  BY <1>10
<1>14. ends # {} => end \in ends /\ \A j \in ends : j <= end
  <2> SUFFICES ASSUME ends # {} PROVE \E i \in ends : \A j \in ends : j <= i
    OBVIOUS
  <2> DEFINE back == {N - j : j \in ends}
  <2>1. back \in SUBSET Nat /\ back # {}
    <3>1. \A j \in ends : N - j \in Nat
      BY <1>7, <1>13
    <3>2. PICK j \in ends : TRUE
      OBVIOUS
    <3>3. N - j \in back
      BY <3>2
    <3> QED BY <3>1, <3>3
  <2>2. PICK x \in back : \A y \in back : x <= y
    <3> HIDE DEF back
    <3> QED BY <2>1, LeastNat
  <2>3. PICK i \in ends : x = N - i
    BY <2>2
  <2>4. \A j \in ends : N - i <= N - j
    BY <2>2, <2>3
  <2>5. \A j \in ends : j <= i
    BY <1>7, <1>13, <2>4
  <2> QED BY <2>5
<1>15. /\ end \in 0 .. N /\ (end = 0 \/ (end \in 1 .. N /\ IsNewline(S[end])))
       /\ \A i \in (end + 1) .. N : ~IsNewline(S[i])
  <2>1. CASE ends = {}
    <3>1. end = 0
      BY <2>1
    <3>2. \A i \in 1 .. N : ~IsNewline(S[i])
      BY <1>10, <2>1
    <3> HIDE DEF end
    <3>3. 0 + 1 = 1 /\ 0 \in 0 .. N
      BY <1>7
    <3> QED BY <3>1, <3>2, <3>3
  <2>2. CASE ends # {}
    <3>1. end \in ends /\ \A j \in ends : j <= end
      BY <1>14, <2>2
    <3>2. end \in 1 .. N /\ IsNewline(S[end])
      BY <1>10, <3>1
    <3> HIDE DEF end
    <3>3. \A i \in (end + 1) .. N : ~IsNewline(S[i])
      <4> SUFFICES ASSUME NEW i \in (end + 1) .. N, IsNewline(S[i]) PROVE FALSE
        OBVIOUS
      <4>1. i \in 1 .. N /\ ~(i <= end)
        BY <1>7, <3>2
      <4>2. i \in ends
        BY <1>10, <4>1
      <4> QED BY <3>1, <4>1, <4>2
    <3>4. end \in 0 .. N
      BY <1>7, <3>2
    <3> QED BY <3>2, <3>3, <3>4
  <2> QED BY <2>1, <2>2
<1>16. ASSUME NEW i \in ends PROVE IsEntry(LineEnding(text, i)) /\ ~(text[i][1] <= last)
  <2>0. i \in 1 .. N /\ IsNewline(S[i]) /\ i \in 1 .. Len(S)
    BY <1>7, <1>10
  <2> DEFINE before == {j \in EndsOf(text) : j < i}
  <2>1. before = {j \in ends : j < i}
    BY DEF ends
  <2> DEFINE a == IF before = {} THEN 0 ELSE CHOOSE j \in before : \A k \in before : k <= j
  <2>2. LineEnding(text, i) = SubSeq(text, 1 + a, i)
    BY DEF LineEnding
  <2> HIDE DEF before
  <2>3. before # {} => a \in before /\ \A k \in before : k <= a
    <3> SUFFICES ASSUME before # {} PROVE \E j \in before : \A k \in before : k <= j
      OBVIOUS
    <3> DEFINE back == {N - j : j \in before}
    <3>0. before \subseteq 1 .. N
      BY <1>13, <2>1
    <3>1. back \in SUBSET Nat /\ back # {}
      <4>1. \A j \in before : N - j \in Nat
        BY <1>7, <3>0
      <4>2. PICK j \in before : TRUE
        OBVIOUS
      <4>3. N - j \in back
        BY <4>2
      <4> QED BY <4>1, <4>3
    <3>2. PICK x \in back : \A y \in back : x <= y
      <4> HIDE DEF back
      <4> QED BY <3>1, LeastNat
    <3>3. PICK j \in before : x = N - j
      BY <3>2
    <3>4. \A k \in before : N - j <= N - k
      BY <3>2, <3>3
    <3>5. \A k \in before : k <= j
      BY <1>7, <3>0, <3>4
    <3> QED BY <3>5
  <2>4. a \in Nat /\ a < i /\ (a = 0 \/ IsNewline(S[a]))
        /\ \A j \in (a + 1) .. (i - 1) : ~IsNewline(S[j])
    <3>1. CASE before = {}
      <4>1. a = 0
        BY <3>1
      <4>2. \A j \in 1 .. i - 1 : ~IsNewline(S[j])
        <5> SUFFICES ASSUME NEW j \in 1 .. i - 1, IsNewline(S[j]) PROVE FALSE
          OBVIOUS
        <5>1. j \in 1 .. N /\ j < i
          BY <1>7, <2>0
        <5> QED BY <1>10, <2>1, <3>1, <5>1
      <4> HIDE DEF a
      <4>3. 0 + 1 = 1 /\ 0 \in Nat /\ 0 < i
        BY <2>0
      <4> QED BY <4>1, <4>2, <4>3
    <3>2. CASE before # {}
      <4>1. a \in before /\ \A k \in before : k <= a
        BY <2>3, <3>2
      <4> HIDE DEF a
      <4>2. a \in 1 .. N /\ a < i /\ IsNewline(S[a])
        BY <1>10, <2>1, <4>1
      <4>3. \A j \in (a + 1) .. (i - 1) : ~IsNewline(S[j])
        <5> SUFFICES ASSUME NEW j \in (a + 1) .. (i - 1), IsNewline(S[j]) PROVE FALSE
          OBVIOUS
        <5>1. j \in 1 .. N /\ j < i /\ ~(j <= a)
          BY <1>7, <2>0, <4>2
        <5>2. j \in before
          BY <1>10, <2>1, <5>1
        <5> QED BY <4>1, <5>1, <5>2
      <4>4. a \in Nat
        BY <4>2
      <4> QED BY <4>2, <4>3, <4>4
    <3> QED BY <3>1, <3>2
  <2> HIDE DEF a
  <2> DEFINE m == i - a
  <2>5. S[i][2] = m /\ \A d \in 0 .. m - 1 : S[i - d] = <<S[i][1], m - d, S[i][3]>>
    BY <1>8, <2>0, <2>4, OneLine
  <2>6. S[i][3] = m
    BY <2>0, <2>5 DEF IsNewline
  <2>7. m \in Nat /\ m >= 1 /\ a + m = i
    BY <2>0, <2>4
  <2> HIDE DEF m
  <2> DEFINE line == SubSeq(text, 1 + a, i)
  <2>8. line = [j \in 1 .. m |-> <<S[i][1], j, m>>]
    <3>1. \A j \in 1 .. m : a + j \in 1 .. N /\ a + j = i - (m - j)
                            /\ m - j \in 0 .. m - 1 /\ m - (m - j) = j
      BY <1>7, <2>0, <2>4, <2>7
    <3>2. \A j \in 1 .. m : text[a + j] = <<S[i][1], j, m>>
      <4> TAKE j \in 1 .. m
      <4>1. text[a + j] = S[a + j]
        BY <1>9, <3>1
      <4>2. S[i - (m - j)] = <<S[i][1], m - (m - j), S[i][3]>>
        BY <2>5, <3>1
      <4> QED BY <2>6, <3>1, <4>1, <4>2
    <3>3. line = [j \in 1 .. i - a |-> text[a + j]]
      <4>1. i \in Nat
        BY <2>0
      <4> QED BY <2>4, <4>1, MiddleIs
    <3>4. i - a = m
      BY DEF m
    <3> HIDE DEF line
    <3> QED BY <3>2, <3>3, <3>4
  <2>9. line = Line(S[i][1], m)
    BY <2>8 DEF Line
  <2>10. S[i][1] \in Nat
    BY <1>8, <2>0, LineNumbers
  <2>11. Len(line) = m /\ line[1][1] = S[i][1]
    <3>1. 1 \in 1 .. m
      BY <2>7
    <3>2. Len(Line(S[i][1], m)) = m /\ Line(S[i][1], m)[1] = <<S[i][1], 1, m>>
      BY <2>7, <2>10, <3>1, LineIs
    <3> HIDE DEF line
    <3> QED BY <2>9, <3>2
  <2>12. IsEntry(line)
    <3> HIDE DEF line
    <3> QED BY <2>9, <2>11 DEF IsEntry
  <2>13. ~(text[i][1] <= last)
    <3>1. text[i] = S[i] /\ last < S[i][1]
      BY <1>8, <1>9, <2>0
    <3> QED BY <1>8, <2>10, <3>1
  <2> QED BY <2>2, <2>12, <2>13
<1>17. InOrder(text)
  <2> SUFFICES ASSUME NEW i \in ends, NEW j \in ends, i < j PROVE text[i][1] < text[j][1]
    BY DEF InOrder, ends
  <2>1. i \in 1 .. N /\ j \in 1 .. N /\ IsNewline(S[i]) /\ IsNewline(S[j])
        /\ i \in 1 .. Len(S) /\ j \in 1 .. Len(S) /\ text[i] = S[i] /\ text[j] = S[j]
    BY <1>7, <1>9, <1>10
  <2>2. S[i][1] < S[j][1] \/ SameLine(S[i], S[j], j - i)
    BY <1>8, <2>1 DEF Lines, Ascends
  <2>3. ~SameLine(S[i], S[j], j - i)
    <3> SUFFICES ASSUME SameLine(S[i], S[j], j - i) PROVE FALSE
      OBVIOUS
    <3>1. S[j][2] = S[i][2] + (j - i) /\ S[j][2] = S[i][2] /\ S[i][2] \in Nat /\ j - i > 0
      BY <1>8, <2>1, LineNumbers DEF SameLine, IsNewline
    <3> QED BY <2>1, <3>1
  <2> QED BY <2>1, <2>2, <2>3
<1>18. garbled' = FALSE
  BY <1>8, <1>11, <1>16, <1>17
<1> HIDE DEF end
<1>19. tail' = SubSeq(text, end + 1, Len(text)) /\ end \in 0 .. Len(text)
  BY <1>9, <1>11, <1>15, <1>18
<1>20. /\ tail' \in Seq(Byte) /\ Len(tail') = N - end
       /\ \A i \in 1 .. N - end : tail'[i] = S[i + end] /\ i + end \in 1 .. N
  <2>1. /\ tail' \in Seq(Byte) /\ Len(tail') = Len(text) - end
        /\ \A i \in 1 .. Len(text) - end : tail'[i] = text[i + end]
    BY <1>9, <1>19, RestIs
  <2>2. \A i \in 1 .. N - end : i + end \in 1 .. N
    BY <1>7, <1>15
  <2> QED BY <1>9, <2>1, <2>2
<1>21. \A i \in 1 .. Len(tail') : ~IsNewline(tail'[i])
  <2> TAKE i \in 1 .. Len(tail')
  <2>1. i \in 1 .. N - end /\ i + end \in (end + 1) .. N
    BY <1>7, <1>15, <1>20
  <2> QED BY <1>15, <1>20, <2>1
<1>22. last' \in Nat /\ last' <= seq' /\ \A i \in (end + 1) .. Len(S) : last' < S[i][1] /\ S[i][1] <= seq'
  <2>1. CASE end = 0
    <3>1. last' = last /\ seq' = seq
      BY <1>11, <2>1
    <3>2. \A i \in (end + 1) .. Len(S) : i \in 1 .. Len(S)
      BY <2>1
    <3> QED BY <1>8, <3>1, <3>2
  <2>2. CASE end # 0
    <3>1. last' = text[end][1] /\ seq' = seq /\ end \in 1 .. N /\ IsNewline(S[end])
      BY <1>11, <1>15, <2>2
    <3>2. text[end] = S[end] /\ end \in 1 .. Len(S)
      BY <1>7, <1>9, <3>1
    <3>3. last' = S[end][1] /\ last' \in Nat /\ last' <= seq'
      BY <1>8, <3>1, <3>2, LineNumbers
    <3>4. ASSUME NEW i \in (end + 1) .. Len(S) PROVE last' < S[i][1] /\ S[i][1] <= seq'
      <4>1. i \in 1 .. Len(S) /\ end < i /\ i - end > 0
        BY <3>2
      <4>2. S[end][1] < S[i][1] \/ SameLine(S[end], S[i], i - end)
        BY <1>8, <3>2, <4>1 DEF Lines, Ascends
      <4>3. ~SameLine(S[end], S[i], i - end)
        <5> SUFFICES ASSUME SameLine(S[end], S[i], i - end) PROVE FALSE
          OBVIOUS
        <5>1. /\ S[i][2] = S[end][2] + (i - end) /\ S[i][3] = S[end][3] /\ S[end][2] = S[end][3]
          BY <3>1 DEF SameLine, IsNewline
        <5>2. S[i][2] <= S[i][3] /\ S[i][2] \in Nat /\ S[i][3] \in Nat /\ S[end][2] \in Nat
          BY <1>8, <3>2, <4>1, LineNumbers
        <5>3. S[end][2] + (i - end) <= S[end][2]
          BY <5>1, <5>2
        <5>4. i - end \in Int
          BY <3>1, <4>1
        <5> QED BY <4>1, <5>2, <5>3, <5>4, NoGain
      <4> QED BY <1>8, <3>1, <3>3, <4>1, <4>2, <4>3
    <3> QED BY <3>3, <3>4
  <2> QED BY <2>1, <2>2
<1>23. /\ Stream' \in Seq(Byte) /\ IsRest(Stream', S, end)
  <2>1. /\ Readable' \in Seq(Byte) /\ Len(Readable') = R - n
        /\ \A i \in 1 .. R - n : Readable'[i] = Readable[i + n]
    <3>1. n \in 0 .. Len(Readable)
      BY <1>4 DEF R
    <3> QED BY <1>2, <1>12, <3>1, RestIs DEF R
  <2>2. /\ Stream' = tail' \o Readable' /\ Stream' \in Seq(Byte)
        /\ Len(Stream') = (N - end) + (R - n)
    <3>1. Stream' = tail' \o Readable'
      BY DEF Stream
    <3>2. tail' \o Readable' \in Seq(Byte) /\ Len(tail' \o Readable') = Len(tail') + Len(Readable')
      <4>1. \A x, y \in Seq(Byte) : x \o y \in Seq(Byte) /\ Len(x \o y) = Len(x) + Len(y)
        OBVIOUS
      <4>2. tail' \in Seq(Byte) /\ Readable' \in Seq(Byte)
        BY <1>20, <2>1
      <4> HIDE DEF Byte
      <4> QED BY ONLY <4>1, <4>2
    <3> QED BY <1>20, <2>1, <3>1, <3>2
  <2>3. Len(S) = T + R
    BY <1>3 DEF S, T, R
  <2>4. (N - end) + (R - n) = Len(S) - end /\ end \in 0 .. Len(S)
    BY <1>4, <1>15, <2>3 DEF N
  <2>5. \A i \in 1 .. Len(S) - end : Stream'[i] = S[i + end]
    <3> TAKE i \in 1 .. Len(S) - end
    <3>1. CASE i <= N - end
      <4>1. i \in 1 .. N - end
        BY <1>7, <1>15, <3>1
      <4>2. Stream'[i] = tail'[i]
        BY <1>20, <2>1, <2>2, <4>1
      <4> QED BY <1>20, <4>1, <4>2
    <3>2. CASE ~(i <= N - end)
      <4> DEFINE j == i - (N - end)
      <4>1. j \in 1 .. R - n /\ j + n \in 1 .. R /\ T + (j + n) = i + end
        BY <1>4, <1>15, <2>3, <3>2 DEF N
      <4>2. Stream'[i] = Readable'[j]
        <5>1. i \in 1 .. (N - end) + (R - n)
          BY <2>4
        <5> QED BY <1>20, <2>1, <2>2, <3>2, <5>1
      <4> HIDE DEF j
      <4>3. S[T + (j + n)] = Readable[j + n]
        BY <1>3, <4>1 DEF S, T, R
      <4> QED BY <2>1, <4>1, <4>2, <4>3
    <3> QED BY <3>1, <3>2
  <2> QED BY <2>2, <2>4, <2>5 DEF IsRest
<1>24. Lines(Stream')
  <2>1. Cut(S, end)
    BY <1>7, <1>15 DEF Cut
  <2> QED BY <1>8, <1>23, <2>1, LinesCut
<1>25. \A i \in 1 .. Len(Stream') : last' < Stream'[i][1] /\ Stream'[i][1] <= seq'
  <2> TAKE i \in 1 .. Len(Stream')
  <2>1. i \in 1 .. Len(S) - end /\ Stream'[i] = S[i + end] /\ end \in 0 .. Len(S) /\ Len(S) \in Nat
    BY <1>8, <1>23 DEF IsRest
  <2> DEFINE Z == Len(S)
  <2> HIDE DEF Z
  <2>2. i + end \in (end + 1) .. Z
    BY <2>1 DEF Z
  <2> QED BY <1>22, <2>1, <2>2 DEF Z
<1> QED BY <1>18, <1>20, <1>21, <1>22, <1>24, <1>25 DEF HostInv

LEMMA NoLines == Lines(<<>>)
<1>1. Len(<<>>) = 0 /\ 1 .. 0 = {}
  OBVIOUS
<1> QED BY <1>1 DEF Lines, Proper, GoesOn, Begun, Ascends

LEMMA AuditInitInv == AuditInit => AuditInv
<1> SUFFICES ASSUME AuditInit PROVE AuditInv
  OBVIOUS
<1>1. AuditRing /\ tail = <<>> /\ ~garbled /\ last = 0 /\ seq = 0
  BY AuditInitRing DEF AuditInit
<1>2. Readable = <<>>
  <2>1. available = 0
    BY DEF AuditInit, available
  <2> QED BY <2>1 DEF Readable
<1>3. Stream = <<>> /\ Len(Stream) = 0 /\ Len(tail) = 0 /\ tail \in Seq(Byte)
  BY <1>1, <1>2 DEF Stream
<1> QED BY <1>1, <1>3, NoLines DEF AuditInv, HostInv

LEMMA AuditNextInv == AuditInv /\ [AuditNext]_auditVars => AuditInv'
<1> SUFFICES ASSUME AuditInv, [AuditNext]_auditVars PROVE AuditInv'
  OBVIOUS
<1>0. AuditRing
  BY DEF AuditInv
<1>1. ASSUME NEW l \in Levels, NEW n \in 1 .. Capacity \div 4 + 1, append(l, n)
      PROVE  AuditInv'
  BY <1>1, AppendKeepsHost
<1>2. ASSUME NEW n \in 1 .. Capacity - 1, drain(n) PROVE AuditInv'
  BY <1>2, DrainKeepsHost
<1>3. CASE clear
  <2>1. AuditRing' /\ Readable' = <<>>
    BY <1>0, <1>3, ClearIsClear
  <2> SUFFICES ASSUME ~cut' PROVE HostInv'
    BY <2>1 DEF AuditInv
  <2>2. ~cut /\ tail = <<>> /\ UNCHANGED <<seq, tail, last, garbled>>
    BY <1>3 DEF clear
  <2>3. Stream' = <<>> /\ Len(Stream') = 0
    BY <2>1, <2>2 DEF Stream
  <2>4. HostInv
    BY <2>2 DEF AuditInv
  <2> QED BY <2>2, <2>3, <2>4, NoLines DEF HostInv
<1>4. ASSUME NEW l \in Levels, audit_configure(l) \/ UNCHANGED auditVars PROVE AuditInv'
  <2>1. UNCHANGED <<buffer, write_pos, read_pos, seq, tail, last, garbled, cut>>
    BY <1>4 DEF audit_configure, auditVars
  <2>2. AuditRing' /\ Readable' = Readable
    BY <1>0, <2>1, QuietAudit
  <2>3. Stream' = Stream
    BY <2>1, <2>2 DEF Stream
  <2> QED BY <2>1, <2>2, <2>3 DEF AuditInv, HostInv
<1> QED BY <1>1, <1>2, <1>3, <1>4, LevelsAreNumbers DEF AuditNext

(* What the host gets is whole entries in the order they were appended, and   *)
(* the line it holds unfinished is shorter than the longest entry, unless     *)
(* the rest of such a line was overwritten or cleared.                        *)
THEOREM LinesStayWhole == AuditSpec => []LinesAreWhole
<1> QED BY AuditInitInv, AuditNextInv, HostInvHelps, PTL DEF AuditSpec
=============================================================================
