-------------------------------- MODULE Timer --------------------------------
(***************************************************************************)
(* The timers of the sandbox scheduler                                     *)
(* (crates/amla-sandbox-scheduler/src/timer.rs): every sleep is an entry   *)
(* of one heap, and one WakeAt operation to the host stands for all.       *)
(*                                                                         *)
(* The host's clock, and when and what it answers, are the environment;    *)
(* what the channel does with the WakeAt operation is module HostChannel's *)
(* concern: here it is a future that is created, submitted, answered or    *)
(* dropped.                                                                *)
(***************************************************************************)
EXTENDS Integers, FiniteSets, SequencesExt

CONSTANTS
  Sleeps,    \* the SleepFutures alive at one time, each of its own task
  NoSlot,    \* None in the slots vector
  MaxTime,   \* bound: the clock's last value and the latest deadline
  MaxSlots   \* bound: slots.len() beyond which nobody sleeps

ASSUME TimerBounds == MaxTime \in Nat /\ MaxSlots \in Nat \ {0}

VARIABLES
  heap,        \* the entries [deadline, id]
  slots,       \* id -> NoSlot or a TimerSlot
  nslots,      \* slots.len()
  free_slots,  \* stack of free slots
  wake_at,     \* WakeAtState, with the progress of its HostOpFuture
  sleep,       \* each SleepFuture
  woken,       \* tasks that will poll their SleepFuture
  clock        \* the host's clock

vars == <<heap, slots, nslots, free_slots, wake_at, sleep, woken, clock>>

Times == 0 .. MaxTime
TimerIds == 0 .. MaxSlots - 1
Entries == [deadline : Times, id : TimerIds]

\* has_waker: waker is Some (of the task whose future has the ID).
TimerSlot == [fired : BOOLEAN, has_waker : BOOLEAN, cancelled : BOOLEAN]

\* None is no TimerSlot.
ASSUME NoSlotAssumption == NoSlot \notin TimerSlot

SleepFuture == [st : {"none", "registered"}, id : TimerIds, deadline : Times]
WakeAtStates == {"idle", "created", "submitted", "answered", "failed"}

TypeOK ==
  /\ heap \subseteq Entries
  /\ slots \in [TimerIds -> TimerSlot \cup {NoSlot}]
  /\ nslots \in 0 .. MaxSlots
  /\ free_slots \in Seq(TimerIds)
  /\ wake_at \in [st : WakeAtStates, deadline : Times, now : Times]
  /\ sleep \in [Sleeps -> SleepFuture]
  /\ woken \subseteq Sleeps
  /\ clock \in Times

NoSleep == [st |-> "none", id |-> 0, deadline |-> 0]
Idle == [st |-> "idle", deadline |-> 0, now |-> 0]
WakeAt(deadline) == [st |-> "created", deadline |-> deadline, now |-> 0]

Init ==
  /\ heap = {}
  /\ slots = [i \in TimerIds |-> NoSlot]
  /\ nslots = 0
  /\ free_slots = <<>>
  /\ wake_at = Idle
  /\ sleep = [s \in Sleeps |-> NoSleep]
  /\ woken = {}
  /\ clock = 0

-----------------------------------------------------------------------------
(* SleepFuture.                                                            *)

\* The host answers between two run_steps, and each run_step processes the
\* timers before it polls a task.
TasksRun == wake_at.st \notin {"answered", "failed"}

\* Mutant: the pending WakeAt is kept, however late it is.
register_keeps_wake_at(s, deadline, id) ==
  /\ slots' = [slots EXCEPT ![id] =
                 [fired |-> FALSE, has_waker |-> FALSE, cancelled |-> FALSE]]
  /\ heap' = heap \cup {[deadline |-> deadline, id |-> id]}
  /\ wake_at' = IF wake_at.st = "idle" THEN WakeAt(deadline) ELSE wake_at

\* register: a slot, an entry, and a new WakeAt unless the pending one is at
\* least as early.  The one it replaces is dropped.
register(s, deadline, id) ==
  /\ slots' = [slots EXCEPT ![id] =
                 [fired |-> FALSE, has_waker |-> FALSE, cancelled |-> FALSE]]
  /\ heap' = heap \cup {[deadline |-> deadline, id |-> id]}
  /\ wake_at' = IF wake_at.st = "idle" \/ deadline < wake_at.deadline
                THEN WakeAt(deadline) ELSE wake_at

\* sleep_until, called by a task that goes on to poll the future.
Sleep(s, deadline) ==
  /\ TasksRun
  /\ sleep[s].st = "none"
  /\ \/ /\ free_slots # <<>>
        /\ register(s, deadline, Last(free_slots))
        /\ free_slots' = Front(free_slots)
        /\ sleep' = [sleep EXCEPT ![s] =
             [st |-> "registered", id |-> Last(free_slots), deadline |-> deadline]]
        /\ UNCHANGED nslots
     \/ /\ free_slots = <<>>
        /\ nslots < MaxSlots
        /\ register(s, deadline, nslots)
        /\ nslots' = nslots + 1
        /\ sleep' = [sleep EXCEPT ![s] =
             [st |-> "registered", id |-> nslots, deadline |-> deadline]]
        /\ UNCHANGED free_slots
  /\ woken' = woken \cup {s}
  /\ UNCHANGED clock

cleanup(id) ==
  /\ slots' = [slots EXCEPT ![id] = NoSlot]
  /\ free_slots' = Append(free_slots, id)

\* SleepFuture::poll, at any time (its task may wait for other things too).
PollFired(s) ==
  /\ TasksRun
  /\ sleep[s].st = "registered"
  /\ slots[sleep[s].id].fired
  /\ cleanup(sleep[s].id)
  /\ sleep' = [sleep EXCEPT ![s] = NoSleep]
  /\ woken' = woken \ {s}
  /\ UNCHANGED <<heap, nslots, wake_at, clock>>

\* Mutant: a pending poll does not leave its waker.
PollWaits_no_waker(s) ==
  /\ TasksRun
  /\ sleep[s].st = "registered"
  /\ ~slots[sleep[s].id].fired
  /\ woken' = woken \ {s}
  /\ UNCHANGED <<heap, slots, nslots, free_slots, wake_at, sleep, clock>>

PollWaits(s) ==
  /\ TasksRun
  /\ sleep[s].st = "registered"
  /\ ~slots[sleep[s].id].fired
  /\ slots' = [slots EXCEPT ![sleep[s].id].has_waker = TRUE]
  /\ woken' = woken \ {s}
  /\ UNCHANGED <<heap, nslots, free_slots, wake_at, sleep, clock>>

\* Drop for SleepFuture, by its task or by a cancellation between run_steps:
\* cancel only marks the slot.
Drop(s) ==
  /\ sleep[s].st = "registered"
  /\ slots' = [slots EXCEPT ![sleep[s].id].cancelled = TRUE]
  /\ sleep' = [sleep EXCEPT ![s] = NoSleep]
  /\ woken' = woken \ {s}
  /\ UNCHANGED <<heap, nslots, free_slots, wake_at, clock>>

-----------------------------------------------------------------------------
(* TimerState::process, at the start of every run_step.                    *)

\* Mutant: fires one tick early.
Expired_early(now) == {e \in heap : e.deadline <= now + 1}

Expired(now) == {e \in heap : e.deadline <= now}

\* With no WakeAt left, one is made for the earliest entry and polled, which
\* submits it if the channel has room.
Schedule(entries, room) ==
  IF entries = {} THEN Idle
  ELSE [WakeAt(CHOOSE d \in Times : /\ \E e \in entries : e.deadline = d
                                    /\ \A e \in entries : d <= e.deadline)
          EXCEPT !.st = IF room THEN "submitted" ELSE "created"]

Owners(ids) == {s \in Sleeps : sleep[s].st = "registered" /\ sleep[s].id \in ids}

\* fire_expired: an expired entry leaves the heap; the slot of a cancelled one
\* is freed (in heap order: any order of equal deadlines), another is marked
\* and its waker taken and woken.
fire_expired(now) ==
  LET ids == {e.id : e \in Expired(now)}
      dead == {i \in ids : slots[i].cancelled} IN
  /\ heap' = heap \ Expired(now)
  /\ slots' = [i \in TimerIds |->
                 IF i \in dead THEN NoSlot
                 ELSE IF i \in ids THEN [slots[i] EXCEPT !.fired = TRUE, !.has_waker = FALSE]
                 ELSE slots[i]]
  /\ \E order \in SetToSeqs(dead) : free_slots' = free_slots \o order
  /\ woken' = woken \cup Owners({i \in ids \ dead : slots[i].has_waker})

Process(room) ==
  /\ \/ /\ wake_at.st = "answered"
        /\ fire_expired(wake_at.now)
        /\ wake_at' = Schedule(heap', room)
     \/ /\ wake_at.st \in {"idle", "failed"}
        /\ wake_at' = Schedule(heap, room)
        /\ UNCHANGED <<heap, slots, free_slots, woken>>
     \/ /\ wake_at.st = "created" /\ room
        /\ wake_at' = [wake_at EXCEPT !.st = "submitted"]
        /\ UNCHANGED <<heap, slots, free_slots, woken>>
  /\ UNCHANGED <<nslots, sleep, clock>>

-----------------------------------------------------------------------------
(* The host.                                                               *)

Tick == clock < MaxTime /\ clock' = clock + 1
        /\ UNCHANGED <<heap, slots, nslots, free_slots, wake_at, sleep, woken>>

\* An answer carries the host's time (one too short to hold it reads as 0) and
\* may come before the deadline.
Answer(now) ==
  /\ wake_at.st = "submitted"
  /\ wake_at' = [wake_at EXCEPT !.st = "answered", !.now = now]
  /\ UNCHANGED <<heap, slots, nslots, free_slots, sleep, woken, clock>>

AnswerError ==
  /\ wake_at.st = "submitted"
  /\ wake_at' = [wake_at EXCEPT !.st = "failed"]
  /\ UNCHANGED <<heap, slots, nslots, free_slots, sleep, woken, clock>>

Poll(s) == PollFired(s) \/ PollWaits(s)

Next ==
  \/ \E s \in Sleeps : (\E d \in Times : Sleep(s, d)) \/ Poll(s) \/ Drop(s)
  \/ \E room \in BOOLEAN : Process(room)
  \/ Tick \/ Answer(clock) \/ Answer(0) \/ AnswerError

Spec == Init /\ [][Next]_vars

\* Time passes; the host answers a WakeAt that is due, however often it fails
\* before; run_step is called again, with room in the channel every so often;
\* woken tasks are polled.
Fairness ==
  /\ WF_vars(Tick)
  /\ SF_vars(wake_at.deadline <= clock /\ Answer(clock))
  /\ SF_vars(Process(TRUE))
  /\ \A s \in Sleeps : SF_vars(s \in woken /\ Poll(s))

FairSpec == Spec /\ Fairness

-----------------------------------------------------------------------------
(* Properties.                                                             *)

\* A sleep never ends before its deadline, and its slot stays its own, though
\* IDs are reused, WakeAts are replaced, entries of dropped sleeps linger in the
\* heap and the host may answer early or for another sleep's deadline.
NeverEarly ==
  \A s \in Sleeps : sleep[s].st = "registered" =>
    /\ slots[sleep[s].id] # NoSlot
    /\ slots[sleep[s].id].fired => sleep[s].deadline <= clock
    /\ \A t \in Sleeps \ {s} : sleep[t].st = "registered" => sleep[t].id # sleep[s].id

\* The one WakeAt covers everybody: after the first sleep there is always one
\* pending, no later than the earliest entry.
WakeAtCoversEarliest ==
  \A e \in heap : wake_at.st # "idle" /\ wake_at.deadline <= e.deadline

\* Every sleep ends, unless it is dropped.
SleepEnds == \A s \in Sleeps : sleep[s].st = "registered" ~> sleep[s].st = "none"
=============================================================================
