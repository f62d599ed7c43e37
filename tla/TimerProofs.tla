----------------------------- MODULE TimerProofs -----------------------------
(***************************************************************************)
(* What holds of Timer for any number of sleeps, slots and times: its      *)
(* types, that no sleep ends before its deadline or in another's slot, and *)
(* that the pending WakeAt is never later than the earliest entry.         *)
(***************************************************************************)
EXTENDS Timer, FiniteSetTheorems, SequenceTheorems, NaturalsInduction,
        WellFoundedInduction, TLAPS

-----------------------------------------------------------------------------
(* The inductive invariant.                                                *)

Registered(s) == sleep[s].st = "registered"

\* A free slot is empty and in the free list once.
FreeInv ==
  /\ \A i, j \in 1 .. Len(free_slots) : free_slots[i] = free_slots[j] => i = j
  /\ \A k \in 1 .. Len(free_slots) :
       free_slots[k] < nslots /\ slots[free_slots[k]] = NoSlot

\* An entry of the heap is the only one of its slot, which has not fired.
EntryInv ==
  /\ \A e \in heap : e.id < nslots /\ slots[e.id] # NoSlot /\ ~slots[e.id].fired
  /\ \A d, e \in heap : d.id = e.id => d = e

\* A sleep holds its slot alone; the entry of that slot, if it is still in the
\* heap, has the sleep's deadline, and the slot fires when that has passed.
SleepInv ==
  \A s \in Sleeps : Registered(s) =>
    /\ sleep[s].id < nslots /\ slots[sleep[s].id] # NoSlot
    /\ ~slots[sleep[s].id].cancelled
    /\ slots[sleep[s].id].fired => sleep[s].deadline <= clock
    /\ \A e \in heap : e.id = sleep[s].id => e.deadline = sleep[s].deadline
    /\ \A t \in Sleeps : t # s /\ Registered(t) => sleep[t].id # sleep[s].id

\* The host does not answer from the future.
NowIsPast == wake_at.now <= clock

TimerInv ==
  /\ TypeOK /\ FreeInv /\ EntryInv /\ SleepInv /\ NowIsPast /\ WakeAtCoversEarliest

-----------------------------------------------------------------------------
(* Numbers, sequences, and the records of a sleep.                         *)

\* A set of numbers has a least one.
LEMMA LeastNat ==
  ASSUME NEW T \in SUBSET Nat, T # {}
  PROVE  \E x \in T : \A y \in T : x <= y
<1>1. IsWellFoundedOn(OpToRel(<, Nat), Nat)
  BY NatLessThanWellFounded
<1>2. PICK x \in T : \A y \in T : ~(<<y, x>> \in OpToRel(<, Nat))
  BY <1>1, WFMin
<1>3. \A y \in T : ~(y < x)
  BY <1>2 DEF OpToRel
<1> QED
  BY <1>3

LEMMA ElementTypes ==
  ASSUME TypeOK
  PROVE  /\ \A e \in heap : e \in Entries /\ e.id \in TimerIds /\ e.deadline \in Times
         /\ \A s \in Sleeps : sleep[s].id \in TimerIds /\ sleep[s].deadline \in Times
         /\ \A i \in TimerIds : i \in Nat /\ i < MaxSlots
         /\ \A t \in Times : t \in Nat
         /\ wake_at.now \in Times /\ wake_at.deadline \in Times /\ wake_at.st \in WakeAtStates
         /\ \A k \in 1 .. Len(free_slots) : free_slots[k] \in TimerIds
         /\ Len(free_slots) \in Nat
<1>1. \A e \in heap : e \in Entries /\ e.id \in TimerIds /\ e.deadline \in Times
  BY DEF TypeOK, Entries
<1>2. \A s \in Sleeps : sleep[s].id \in TimerIds /\ sleep[s].deadline \in Times
  BY DEF TypeOK, SleepFuture
<1>3. (\A i \in TimerIds : i \in Nat /\ i < MaxSlots) /\ (\A t \in Times : t \in Nat)
  BY TimerBounds DEF TimerIds, Times
<1>4. wake_at.now \in Times /\ wake_at.deadline \in Times /\ wake_at.st \in WakeAtStates
  BY DEF TypeOK
<1>5. Len(free_slots) \in Nat /\ \A k \in 1 .. Len(free_slots) : free_slots[k] \in TimerIds
  BY ElementOfSeq DEF TypeOK
<1> QED
  BY <1>1, <1>2, <1>3, <1>4, <1>5

LEMMA RecordTypes ==
  /\ NoSleep \in SleepFuture
  /\ Idle \in [st : WakeAtStates, deadline : Times, now : Times]
  /\ \A d \in Times : WakeAt(d) \in [st : WakeAtStates, deadline : Times, now : Times]
  /\ \A id \in TimerIds, d \in Times :
       /\ [st |-> "registered", id |-> id, deadline |-> d] \in SleepFuture
       /\ [deadline |-> d, id |-> id] \in Entries
<1>1. 0 \in Times /\ 0 \in TimerIds
  BY TimerBounds DEF Times, TimerIds
<1> QED
  BY <1>1 DEF NoSleep, SleepFuture, Idle, WakeAtStates, WakeAt, Entries

\* The slots after a step that ends one sleep, or moves none.
LEMMA SlotTypes ==
  ASSUME NEW slot \in TimerSlot
  PROVE  /\ [slot EXCEPT !.cancelled = TRUE] \in TimerSlot
         /\ [slot EXCEPT !.has_waker = TRUE] \in TimerSlot
         /\ [slot EXCEPT !.fired = TRUE, !.has_waker = FALSE] \in TimerSlot
BY DEF TimerSlot

-----------------------------------------------------------------------------
(* Sleeping.                                                               *)

\* register, with a slot that no entry and no sleep has.
LEMMA RegisterInv ==
  ASSUME TimerInv, NEW s \in Sleeps, sleep[s].st = "none", NEW deadline \in Times,
         NEW id \in TimerIds, register(s, deadline, id),
         id < nslots => slots[id] = NoSlot,
         id < nslots', nslots <= nslots', nslots' \in 0 .. MaxSlots,
         sleep' = [sleep EXCEPT ![s] =
                     [st |-> "registered", id |-> id, deadline |-> deadline]],
         woken' = woken \cup {s}, clock' = clock,
         free_slots' \in Seq(TimerIds), FreeInv'
  PROVE  TimerInv'
<1> DEFINE slot == [fired |-> FALSE, has_waker |-> FALSE, cancelled |-> FALSE]
<1> DEFINE entry == [deadline |-> deadline, id |-> id]
<1>1. slot \in TimerSlot /\ slot # NoSlot /\ ~slot.fired /\ ~slot.cancelled
  <2>1. slot \in TimerSlot
    BY DEF TimerSlot
  <2> QED
    BY <2>1, NoSlotAssumption
<1>2. slots' = [slots EXCEPT ![id] = slot]
  BY DEF register
<1>3. heap' = heap \cup {entry} /\ entry.id = id /\ entry.deadline = deadline
  BY DEF register
<1>4. wake_at' = wake_at \/ wake_at' = WakeAt(deadline)
  BY DEF register
<1> HIDE DEF slot, entry
<1>5. slots'[id] = slot /\ \A i \in TimerIds : i # id => slots'[i] = slots[i]
  BY <1>2 DEF TimerInv, TypeOK
<1>6. /\ \A e \in heap : e.id \in TimerIds /\ e.id # id /\ e.id < nslots' /\ slots'[e.id] = slots[e.id]
      /\ \A t \in Sleeps : Registered(t) =>
           /\ sleep[t].id \in TimerIds /\ sleep[t].id # id /\ sleep[t].id < nslots'
           /\ slots'[sleep[t].id] = slots[sleep[t].id]
  <2>1. ASSUME NEW i \in TimerIds, i < nslots, slots[i] # NoSlot
        PROVE  i # id /\ i < nslots' /\ slots'[i] = slots[i]
    BY <2>1, <1>5, TimerBounds, ElementTypes DEF TimerInv, TypeOK
  <2>2. \A e \in heap : e.id \in TimerIds /\ e.id < nslots /\ slots[e.id] # NoSlot
    BY ElementTypes DEF TimerInv, EntryInv
  <2>3. \A t \in Sleeps : Registered(t) =>
          sleep[t].id \in TimerIds /\ sleep[t].id < nslots /\ slots[sleep[t].id] # NoSlot
    BY ElementTypes DEF TimerInv, SleepInv
  <2> QED
    BY <2>1, <2>2, <2>3
<1>7. /\ ~Registered(s) /\ Registered(s)' /\ sleep'[s].id = id /\ sleep'[s].deadline = deadline
      /\ \A t \in Sleeps : t # s => sleep'[t] = sleep[t] /\ (Registered(t)' <=> Registered(t))
  BY DEF TimerInv, TypeOK, Registered
<1>8. TypeOK'
  <2>1. slots' \in [TimerIds -> TimerSlot \cup {NoSlot}]
    BY <1>1, <1>2 DEF TimerInv, TypeOK
  <2>2. heap' \subseteq Entries
    BY <1>3, RecordTypes DEF TimerInv, TypeOK, entry
  <2>3. wake_at' \in [st : WakeAtStates, deadline : Times, now : Times]
    BY <1>4, RecordTypes DEF TimerInv, TypeOK
  <2>4. sleep' \in [Sleeps -> SleepFuture]
    BY RecordTypes DEF TimerInv, TypeOK
  <2> QED
    BY <2>1, <2>2, <2>3, <2>4 DEF TimerInv, TypeOK
<1>9. EntryInv'
  BY <1>1, <1>3, <1>5, <1>6 DEF TimerInv, EntryInv
<1>10. SleepInv'
  <2> SUFFICES ASSUME NEW t \in Sleeps, Registered(t)'
               PROVE  /\ sleep'[t].id < nslots' /\ slots'[sleep'[t].id] # NoSlot
                      /\ ~slots'[sleep'[t].id].cancelled
                      /\ slots'[sleep'[t].id].fired => sleep'[t].deadline <= clock'
                      /\ \A e \in heap' : e.id = sleep'[t].id => e.deadline = sleep'[t].deadline
                      /\ \A u \in Sleeps : u # t /\ Registered(u)' => sleep'[u].id # sleep'[t].id
    BY DEF SleepInv
  <2>1. CASE t = s
    BY <2>1, <1>1, <1>3, <1>5, <1>6, <1>7
  <2>2. CASE t # s
    <3>1. Registered(t) /\ sleep'[t] = sleep[t] /\ slots'[sleep[t].id] = slots[sleep[t].id]
      BY <2>2, <1>6, <1>7
    <3>2. \A e \in heap' : e.id = sleep[t].id => e \in heap
      BY <3>1, <1>3, <1>6
    <3>3. \A u \in Sleeps : u # t /\ Registered(u)' => sleep'[u].id # sleep[t].id
      BY <3>1, <1>6, <1>7 DEF TimerInv, SleepInv
    <3> QED
      BY <3>1, <3>2, <3>3, <1>6 DEF TimerInv, SleepInv
  <2> QED
    BY <2>1, <2>2
<1>11. NowIsPast'
  BY <1>4, TimerBounds DEF TimerInv, NowIsPast, WakeAt, TypeOK, Times
<1>12. WakeAtCoversEarliest'
  <2>1. \A e \in heap : e.deadline \in Int /\ wake_at.deadline \in Int /\ deadline \in Int
    BY ElementTypes DEF TimerInv
  <2>2. CASE wake_at.st = "idle" \/ deadline < wake_at.deadline
    <3>1. wake_at'.st = "created" /\ wake_at'.deadline = deadline
      BY <2>2 DEF register, WakeAt
    <3>2. \A e \in heap : deadline <= e.deadline
      BY <2>1, <2>2 DEF TimerInv, WakeAtCoversEarliest
    <3> QED
      BY <3>1, <3>2, <1>3, ElementTypes DEF WakeAtCoversEarliest, TimerInv
  <2>3. CASE ~(wake_at.st = "idle" \/ deadline < wake_at.deadline)
    <3>1. wake_at' = wake_at /\ wake_at.deadline <= deadline
      BY <2>3, ElementTypes DEF register, TimerInv
    <3> QED
      BY <2>3, <3>1, <1>3 DEF WakeAtCoversEarliest, TimerInv
  <2> QED
    BY <2>2, <2>3
<1> QED
  BY <1>8, <1>9, <1>10, <1>11, <1>12 DEF TimerInv

LEMMA SleepKeeps ==
  ASSUME TimerInv, NEW s \in Sleeps, NEW deadline \in Times, Sleep(s, deadline)
  PROVE  TimerInv'
<1> DEFINE n == Len(free_slots)
<1>0. n \in Nat /\ nslots \in 0 .. MaxSlots /\ free_slots \in Seq(TimerIds) /\ MaxSlots \in Nat
  BY TimerBounds DEF TimerInv, TypeOK
<1>1. ASSUME free_slots # <<>>, register(s, deadline, Last(free_slots)),
             free_slots' = Front(free_slots), UNCHANGED nslots,
             sleep' = [sleep EXCEPT ![s] = [st |-> "registered", id |-> Last(free_slots),
                                            deadline |-> deadline]]
      PROVE  TimerInv'
  <2> DEFINE id == Last(free_slots)
  <2>1. n \in 1 .. n /\ id = free_slots[n]
    BY <1>0, <1>1, EmptySeq DEF Last
  <2>2. id \in TimerIds /\ id < nslots /\ slots[id] = NoSlot
    BY <2>1, ElementOfSeq DEF TimerInv, TypeOK, FreeInv
  <2>3. /\ free_slots' \in Seq(TimerIds) /\ Len(free_slots') = n - 1
        /\ \A k \in 1 .. n - 1 : free_slots'[k] = free_slots[k]
    <3>1. free_slots' = SubSeq(free_slots, 1, n - 1)
      BY <1>1 DEF Front
    <3>2. \A k \in 1 .. n - 1 : free_slots[k] \in TimerIds
      BY <1>0, ElementOfSeq
    <3> HIDE DEF n
    <3>3. n - 1 \in Nat /\ (1 <= n - 1 \/ n - 1 = 0)
      BY <2>1, <1>0
    <3> QED
      BY <3>1, <3>2, <3>3, <1>0, SubSeqProperties
  <2>4. slots' = [slots EXCEPT ![id] = [fired |-> FALSE, has_waker |-> FALSE, cancelled |-> FALSE]]
    BY <1>1 DEF register
  <2> HIDE DEF id
  <2>5. \A i \in TimerIds : i # id => slots'[i] = slots[i]
    BY <2>4 DEF TimerInv, TypeOK
  <2>6. FreeInv'
    <3>1. \A k \in 1 .. n - 1 :
            /\ k \in 1 .. n /\ k # n /\ free_slots[k] \in TimerIds /\ free_slots[k] # id
      BY <2>1, <1>0, ElementOfSeq DEF TimerInv, FreeInv
    <3>2. \A i, j \in 1 .. n : free_slots[i] = free_slots[j] => i = j
      BY DEF TimerInv, FreeInv
    <3>3. \A k \in 1 .. n : free_slots[k] < nslots /\ slots[free_slots[k]] = NoSlot
      BY DEF TimerInv, FreeInv
    <3>4. \A i, j \in 1 .. n - 1 : free_slots'[i] = free_slots'[j] => i = j
      BY <2>3, <3>1, <3>2
    <3>5. \A k \in 1 .. n - 1 : free_slots'[k] < nslots' /\ slots'[free_slots'[k]] = NoSlot
      BY <1>1, <2>3, <2>5, <3>1, <3>3
    <3> QED
      BY <3>4, <3>5, <2>3 DEF FreeInv
  <2>7. /\ sleep[s].st = "none" /\ woken' = woken \cup {s} /\ clock' = clock
        /\ register(s, deadline, id) /\ nslots' = nslots /\ nslots <= nslots
        /\ sleep' = [sleep EXCEPT ![s] = [st |-> "registered", id |-> id, deadline |-> deadline]]
    BY <1>0, <1>1 DEF Sleep, id
  <2> QED
    BY <1>0, <2>2, <2>3, <2>6, <2>7, RegisterInv
<1>2. ASSUME free_slots = <<>>, nslots < MaxSlots, register(s, deadline, nslots),
             nslots' = nslots + 1, UNCHANGED free_slots,
             sleep' = [sleep EXCEPT ![s] = [st |-> "registered", id |-> nslots,
                                            deadline |-> deadline]]
      PROVE  TimerInv'
  <2>1. nslots \in TimerIds /\ ~(nslots < nslots) /\ nslots < nslots' /\ nslots <= nslots' /\ nslots' \in 0 .. MaxSlots
    BY <1>0, <1>2 DEF TimerIds
  <2>2. FreeInv'
    BY <1>2, EmptySeq DEF FreeInv
  <2> QED
    BY <1>0, <1>2, <2>1, <2>2, RegisterInv DEF Sleep
<1> QED
  BY <1>1, <1>2 DEF Sleep

-----------------------------------------------------------------------------
(* Polling and dropping.                                                   *)

\* What a poll and a drop leave alone.
LEMMA WakeAtStays ==
  ASSUME TimerInv, UNCHANGED <<heap, wake_at, clock>>
  PROVE  WakeAtCoversEarliest' /\ NowIsPast'
BY DEF TimerInv, WakeAtCoversEarliest, NowIsPast

LEMMA PollFiredKeeps ==
  ASSUME TimerInv, NEW s \in Sleeps, PollFired(s)
  PROVE  TimerInv'
<1> DEFINE id == sleep[s].id
<1> DEFINE n == Len(free_slots)
<1>1. /\ Registered(s) /\ slots[id].fired /\ id \in TimerIds /\ id < nslots /\ slots[id] # NoSlot
      /\ n \in Nat
  BY ElementTypes DEF PollFired, TimerInv, SleepInv, Registered
<1>2. slots' = [slots EXCEPT ![id] = NoSlot] /\ free_slots' = Append(free_slots, id)
  BY DEF PollFired, cleanup
<1>3. UNCHANGED <<heap, nslots, wake_at, clock>> /\ sleep' = [sleep EXCEPT ![s] = NoSleep]
  BY DEF PollFired
<1>4. \A e \in heap : e.id # id /\ e.id \in TimerIds
  BY <1>1, ElementTypes DEF TimerInv, EntryInv
<1>5. /\ ~Registered(s)' /\ \A t \in Sleeps : t # s => sleep'[t] = sleep[t]
      /\ \A t \in Sleeps : t # s /\ Registered(t) => sleep[t].id # id /\ sleep[t].id \in TimerIds
  BY <1>1, <1>3, ElementTypes DEF TimerInv, TypeOK, SleepInv, Registered, NoSleep
<1> HIDE DEF id
<1>6. slots'[id] = NoSlot /\ \A i \in TimerIds : i # id => slots'[i] = slots[i]
  BY <1>1, <1>2 DEF TimerInv, TypeOK
<1>7. /\ free_slots' \in Seq(TimerIds) /\ Len(free_slots') = n + 1
      /\ \A k \in 1 .. n : free_slots'[k] = free_slots[k]
      /\ free_slots'[n + 1] = id
  BY <1>1, <1>2, AppendProperties DEF TimerInv, TypeOK
<1>8. TypeOK'
  <2>1. slots' \in [TimerIds -> TimerSlot \cup {NoSlot}]
    BY <1>1, <1>2 DEF TimerInv, TypeOK
  <2>2. sleep' \in [Sleeps -> SleepFuture]
    BY <1>3, RecordTypes DEF TimerInv, TypeOK
  <2> QED
    BY <1>7, <2>1, <2>2 DEF PollFired, TimerInv, TypeOK
<1> HIDE DEF n
<1>9. FreeInv'
  <2>1. \A k \in 1 .. n + 1 : k \in 1 .. n \/ k = n + 1
    BY <1>1
  <2>2. \A k \in 1 .. n : /\ free_slots[k] < nslots /\ slots[free_slots[k]] = NoSlot
                          /\ free_slots[k] \in TimerIds
    BY ElementTypes DEF TimerInv, FreeInv, n
  <2>3. \A k \in 1 .. n : free_slots[k] # id
    BY <1>1, <2>2
  <2>4. \A i, j \in 1 .. n : free_slots[i] = free_slots[j] => i = j
    BY DEF TimerInv, FreeInv, n
  <2>5. \A i, j \in 1 .. n + 1 : free_slots'[i] = free_slots'[j] => i = j
    BY <1>7, <2>1, <2>3, <2>4
  <2>6. \A k \in 1 .. n + 1 : free_slots'[k] < nslots' /\ slots'[free_slots'[k]] = NoSlot
    BY <1>1, <1>3, <1>6, <1>7, <2>1, <2>2, <2>3
  <2> QED
    BY <1>7, <2>5, <2>6 DEF FreeInv
<1>10. EntryInv'
  BY <1>3, <1>4, <1>6 DEF TimerInv, EntryInv
<1>11. SleepInv'
  BY <1>3, <1>5, <1>6 DEF TimerInv, SleepInv, Registered
<1> QED
  BY <1>3, <1>8, <1>9, <1>10, <1>11, WakeAtStays DEF TimerInv

\* A step that changes one sleep's slot without firing or freeing it.
LEMMA TouchKeeps ==
  ASSUME TimerInv, NEW i \in TimerIds, NEW new \in TimerSlot, slots[i] # NoSlot,
         new.fired = slots[i].fired,
         slots' = [slots EXCEPT ![i] = new],
         UNCHANGED <<heap, nslots, free_slots, wake_at, clock>>
  PROVE  /\ FreeInv' /\ EntryInv' /\ WakeAtCoversEarliest' /\ NowIsPast'
         /\ slots' \in [TimerIds -> TimerSlot \cup {NoSlot}]
         /\ slots'[i] = new /\ new # NoSlot
         /\ \A k \in TimerIds : k # i => slots'[k] = slots[k]
<1>1. /\ new # NoSlot /\ slots'[i] = new
      /\ \A k \in TimerIds : k # i => slots'[k] = slots[k]
      /\ slots' \in [TimerIds -> TimerSlot \cup {NoSlot}]
  BY NoSlotAssumption DEF TimerInv, TypeOK
<1>2. FreeInv'
  BY <1>1, ElementTypes DEF TimerInv, FreeInv
<1>3. EntryInv'
  BY <1>1, ElementTypes DEF TimerInv, EntryInv
<1> QED
  BY <1>1, <1>2, <1>3, WakeAtStays

LEMMA PollWaitsKeeps ==
  ASSUME TimerInv, NEW s \in Sleeps, PollWaits(s)
  PROVE  TimerInv'
<1> DEFINE id == sleep[s].id
<1> DEFINE new == [slots[id] EXCEPT !.has_waker = TRUE]
<1>1. /\ Registered(s) /\ id \in TimerIds /\ slots[id] # NoSlot /\ slots[id] \in TimerSlot
  BY ElementTypes DEF PollWaits, TimerInv, SleepInv, Registered, TypeOK
<1>2. slots' = [slots EXCEPT ![id] = new]
  BY DEF PollWaits
<1> HIDE DEF id
<1>3. new \in TimerSlot /\ new.fired = slots[id].fired /\ new.cancelled = slots[id].cancelled
  BY <1>1, SlotTypes DEF TimerSlot
<1> HIDE DEF new
<1>4. UNCHANGED <<heap, nslots, free_slots, wake_at, sleep, clock>> /\ woken' \subseteq woken
  BY DEF PollWaits
<1>5. /\ FreeInv' /\ EntryInv' /\ WakeAtCoversEarliest' /\ NowIsPast'
      /\ slots' \in [TimerIds -> TimerSlot \cup {NoSlot}]
      /\ slots'[id] = new /\ new # NoSlot
      /\ \A k \in TimerIds : k # id => slots'[k] = slots[k]
  BY <1>1, <1>2, <1>3, <1>4, TouchKeeps
<1>6. \A i \in TimerIds : slots[i] # NoSlot =>
        /\ slots'[i] # NoSlot /\ (slots'[i].fired <=> slots[i].fired)
        /\ (slots'[i].cancelled <=> slots[i].cancelled)
  BY <1>3, <1>5
<1>7. SleepInv'
  <2>1. \A t \in Sleeps : sleep[t].id \in TimerIds
    BY ElementTypes DEF TimerInv
  <2> QED
    BY <1>4, <1>6, <2>1 DEF TimerInv, SleepInv, Registered
<1>8. TypeOK'
  BY <1>4, <1>5 DEF TimerInv, TypeOK
<1> QED
  BY <1>5, <1>7, <1>8 DEF TimerInv

LEMMA DropKeeps ==
  ASSUME TimerInv, NEW s \in Sleeps, Drop(s)
  PROVE  TimerInv'
<1> DEFINE id == sleep[s].id
<1> DEFINE new == [slots[id] EXCEPT !.cancelled = TRUE]
<1>1. /\ Registered(s) /\ id \in TimerIds /\ slots[id] # NoSlot /\ slots[id] \in TimerSlot
      /\ \A t \in Sleeps : t # s /\ Registered(t) => sleep[t].id # id /\ sleep[t].id \in TimerIds
  BY ElementTypes DEF Drop, TimerInv, SleepInv, Registered, TypeOK
<1>2. slots' = [slots EXCEPT ![id] = new]
  BY DEF Drop
<1> HIDE DEF id
<1>3. new \in TimerSlot /\ new.fired = slots[id].fired
  BY <1>1, SlotTypes DEF TimerSlot
<1> HIDE DEF new
<1>4. /\ UNCHANGED <<heap, nslots, free_slots, wake_at, clock>> /\ woken' \subseteq woken
      /\ sleep' = [sleep EXCEPT ![s] = NoSleep]
  BY DEF Drop
<1>5. /\ FreeInv' /\ EntryInv' /\ WakeAtCoversEarliest' /\ NowIsPast'
      /\ slots' \in [TimerIds -> TimerSlot \cup {NoSlot}]
      /\ \A k \in TimerIds : k # id => slots'[k] = slots[k]
  BY <1>1, <1>2, <1>3, <1>4, TouchKeeps
<1>6. ~Registered(s)' /\ \A t \in Sleeps : t # s => sleep'[t] = sleep[t]
  BY <1>4 DEF TimerInv, TypeOK, Registered, NoSleep
<1>7. SleepInv'
  BY <1>1, <1>4, <1>5, <1>6 DEF TimerInv, SleepInv, Registered
<1>8. TypeOK'
  BY <1>4, <1>5, RecordTypes DEF TimerInv, TypeOK
<1> QED
  BY <1>5, <1>7, <1>8 DEF TimerInv

-----------------------------------------------------------------------------
(* Processing the timers.                                                  *)

\* The WakeAt made for some entries is no later than the earliest of them.
LEMMA ScheduleCovers ==
  ASSUME NEW entries \in SUBSET Entries, NEW room \in BOOLEAN
  PROVE  /\ Schedule(entries, room) \in [st : WakeAtStates, deadline : Times, now : Times]
         /\ Schedule(entries, room).now = 0
         /\ \A e \in entries : /\ Schedule(entries, room).st # "idle"
                               /\ Schedule(entries, room).deadline <= e.deadline
<1>1. CASE entries = {}
  BY <1>1, RecordTypes DEF Schedule, Idle
<1>2. CASE entries # {}
  <2> DEFINE Deadlines == {e.deadline : e \in entries}
  <2> DEFINE Earliest(d) == /\ \E e \in entries : e.deadline = d
                            /\ \A e \in entries : d <= e.deadline
  <2> DEFINE first == CHOOSE d \in Times : Earliest(d)
  <2>1. \E d \in Times : Earliest(d)
    <3>1. Deadlines \in SUBSET Nat /\ Deadlines # {} /\ Deadlines \subseteq Times
      BY <1>2 DEF Entries, Times
    <3>2. PICK d \in Deadlines : \A x \in Deadlines : d <= x
      <4> HIDE DEF Deadlines
      <4> QED
        BY <3>1, LeastNat
    <3> QED
      BY <3>1, <3>2
  <2>2. first \in Times /\ Earliest(first)
    <3> HIDE DEF Earliest
    <3> QED
      BY <2>1
  <2>3. Schedule(entries, room) = [WakeAt(first) EXCEPT !.st = IF room THEN "submitted" ELSE "created"]
    BY <1>2 DEF Schedule
  <2> HIDE DEF first
  <2>4. WakeAt(first) \in [st : WakeAtStates, deadline : Times, now : Times]
    BY <2>2, RecordTypes
  <2>5. /\ Schedule(entries, room) \in [st : WakeAtStates, deadline : Times, now : Times]
        /\ Schedule(entries, room).deadline = first /\ Schedule(entries, room).now = 0
        /\ Schedule(entries, room).st \in {"submitted", "created"}
    <3>1. WakeAt(first).deadline = first /\ WakeAt(first).now = 0
      BY DEF WakeAt
    <3> QED
      BY <2>3, <2>4, <3>1 DEF WakeAtStates
  <2> QED
    BY <2>2, <2>5
<1> QED
  BY <1>1, <1>2

\* The types and the part of the invariant about entries, slots and sleeps.
SlotsInv ==
  /\ heap \subseteq Entries
  /\ slots \in [TimerIds -> TimerSlot \cup {NoSlot}]
  /\ free_slots \in Seq(TimerIds) /\ woken \subseteq Sleeps
  /\ FreeInv /\ EntryInv /\ SleepInv

\* Firing frees the slots of dropped sleeps and marks the others, whose
\* deadline has passed.
LEMMA FireKeeps ==
  ASSUME TimerInv, NEW now \in Times, now <= clock, fire_expired(now),
         UNCHANGED <<nslots, sleep, clock>>
  PROVE  SlotsInv'
<1> DEFINE n == Len(free_slots)
<1> DEFINE ids == {e.id : e \in Expired(now)}
<1> DEFINE dead == {i \in ids : slots[i].cancelled}
<1>1. /\ heap' = heap \ Expired(now)
      /\ slots' = [i \in TimerIds |->
                     IF i \in dead THEN NoSlot
                     ELSE IF i \in ids THEN [slots[i] EXCEPT !.fired = TRUE, !.has_waker = FALSE]
                     ELSE slots[i]]
      /\ \E order \in SetToSeqs(dead) : free_slots' = free_slots \o order
      /\ woken' \subseteq Sleeps
  BY DEF fire_expired, Owners, TimerInv, TypeOK
<1>2. PICK order \in SetToSeqs(dead) : free_slots' = free_slots \o order
  BY <1>1
<1>3. \A i \in ids : /\ i \in TimerIds /\ i < nslots /\ slots[i] # NoSlot /\ slots[i] \in TimerSlot
                     /\ \E e \in heap : e.id = i /\ e.deadline <= clock
  <2> SUFFICES ASSUME NEW e \in Expired(now)
               PROVE  /\ e.id \in TimerIds /\ e.id < nslots /\ slots[e.id] # NoSlot
                      /\ slots[e.id] \in TimerSlot /\ e.deadline <= clock /\ e \in heap
    BY DEF Expired
  <2>1. e \in heap /\ e.deadline <= now /\ e.id \in TimerIds /\ e.deadline \in Nat /\ now \in Nat
    BY ElementTypes DEF Expired, TimerInv
  <2>2. clock \in Nat
    BY ElementTypes DEF TimerInv, TypeOK
  <2> QED
    BY <2>1, <2>2 DEF TimerInv, EntryInv, TypeOK
<1>4. \A e \in heap' : e \in heap /\ e.id \notin ids
  BY <1>1 DEF TimerInv, EntryInv, Expired
<1>5. \A i \in dead : i \in ids /\ slots[i].cancelled
  OBVIOUS
<1>6. /\ n \in Nat /\ free_slots \in Seq(TimerIds)
      /\ \A k \in 1 .. n : /\ free_slots[k] \in TimerIds /\ free_slots[k] < nslots
                            /\ slots[free_slots[k]] = NoSlot
      /\ \A i, j \in 1 .. n : free_slots[i] = free_slots[j] => i = j
  BY ElementTypes DEF TimerInv, TypeOK, FreeInv
<1>7. \A i \in ids \ dead : ~slots[i].cancelled
  OBVIOUS
<1> DEFINE m == Cardinality(dead)
<1>8. m \in Nat /\ order \in [1 .. m -> dead] /\ \A i, j \in 1 .. m : i # j => order[i] # order[j]
  <2>1. dead \subseteq 0 .. MaxSlots - 1
    BY <1>3 DEF TimerIds
  <2>2. IsFiniteSet(0 .. MaxSlots - 1)
    BY TimerBounds, FS_Interval
  <2>3. m \in Nat
    <3> HIDE DEF dead
    <3> QED
      BY <2>1, <2>2, FS_Subset, FS_CardinalityType
  <2> QED
    BY <1>2, <2>3 DEF SetToSeqs
<1>9. \A i \in TimerIds :
        slots'[i] = IF i \in dead THEN NoSlot
                    ELSE IF i \in ids THEN [slots[i] EXCEPT !.fired = TRUE, !.has_waker = FALSE]
                    ELSE slots[i]
  BY <1>1
<1>10. heap' \subseteq heap /\ nslots' = nslots /\ sleep' = sleep /\ clock' = clock
  BY <1>1
<1>10a. \A e \in heap : e.id \in TimerIds /\ e \in Entries
  BY ElementTypes DEF TimerInv
<1>10b. \A s \in Sleeps : sleep[s].id \in TimerIds
  BY ElementTypes DEF TimerInv
<1> HIDE DEF ids, dead, m, n
<1>11. \A i \in TimerIds : i \in ids \ dead =>
         /\ slots'[i] \in TimerSlot /\ slots'[i].fired /\ ~slots'[i].cancelled /\ slots'[i] # NoSlot
  <2> SUFFICES ASSUME NEW i \in ids \ dead
               PROVE  /\ slots'[i] \in TimerSlot /\ slots'[i].fired /\ ~slots'[i].cancelled
                      /\ slots'[i] # NoSlot
    OBVIOUS
  <2>1. /\ slots'[i] = [slots[i] EXCEPT !.fired = TRUE, !.has_waker = FALSE]
        /\ slots[i] \in TimerSlot /\ ~slots[i].cancelled
    BY <1>3, <1>7, <1>9
  <2>2. slots'[i] \in TimerSlot
    BY <2>1, SlotTypes
  <2> QED
    BY <2>1, <2>2, NoSlotAssumption DEF TimerSlot
<1>12. slots' \in [TimerIds -> TimerSlot \cup {NoSlot}]
  <2>1. \A i \in TimerIds : slots'[i] \in TimerSlot \cup {NoSlot}
    BY <1>5, <1>9, <1>11 DEF TimerInv, TypeOK
  <2> QED
    BY <2>1, <1>1
<1>13. /\ order \in Seq(TimerIds) /\ Len(order) = m
       /\ \A k \in 1 .. m : /\ order[k] \in dead /\ order[k] \in TimerIds
                             /\ order[k] < nslots /\ slots[order[k]] # NoSlot
  BY <1>3, <1>5, <1>8
<1>14. /\ free_slots' \in Seq(TimerIds) /\ Len(free_slots') = n + m
       /\ \A k \in 1 .. n : free_slots'[k] = free_slots[k]
       /\ \A k \in 1 .. m : free_slots'[n + k] = order[k]
       /\ \A k \in 1 .. n + m : k \in 1 .. n \/ \E l \in 1 .. m : k = n + l
  <2>1. /\ free_slots' \in Seq(TimerIds) /\ Len(free_slots') = n + m
        /\ \A k \in 1 .. n + m : free_slots'[k] = IF k <= n THEN free_slots[k] ELSE order[k - n]
    <3>1. /\ free_slots' \in Seq(TimerIds) /\ Len(free_slots') = Len(free_slots) + Len(order)
          /\ \A k \in 1 .. Len(free_slots) + Len(order) :
               free_slots'[k] = IF k <= Len(free_slots) THEN free_slots[k]
                                ELSE order[k - Len(free_slots)]
      <4>1. free_slots' = free_slots \o order /\ free_slots \in Seq(TimerIds) /\ order \in Seq(TimerIds)
        BY <1>2, <1>6, <1>13
      <4> QED
        BY ONLY <4>1, ConcatProperties
    <3> QED
      BY <3>1, <1>13 DEF n
  <2>2. \A k \in 1 .. n : k \in 1 .. n + m /\ k <= n
    BY <1>6, <1>8
  <2>3. \A k \in 1 .. m : n + k \in 1 .. n + m /\ ~(n + k <= n) /\ (n + k) - n = k
    BY <1>6, <1>8
  <2>4. \A k \in 1 .. m : free_slots'[n + k] = order[k]
    BY <2>1, <2>3
  <2>5. \A k \in 1 .. n + m : k \in 1 .. n \/ (k - n \in 1 .. m /\ k = n + (k - n))
    BY <1>6, <1>8
  <2> QED
    BY <2>1, <2>2, <2>4, <2>5
<1>15. FreeInv'
  <2>1. \A k \in 1 .. n, l \in 1 .. m : free_slots[k] # order[l]
    BY <1>6, <1>13
  <2>2. ASSUME NEW i \in 1 .. n + m, NEW j \in 1 .. n + m, free_slots'[i] = free_slots'[j]
        PROVE  i = j
    <3>1. CASE i \in 1 .. n /\ j \in 1 .. n
      BY <2>2, <3>1, <1>6, <1>14
    <3>2. ASSUME NEW a \in 1 .. m, NEW b \in 1 .. m, i = n + a, j = n + b PROVE i = j
      BY <2>2, <3>2, <1>8, <1>14
    <3>3. ASSUME NEW a \in 1 .. m, i = n + a, j \in 1 .. n PROVE FALSE
      BY <2>2, <3>3, <2>1, <1>14
    <3>4. ASSUME NEW a \in 1 .. m, j = n + a, i \in 1 .. n PROVE FALSE
      BY <2>2, <3>4, <2>1, <1>14
    <3> QED
      BY <3>1, <3>2, <3>3, <3>4, <1>14
  <2>3. ASSUME NEW k \in 1 .. n + m
        PROVE  free_slots'[k] < nslots' /\ slots'[free_slots'[k]] = NoSlot
    <3>1. CASE k \in 1 .. n
      <4>1. free_slots[k] \notin ids
        BY <3>1, <1>3, <1>6
      <4>2. slots'[free_slots[k]] = slots[free_slots[k]]
        BY <3>1, <4>1, <1>5, <1>6, <1>9
      <4>3. free_slots'[k] = free_slots[k]
        BY <3>1, <1>14
      <4> QED
        BY <3>1, <4>2, <4>3, <1>6, <1>10
    <3>2. ASSUME NEW a \in 1 .. m, k = n + a
          PROVE  free_slots'[k] < nslots' /\ slots'[free_slots'[k]] = NoSlot
      <4>1. free_slots'[k] = order[a]
        BY <3>2, <1>14
      <4>2. slots'[order[a]] = NoSlot
        BY <3>2, <1>9, <1>13
      <4> QED
        BY <4>1, <4>2, <1>10, <1>13
    <3> QED
      BY <3>1, <3>2, <1>14
  <2> QED
    BY <2>2, <2>3, <1>14 DEF FreeInv
<1>16. EntryInv'
  <2>1. \A e \in heap' : e \in heap /\ slots'[e.id] = slots[e.id]
    BY <1>4, <1>5, <1>9, <1>10a
  <2> QED
    BY <2>1, <1>10 DEF TimerInv, EntryInv
<1>17. SleepInv'
  <2> SUFFICES ASSUME NEW s \in Sleeps, Registered(s)
               PROVE  /\ sleep[s].id < nslots /\ slots'[sleep[s].id] # NoSlot
                      /\ ~slots'[sleep[s].id].cancelled
                      /\ slots'[sleep[s].id].fired => sleep[s].deadline <= clock
                      /\ \A e \in heap' : e.id = sleep[s].id => e.deadline = sleep[s].deadline
                      /\ \A t \in Sleeps : t # s /\ Registered(t) => sleep[t].id # sleep[s].id
    BY <1>10 DEF SleepInv, Registered
  <2> DEFINE id == sleep[s].id
  <2>1. /\ id \in TimerIds /\ id < nslots /\ slots[id] # NoSlot /\ ~slots[id].cancelled
        /\ slots[id].fired => sleep[s].deadline <= clock
        /\ \A e \in heap : e.id = id => e.deadline = sleep[s].deadline
        /\ \A t \in Sleeps : t # s /\ Registered(t) => sleep[t].id # id
    BY <1>10b DEF TimerInv, SleepInv
  <2> HIDE DEF id
  <2>2. id \notin dead
    BY <2>1, <1>5
  <2>3. CASE id \in ids
    <3>1. sleep[s].deadline <= clock
      BY <2>1, <2>3, <1>3
    <3> QED
      BY <2>1, <2>2, <2>3, <3>1, <1>10, <1>11 DEF id
  <2>4. CASE id \notin ids
    <3>1. slots'[id] = slots[id]
      BY <2>1, <2>2, <2>4, <1>9
    <3> QED
      BY <2>1, <3>1, <1>10 DEF id
  <2> QED
    BY <2>3, <2>4
<1> QED
  BY <1>1, <1>10, <1>10a, <1>12, <1>14, <1>15, <1>16, <1>17 DEF SlotsInv

LEMMA ProcessKeeps ==
  ASSUME TimerInv, NEW room \in BOOLEAN, Process(room)
  PROVE  TimerInv'
<1>0. /\ UNCHANGED <<nslots, sleep, clock>> /\ TypeOK /\ clock \in Nat
      /\ wake_at \in [st : WakeAtStates, deadline : Times, now : Times]
  BY ElementTypes DEF Process, TimerInv, TypeOK
<1>1. SlotsInv'
  <2>1. CASE wake_at.st = "answered" /\ fire_expired(wake_at.now)
    BY <2>1, <1>0, FireKeeps, ElementTypes DEF TimerInv, NowIsPast
  <2>2. CASE UNCHANGED <<heap, slots, free_slots, woken>>
    <3>1. FreeInv' /\ EntryInv'
      BY <2>2, <1>0 DEF TimerInv, FreeInv, EntryInv
    <3>2. SleepInv'
      BY <2>2, <1>0 DEF TimerInv, SleepInv, Registered
    <3> QED
      BY <2>2, <3>1, <3>2 DEF TimerInv, TypeOK, SlotsInv
  <2> QED
    BY <2>1, <2>2 DEF Process
<1>2. /\ wake_at' \in [st : WakeAtStates, deadline : Times, now : Times]
      /\ WakeAtCoversEarliest' /\ NowIsPast'
  <2>1. CASE wake_at' = Schedule(heap', room)
    <3>1. heap' \in SUBSET Entries
      BY <1>1 DEF SlotsInv
    <3> QED
      BY <1>0, <2>1, <3>1, ScheduleCovers DEF WakeAtCoversEarliest, NowIsPast
  <2>2. CASE /\ wake_at.st = "created" /\ wake_at' = [wake_at EXCEPT !.st = "submitted"]
             /\ heap' = heap
    <3>1. wake_at'.st = "submitted" /\ wake_at'.deadline = wake_at.deadline /\ wake_at'.now = wake_at.now
      BY <1>0, <2>2
    <3>2. wake_at' \in [st : WakeAtStates, deadline : Times, now : Times]
      BY <1>0, <2>2 DEF WakeAtStates
    <3> QED
      BY <1>0, <2>2, <3>1, <3>2 DEF TimerInv, WakeAtCoversEarliest, NowIsPast
  <2> QED
    BY <2>1, <2>2 DEF Process
<1>3. TypeOK'
  BY <1>0, <1>1, <1>2 DEF TypeOK, SlotsInv
<1> QED
  BY <1>1, <1>2, <1>3 DEF TimerInv, SlotsInv

-----------------------------------------------------------------------------
(* The host.                                                               *)

LEMMA HostKeeps ==
  ASSUME TimerInv, Tick \/ Answer(clock) \/ Answer(0) \/ AnswerError
  PROVE  TimerInv'
<1>0. /\ UNCHANGED <<heap, slots, nslots, free_slots, sleep, woken>> /\ TypeOK
      /\ clock \in Times /\ clock \in Nat /\ 0 \in Times
      /\ wake_at \in [st : WakeAtStates, deadline : Times, now : Times]
  BY TimerBounds DEF Tick, Answer, AnswerError, TimerInv, TypeOK, Times
<1>1. /\ clock' \in Times /\ clock <= clock' /\ clock' \in Nat
      /\ wake_at'.deadline = wake_at.deadline /\ (wake_at.st # "idle" => wake_at'.st # "idle")
      /\ wake_at' \in [st : WakeAtStates, deadline : Times, now : Times]
      /\ wake_at'.now \in {wake_at.now, clock, 0}
  <2>1. CASE Tick
    BY <1>0, <2>1, TimerBounds DEF Tick, Times
  <2>2. ASSUME NEW now \in {clock, 0}, Answer(now)
        PROVE  /\ clock' = clock
               /\ wake_at'.deadline = wake_at.deadline /\ wake_at'.st # "idle"
               /\ wake_at' \in [st : WakeAtStates, deadline : Times, now : Times]
               /\ wake_at'.now \in {wake_at.now, clock, 0}
    BY <1>0, <2>2 DEF Answer, WakeAtStates
  <2>3. CASE AnswerError
    BY <1>0, <2>3 DEF AnswerError, WakeAtStates
  <2> QED
    BY <1>0, <2>1, <2>2, <2>3
<1>2. NowIsPast' /\ WakeAtCoversEarliest'
  <2>1. wake_at.now \in Nat /\ wake_at.now <= clock
    BY ElementTypes DEF TimerInv, NowIsPast
  <2>2. NowIsPast'
    BY <1>0, <1>1, <2>1 DEF NowIsPast
  <2>3. WakeAtCoversEarliest'
    BY <1>0, <1>1 DEF TimerInv, WakeAtCoversEarliest
  <2> QED
    BY <2>2, <2>3
<1>3. FreeInv' /\ EntryInv'
  BY <1>0 DEF TimerInv, FreeInv, EntryInv
<1>4. SleepInv'
  <2>1. \A s \in Sleeps : sleep[s].deadline \in Nat
    BY ElementTypes DEF TimerInv
  <2>2. \A s \in Sleeps : sleep[s].deadline <= clock => sleep[s].deadline <= clock'
    BY <1>0, <1>1, <2>1
  <2> QED
    BY <1>0, <2>2 DEF TimerInv, SleepInv, Registered
<1>5. TypeOK'
  BY <1>0, <1>1 DEF TypeOK
<1> QED
  BY <1>2, <1>3, <1>4, <1>5 DEF TimerInv

-----------------------------------------------------------------------------
(* The theorems.                                                           *)

LEMMA InitTimerInv == Init => TimerInv
<1> SUFFICES ASSUME Init PROVE TimerInv
  OBVIOUS
<1>1. TypeOK
  BY RecordTypes, TimerBounds, EmptySeq DEF Init, TypeOK, Times
<1>2. Len(free_slots) = 0 /\ heap = {} /\ wake_at.now = 0 /\ clock = 0
  BY EmptySeq DEF Init, Idle
<1>3. \A s \in Sleeps : ~Registered(s)
  BY DEF Init, NoSleep, Registered
<1> QED
  BY <1>1, <1>2, <1>3 DEF TimerInv, FreeInv, EntryInv, SleepInv, NowIsPast, WakeAtCoversEarliest

LEMMA NextTimerInv == TimerInv /\ [Next]_vars => TimerInv'
<1> SUFFICES ASSUME TimerInv, [Next]_vars PROVE TimerInv'
  OBVIOUS
<1>1. ASSUME NEW s \in Sleeps, NEW d \in Times, Sleep(s, d) PROVE TimerInv'
  BY <1>1, SleepKeeps
<1>2. ASSUME NEW s \in Sleeps, PollFired(s) PROVE TimerInv'
  BY <1>2, PollFiredKeeps
<1>3. ASSUME NEW s \in Sleeps, PollWaits(s) PROVE TimerInv'
  BY <1>3, PollWaitsKeeps
<1>4. ASSUME NEW s \in Sleeps, Drop(s) PROVE TimerInv'
  BY <1>4, DropKeeps
<1>5. ASSUME NEW room \in BOOLEAN, Process(room) PROVE TimerInv'
  BY <1>5, ProcessKeeps
<1>6. CASE Tick \/ Answer(clock) \/ Answer(0) \/ AnswerError
  BY <1>6, HostKeeps
<1>7. CASE UNCHANGED vars
  BY <1>7 DEF vars, TimerInv, TypeOK, FreeInv, EntryInv, SleepInv, Registered, NowIsPast,
     WakeAtCoversEarliest
<1> QED
  BY <1>1, <1>2, <1>3, <1>4, <1>5, <1>6, <1>7 DEF Next, Poll

\* The heap, the slots, the WakeAt and the sleeps keep their types.
THEOREM TypeSafe == Spec => []TypeOK
<1>1. TimerInv => TypeOK
  BY DEF TimerInv
<1> QED
  BY InitTimerInv, NextTimerInv, <1>1, PTL DEF Spec

\* SleepFuture::poll is never ready before the deadline, and never by the
\* firing of another sleep's slot.
THEOREM SleepsEndInTime == Spec => []NeverEarly
<1>1. TimerInv => NeverEarly
  BY DEF TimerInv, SleepInv, NeverEarly, Registered
<1> QED
  BY InitTimerInv, NextTimerInv, <1>1, PTL DEF Spec

\* After register, process, an answer or its failure there is a WakeAt for
\* every entry of the heap, and it is not too late for any of them.
THEOREM OneWakeAtIsEnough == Spec => []WakeAtCoversEarliest
<1>1. TimerInv => WakeAtCoversEarliest
  BY DEF TimerInv
<1> QED
  BY InitTimerInv, NextTimerInv, <1>1, PTL DEF Spec
=============================================================================
