------------------------- MODULE HostChannelProofs -------------------------
(***************************************************************************)
(* What holds of HostChannel for any number of futures, tasks, slots and   *)
(* operations: its types, that an answer reaches only the future whose     *)
(* operation it answers, that every freed slot is in the free list once,   *)
(* that the host takes requests in order and only wanted ones, and that a  *)
(* future waiting for room in the queue is registered.                     *)
(***************************************************************************)
EXTENDS HostChannel, FiniteSetTheorems, SequenceTheorems, NaturalsInduction,
        WellFoundedInduction, TLAPS

-----------------------------------------------------------------------------
(* The inductive invariant.                                                *)

\* The requests somebody still holds the ID of: the queue, the host, or the
\* future that submitted them.
Issued(r) ==
  \/ \E i \in 1 .. Len(pending_requests) : pending_requests[i] = r
  \/ r \in taken
  \/ \E f \in Futures : /\ fut[f].st \in {"submitted", "ready"}
                        /\ fut[f].id = r.id /\ fut[f].op = r.op

\* Slots and generations grow with the operations submitted, so neither runs
\* out within the bounds; freed indices lie within the vector.
Growth ==
  /\ nslots <= ops
  /\ \A i \in Index : generation[i] <= ops
  /\ \A k \in 1 .. Len(free_slots) : free_slots[k] < nslots

\* No ID is ahead of its slot, hence the next ID of a slot is new.
IdsAreOld ==
  \A r \in Requests : Issued(r) => r.id.idx < nslots /\ r.id.gen <= generation[r.id.idx]

\* One ID, one operation.
IdsAreUnique ==
  \A q, r \in Requests : Issued(q) /\ Issued(r) /\ q.id = r.id => q.op = r.op

\* A stored result answers the operation that the slot's present ID names.
StoredMatch ==
  \A r \in Requests :
    Issued(r) /\ Occupied(r.id) /\ slots[r.id.idx].result # NoResult
      => slots[r.id.idx].result.op = r.op

\* Between polls no future is left to poll.
OnlyPolled == running = NoTask => todo = {}

\* A future holds a result once it is ready, not before.
GotWhenReady == \A f \in Futures : fut[f].got # NoResult => fut[f].st = "ready"

\* A submitted future has an operation.
SubmittedHasOp ==
  \A f \in Futures : fut[f].st \in {"submitted", "ready"} => fut[f].op \in 1 .. MaxOps

IdInv == Growth /\ OnlyPolled /\ SubmittedHasOp /\ IdsAreOld /\ IdsAreUnique /\ StoredMatch /\ GotWhenReady /\ AnswersMatch

Inv == TypeOK /\ IdInv

-----------------------------------------------------------------------------
(* The slots: what allocating and freeing one returns and keeps.           *)

SlotsOK ==
  /\ slots \in [Index -> Slot \cup {NoSlot}]
  /\ generation \in [Index -> 0 .. GenMax]
  /\ nslots \in 0 .. MaxOps
  /\ free_slots \in Seq(Index)
  /\ \A k \in 1 .. Len(free_slots) : free_slots[k] < nslots

\* A freed slot is one of the vector.
LEMMA FreeSlot ==
  ASSUME TypeOK, Growth, NEW id \in Ids, Occupied(id), free_slot(id)
  PROVE  SlotsOK'
<1>1. id.idx \in Index /\ id.idx < nslots
  BY DEF Ids, Occupied, is_valid_id
<1>2. /\ free_slots' \in Seq(Index)
      /\ Len(free_slots') = Len(free_slots) + 1
      /\ \A k \in 1 .. Len(free_slots) : free_slots'[k] = free_slots[k]
      /\ free_slots'[Len(free_slots) + 1] = id.idx
  BY <1>1, AppendProperties DEF TypeOK, free_slot
<1>3. \A k \in 1 .. Len(free_slots') : free_slots'[k] < nslots'
  <2>1. Len(free_slots) \in Nat
    BY DEF TypeOK
  <2> QED
    BY <1>1, <1>2, <2>1 DEF Growth, free_slot
<1>4. /\ slots' \in [Index -> Slot \cup {NoSlot}]
      /\ generation' \in [Index -> 0 .. GenMax]
      /\ nslots' \in 0 .. MaxOps
  BY DEF TypeOK, free_slot
<1> QED
  BY <1>2, <1>3, <1>4 DEF SlotsOK

\* An allocated ID is newer than the last one of its slot; the generation does
\* not wrap within the bounds.
LEMMA AllocatedIdType ==
  ASSUME TypeOK, Growth, ops < MaxOps
  PROVE  /\ AllocatedId \in Ids
         /\ AllocatedId.idx = AllocatedIndex
         /\ AllocatedIndex \in Index
         /\ AllocatedId.gen \in 1 .. ops + 1
         /\ AllocatedIndex < nslots => AllocatedId.gen = generation[AllocatedIndex] + 1
         /\ AllocatedIndex < IF Reuse THEN nslots ELSE nslots + 1
         /\ ~Reuse => AllocatedIndex = nslots
<1> USE BoundsAssumption
<1>1. CASE Reuse
  <2>1. Len(free_slots) \in 1 .. Len(free_slots)
    BY <1>1 DEF Reuse, TypeOK
  <2>2. AllocatedIndex = free_slots[Len(free_slots)]
    BY <1>1 DEF AllocatedIndex
  <2>3. AllocatedIndex \in Index /\ AllocatedIndex < nslots
    BY <2>1, <2>2, ElementOfSeq DEF TypeOK, Growth
  <2>4. generation[AllocatedIndex] \in 0 .. GenMax - 1 /\ generation[AllocatedIndex] <= ops
    BY <2>3 DEF TypeOK, Growth
  <2>5. AllocatedId = [idx |-> AllocatedIndex, gen |-> generation[AllocatedIndex] + 1]
    BY <1>1, <2>4 DEF AllocatedId, wrapping_next
  <2>6. AllocatedId \in Ids
    BY <2>3, <2>4, <2>5 DEF Ids
  <2> QED
    BY <1>1, <2>3, <2>4, <2>5, <2>6 DEF TypeOK
<1>2. CASE ~Reuse
  <2>1. AllocatedIndex = nslots /\ AllocatedId = [idx |-> nslots, gen |-> 1]
    BY <1>2 DEF AllocatedIndex, AllocatedId
  <2>2. nslots \in Index
    BY DEF TypeOK, Growth, Index
  <2>3. 1 \in 0 .. GenMax
    OBVIOUS
  <2>4. AllocatedId \in Ids
    BY <2>1, <2>2, <2>3 DEF Ids
  <2> QED
    BY <1>2, <2>1, <2>2, <2>4 DEF TypeOK, Index
<1> QED
  BY <1>1, <1>2

\* allocate_id keeps the types and the vector's bounds.
LEMMA AllocateId ==
  ASSUME TypeOK, Growth, ops < MaxOps, NEW slot \in Slot, allocate_id(slot)
  PROVE  /\ SlotsOK'
         /\ nslots' <= ops + 1 /\ nslots <= nslots'
         /\ AllocatedIndex < nslots'
         /\ \A i \in Index : generation'[i] <= ops + 1
         /\ generation'[AllocatedIndex] = AllocatedId.gen
         /\ \A i \in Index : i # AllocatedIndex => generation'[i] = generation[i]
         /\ slots'[AllocatedIndex] = slot
         /\ \A i \in Index : i # AllocatedIndex => slots'[i] = slots[i]
<1> USE BoundsAssumption
<1>1. AllocatedIndex \in Index /\ AllocatedId.gen \in 0 .. GenMax /\ AllocatedId.gen <= ops + 1
  BY AllocatedIdType DEF TypeOK
<1>2. slots' \in [Index -> Slot \cup {NoSlot}] /\ generation' \in [Index -> 0 .. GenMax]
  BY <1>1 DEF allocate_id, TypeOK
<1>3. nslots' \in 0 .. MaxOps /\ nslots' <= ops + 1 /\ nslots <= nslots' /\ AllocatedIndex < nslots'
  BY AllocatedIdType DEF allocate_id, TypeOK, Growth
<1>4. free_slots' \in Seq(Index) /\ \A k \in 1 .. Len(free_slots') : free_slots'[k] < nslots'
  <2>1. CASE Reuse
    <3>1. free_slots' = SubSeq(free_slots, 1, Len(free_slots) - 1)
      BY <2>1 DEF allocate_id
    <3>2. \A k \in 1 .. Len(free_slots) - 1 : free_slots[k] \in Index /\ free_slots[k] < nslots
      BY DEF TypeOK, Growth
    <3>3. /\ free_slots' \in Seq(Index)
          /\ Len(free_slots') = IF 1 <= Len(free_slots) - 1 THEN Len(free_slots) - 1 ELSE 0
          /\ \A k \in 1 .. Len(free_slots) - 1 : free_slots'[k] = free_slots[k]
      BY <3>1, <3>2, SubSeqProperties DEF TypeOK
    <3>4. \A k \in 1 .. Len(free_slots') : k \in 1 .. Len(free_slots) - 1
      BY <3>3 DEF TypeOK
    <3>5. ASSUME NEW k \in 1 .. Len(free_slots') PROVE free_slots'[k] < nslots'
      <4>1. free_slots'[k] = free_slots[k] /\ free_slots[k] \in Index /\ free_slots[k] < nslots
        BY <3>2, <3>3, <3>4
      <4> QED
        BY <4>1, <1>3 DEF TypeOK, Index
    <3> QED
      BY <3>3, <3>5
  <2>2. CASE ~Reuse
    BY <2>2, <1>3 DEF Reuse, allocate_id, TypeOK
  <2> QED
    BY <2>1, <2>2
<1>5. \A i \in Index : i # AllocatedIndex => generation'[i] = generation[i] /\ slots'[i] = slots[i]
  BY <1>1 DEF allocate_id, TypeOK
<1>6. generation'[AllocatedIndex] = AllocatedId.gen /\ slots'[AllocatedIndex] = slot
  BY <1>1 DEF allocate_id, TypeOK
<1>7. \A i \in Index : generation'[i] <= ops + 1
  <2>1. ASSUME NEW i \in Index, i # AllocatedIndex PROVE generation'[i] <= ops + 1
    <3>1. generation'[i] = generation[i] /\ generation[i] <= ops /\ generation[i] \in Nat
      BY <2>1, <1>5 DEF Growth, TypeOK
    <3> QED
      BY <3>1 DEF TypeOK
  <2> QED
    BY <2>1, <1>1, <1>6
<1> QED
  BY <1>2, <1>3, <1>4, <1>5, <1>6, <1>7 DEF SlotsOK

\* take_pending pops at least one request, and no more than there are.
LEMMA PopBounds ==
  ASSUME TypeOK, pending_requests # <<>>
  PROVE  /\ Cardinality(Skipped) \in 0 .. Len(pending_requests)
         /\ Popped \in 1 .. Len(pending_requests)
<1> DEFINE all == 1 .. Len(pending_requests)
<1>1. Len(pending_requests) \in Nat \ {0}
  BY EmptySeq DEF TypeOK
<1>2. IsFiniteSet(all) /\ Cardinality(all) = Len(pending_requests)
  BY <1>1, FS_Interval
<1>3. Skipped \in SUBSET all
  BY DEF Skipped
<1>4. /\ IsFiniteSet(Skipped)
      /\ Cardinality(Skipped) <= Cardinality(all)
      /\ Cardinality(all) = Cardinality(Skipped) => all = Skipped
  BY <1>2, <1>3, FS_Subset
<1>5. Cardinality(Skipped) \in Nat
  BY <1>4, FS_CardinalityType
<1> QED
  BY <1>1, <1>2, <1>4, <1>5 DEF Popped

\* take_pending's frees keep the types and the vector's bounds.
LEMMA TakeSlots ==
  ASSUME TypeOK, Growth, IdsAreOld, TakePending
  PROVE  /\ SlotsOK'
         /\ \A i \in Index : slots'[i] = slots[i] \/ slots'[i] = NoSlot
<1> DEFINE n == Cardinality(Skipped)
<1>1. n \in 0 .. Len(pending_requests) /\ Len(pending_requests) \in Nat
  BY PopBounds DEF TakePending, TypeOK
<1>2. \A i \in 1 .. Len(pending_requests) :
        /\ pending_requests[i].id.idx \in Index
        /\ pending_requests[i].id.idx < nslots
  <2>1. ASSUME NEW i \in 1 .. Len(pending_requests)
        PROVE  pending_requests[i] \in Requests /\ Issued(pending_requests[i])
    BY <2>1, ElementOfSeq DEF TypeOK, Issued
  <2> QED
    BY <2>1 DEF IdsAreOld, Requests, Ids
<1>3. FreedIndices = [i \in 1 .. n |-> pending_requests[i].id.idx]
  BY DEF FreedIndices
<1>4. FreedIndices \in Seq(Index) /\ Len(FreedIndices) = n
  BY <1>1, <1>2, <1>3, IsASeq
<1>5. \A i \in 1 .. n : FreedIndices[i] < nslots
  BY <1>1, <1>2, <1>3
<1>6. free_slots' = free_slots \o FreedIndices /\ free_slots \in Seq(Index)
  BY DEF TakePending, TypeOK
<1>7. /\ free_slots' \in Seq(Index)
      /\ Len(free_slots') = Len(free_slots) + n
      /\ \A k \in 1 .. Len(free_slots) + n :
           free_slots'[k] = IF k <= Len(free_slots) THEN free_slots[k]
                            ELSE FreedIndices[k - Len(free_slots)]
  BY <1>4, <1>6, ConcatProperties
<1>8. ASSUME NEW k \in 1 .. Len(free_slots') PROVE free_slots'[k] < nslots'
  <2>1. nslots' = nslots /\ Len(free_slots) \in Nat
    BY <1>6 DEF TakePending
  <2>2. CASE k <= Len(free_slots)
    <3>1. k \in 1 .. Len(free_slots) /\ k \in 1 .. Len(free_slots) + n
      BY <2>2, <1>7, <2>1
    <3> QED
      BY <2>2, <3>1, <1>7, <2>1 DEF Growth
  <2>3. CASE k > Len(free_slots)
    <3>1. k - Len(free_slots) \in 1 .. n /\ k \in 1 .. Len(free_slots) + n /\ ~(k <= Len(free_slots))
      BY <2>3, <1>7, <1>1, <2>1
    <3> QED
      BY <3>1, <1>5, <1>7, <2>1
  <2> QED
    BY <2>1, <2>2, <2>3
<1>9. /\ slots' \in [Index -> Slot \cup {NoSlot}]
      /\ \A i \in Index : slots'[i] = slots[i] \/ slots'[i] = NoSlot
  BY DEF TakePending, TypeOK
<1> QED
  BY <1>7, <1>8, <1>9 DEF SlotsOK, TakePending, TypeOK

\* Storing a result keeps the types of the slots.
LEMMA SetResultSlots ==
  ASSUME TypeOK, Growth, NEW id \in Ids, NEW result \in Results, NEW slot \in Slot,
         SetResult(id, result, slot)
  PROVE  /\ SlotsOK'
         /\ woken' \subseteq Tasks
         /\ slots' = [slots EXCEPT ![id.idx] =
                        [slot EXCEPT !.result = result, !.waker = NoTask]]
<1>1. [slot EXCEPT !.result = result, !.waker = NoTask] \in Slot
  BY DEF Slot
<1>2. slots' \in [Index -> Slot \cup {NoSlot}]
  BY <1>1 DEF SetResult, TypeOK
<1>3. slot.waker \in Tasks \cup {NoTask}
  BY DEF Slot
<1>4. woken' \subseteq Tasks
  BY <1>3 DEF SetResult, Wake, TypeOK
<1> QED
  BY <1>2, <1>4 DEF SetResult, SlotsOK, TypeOK, Growth

-----------------------------------------------------------------------------
(* Types and growth.                                                       *)

LEMMA InitType == Init => TypeOK /\ Growth
<1> SUFFICES ASSUME Init PROVE TypeOK /\ Growth
  OBVIOUS
<1> USE BoundsAssumption
<1>1. fut \in [Futures -> Future]
  <2>1. NoFuture \in Future
    BY DEF NoFuture, Future, FutureStates, NoId, Ids, Index
  <2> QED
    BY <2>1 DEF Init
<1>2. /\ pending_requests \in Seq(Requests) /\ free_slots \in Seq(Index)
      /\ submit_wakers \in Seq(Tasks) /\ Len(free_slots) = 0
  BY EmptySeq DEF Init
<1>3. slots \in [Index -> Slot \cup {NoSlot}] /\ generation \in [Index -> 0 .. GenMax]
  BY DEF Init
<1> QED
  BY <1>1, <1>2, <1>3 DEF Init, TypeOK, Growth

\* With the slots in order, an action that submits nothing keeps the bounds.
LEMMA SameGrowth ==
  ASSUME TypeOK, Growth, SlotsOK', UNCHANGED <<ops, generation, nslots>>
  PROVE  Growth'
BY DEF Growth, SlotsOK

LEMMA SlotsStay ==
  ASSUME TypeOK, Growth, UNCHANGED slotVars
  PROVE  SlotsOK'
BY DEF TypeOK, Growth, SlotsOK, slotVars

LEMMA NoFutureType == NoFuture \in Future /\ [NoFuture EXCEPT !.st = "pending"] \in Future
BY BoundsAssumption DEF NoFuture, Future, FutureStates, NoId, Ids, Index

\* The futures' and the tasks' side.
FutOK ==
  /\ fut \in [Futures -> Future]
  /\ running \in Tasks \cup {NoTask} /\ todo \subseteq Futures /\ woken \subseteq Tasks
  /\ pending_requests \in Seq(Requests) /\ submit_wakers \in Seq(Tasks)
  /\ taken \subseteq Requests /\ ops \in 0 .. MaxOps

LEMMA JoinType ==
  ASSUME FutOK', SlotsOK'
  PROVE  TypeOK'
BY DEF TypeOK, FutOK, SlotsOK

LEMMA PollSubmitType ==
  ASSUME TypeOK, Growth, NEW f \in Futures, PollSubmit(f)
  PROVE  TypeOK' /\ Growth'
<1> DEFINE req == [id |-> AllocatedId, op |-> ops + 1]
<1> DEFINE slot == [result |-> NoResult, buffer |-> 0, overflow |-> FALSE,
                    waker |-> running, cancelled |-> FALSE]
<1>1. ops < MaxOps /\ allocate_id(slot) /\ ops + 1 \in 1 .. MaxOps /\ ops' = ops + 1
  BY BoundsAssumption DEF PollSubmit, Enqueued, TypeOK
<1>2. slot \in Slot
  BY BoundsAssumption DEF Slot, TypeOK
<1>3. SlotsOK' /\ nslots' <= ops + 1 /\ \A i \in Index : generation'[i] <= ops + 1
  BY <1>1, <1>2, AllocateId
<1>4. AllocatedId \in Ids
  BY <1>1, AllocatedIdType
<1>5. req \in Requests
  BY <1>1, <1>4 DEF Requests
<1>6. pending_requests' \in Seq(Requests)
  BY <1>5, AppendProperties DEF PollSubmit, Enqueued, TypeOK
<1>7. fut' \in [Futures -> Future]
  <2>1. [fut[f] EXCEPT !.st = "submitted", !.id = AllocatedId, !.op = ops + 1] \in Future
    <3>1. fut[f] \in Future /\ ops + 1 \in 0 .. MaxOps
      BY <1>1, BoundsAssumption DEF TypeOK
    <3> QED
      BY <3>1, <1>4 DEF Future, FutureStates
  <2>2. fut' = [fut EXCEPT ![f] =
                  [fut[f] EXCEPT !.st = "submitted", !.id = AllocatedId, !.op = ops + 1]]
    BY DEF PollSubmit, Enqueued, TypeOK
  <2> QED
    BY <2>1, <2>2 DEF TypeOK
<1>8. FutOK'
  BY <1>1, <1>6, <1>7 DEF PollSubmit, Enqueued, FutOK, TypeOK
<1>9. TypeOK'
  BY <1>3, <1>8, JoinType
<1> QED
  BY <1>1, <1>3, <1>9 DEF Growth, SlotsOK

\* A future's record with a new state, or a new result, is one again.
LEMMA FutureUpdates ==
  ASSUME TypeOK, NEW f \in Futures
  PROVE  /\ \A st \in FutureStates :
              [fut EXCEPT ![f].st = st] \in [Futures -> Future]
         /\ \A st \in FutureStates, got \in Results \cup {NoResult} :
              [fut EXCEPT ![f].st = st, ![f].got = got] \in [Futures -> Future]
         /\ [fut EXCEPT ![f] = NoFuture] \in [Futures -> Future]
         /\ [fut EXCEPT ![f] = [NoFuture EXCEPT !.st = "pending"]] \in [Futures -> Future]
<1>1. fut[f] \in Future /\ fut \in [Futures -> Future]
  BY DEF TypeOK
<1>2. ASSUME NEW st \in FutureStates PROVE [fut EXCEPT ![f].st = st] \in [Futures -> Future]
  BY <1>1 DEF Future
<1>3. ASSUME NEW st \in FutureStates, NEW got \in Results \cup {NoResult}
      PROVE  [fut EXCEPT ![f].st = st, ![f].got = got] \in [Futures -> Future]
  BY <1>1 DEF Future
<1> QED
  BY <1>1, <1>2, <1>3, NoFutureType

\* An ID a future or a request carries.
LEMMA IdTypes ==
  ASSUME TypeOK
  PROVE  /\ \A f \in Futures : fut[f].id \in Ids /\ fut[f].st \in FutureStates
         /\ \A r \in Requests : r.id \in Ids /\ r.op \in 1 .. MaxOps
         /\ \A id \in Ids : id.idx \in Index /\ id.gen \in 0 .. GenMax
BY DEF TypeOK, Future, Requests, Ids

LEMMA StartPollType ==
  ASSUME TypeOK, Growth, NEW t \in Tasks, StartPoll(t)
  PROVE  TypeOK' /\ Growth' /\ OnlyPolled'
<1>1. FutOK' /\ OnlyPolled'
  BY TasksAssumption DEF StartPoll, FutOK, OnlyPolled, TypeOK
<1>2. SlotsOK'
  BY SlotsStay DEF StartPoll
<1> QED
  BY <1>1, <1>2, JoinType, SameGrowth DEF StartPoll, slotVars

LEMMA EndPollType ==
  ASSUME TypeOK, Growth, EndPoll
  PROVE  TypeOK' /\ Growth' /\ OnlyPolled'
<1>1. FutOK' /\ OnlyPolled'
  BY DEF EndPoll, FutOK, OnlyPolled, TypeOK
<1>2. SlotsOK'
  BY SlotsStay DEF EndPoll
<1> QED
  BY <1>1, <1>2, JoinType, SameGrowth DEF EndPoll, slotVars

LEMMA CreateType ==
  ASSUME TypeOK, Growth, NEW f \in Futures, Create(f)
  PROVE  TypeOK' /\ Growth' /\ OnlyPolled'
<1>1. FutOK' /\ OnlyPolled'
  <2>1. fut' \in [Futures -> Future] /\ running \in Tasks
    BY FutureUpdates, TasksAssumption DEF Create
  <2> QED
    BY <2>1, TasksAssumption DEF Create, FutOK, OnlyPolled, TypeOK
<1>2. SlotsOK'
  BY SlotsStay DEF Create
<1> QED
  BY <1>1, <1>2, JoinType, SameGrowth DEF Create, slotVars

LEMMA PollBlockedType ==
  ASSUME TypeOK, Growth, OnlyPolled, NEW f \in Futures, PollBlocked(f)
  PROVE  TypeOK' /\ Growth' /\ OnlyPolled'
<1>1. running \in Tasks /\ "blocked" \in FutureStates
  BY DEF PollBlocked, OnlyPolled, TypeOK, FutureStates
<1>2. submit_wakers' \in Seq(Tasks)
  BY <1>1, AppendProperties DEF PollBlocked, register_submit_waker, TypeOK
<1>3. FutOK' /\ OnlyPolled'
  <2>1. fut' \in [Futures -> Future]
    BY <1>1, FutureUpdates DEF PollBlocked
  <2> QED
    BY <1>1, <1>2, <2>1, TasksAssumption DEF PollBlocked, FutOK, OnlyPolled, TypeOK
<1>4. SlotsOK'
  BY SlotsStay DEF PollBlocked
<1> QED
  BY <1>3, <1>4, JoinType, SameGrowth DEF PollBlocked, slotVars

LEMMA PollWaitType ==
  ASSUME TypeOK, Growth, OnlyPolled, NEW f \in Futures, PollWait(f)
  PROVE  TypeOK' /\ Growth' /\ OnlyPolled'
<1> DEFINE i == fut[f].id.idx
<1>1. FutOK' /\ OnlyPolled'
  BY DEF PollWait, FutOK, OnlyPolled, TypeOK
<1>2. i \in Index /\ slots[i] \in Slot
  BY IdTypes DEF PollWait, Occupied, TypeOK
<1>3. slots' = [slots EXCEPT ![i] = [slots[i] EXCEPT !.waker = running]]
  BY DEF PollWait
<1>4. [slots[i] EXCEPT !.waker = running] \in Slot
  BY <1>2 DEF Slot, TypeOK
<1>5. slots' \in [Index -> Slot \cup {NoSlot}]
  <2> HIDE DEF i
  <2> QED
    BY <1>2, <1>3, <1>4 DEF TypeOK
<1>6. SlotsOK'
  BY <1>5 DEF PollWait, SlotsOK, TypeOK, Growth
<1> QED
  BY <1>1, <1>6, JoinType, SameGrowth DEF PollWait

LEMMA PollReadyType ==
  ASSUME TypeOK, Growth, OnlyPolled, NEW f \in Futures, PollReady(f)
  PROVE  TypeOK' /\ Growth' /\ OnlyPolled'
<1> DEFINE i == fut[f].id.idx
<1>1. fut[f].id \in Ids /\ i \in Index /\ slots[i] \in Slot
  BY IdTypes DEF PollReady, Occupied, TypeOK
<1>2. slots[i].result \in Results \cup {NoResult} /\ "ready" \in FutureStates
  BY <1>1 DEF Slot, FutureStates
<1>3. fut' = [fut EXCEPT ![f].st = "ready", ![f].got = slots[i].result]
  BY DEF PollReady
<1>4. fut' \in [Futures -> Future]
  BY <1>2, <1>3, FutureUpdates
<1>5. FutOK' /\ OnlyPolled'
  BY <1>4 DEF PollReady, FutOK, OnlyPolled, TypeOK
<1>6. SlotsOK'
  BY <1>1, FreeSlot DEF PollReady
<1> QED
  BY <1>5, <1>6, JoinType, SameGrowth DEF PollReady, free_slot

\* cancel frees a slot, marks it, or does nothing.
LEMMA CancelType ==
  ASSUME TypeOK, Growth, NEW id \in Ids, cancel(id)
  PROVE  SlotsOK' /\ UNCHANGED <<generation, nslots>>
<1>1. CASE ~Occupied(id)
  <2>1. UNCHANGED slotVars
    BY <1>1 DEF cancel
  <2> QED
    BY <2>1, SlotsStay DEF slotVars
<1>2. CASE Occupied(id) /\ slots[id.idx].result # NoResult
  BY <1>2, FreeSlot DEF cancel, free_slot
<1>3. CASE Occupied(id) /\ ~(slots[id.idx].result # NoResult)
  <2>1. id.idx \in Index /\ slots[id.idx] \in Slot
    BY <1>3, IdTypes DEF Occupied, TypeOK
  <2>2. /\ slots' = [slots EXCEPT ![id.idx] = [slots[id.idx] EXCEPT !.cancelled = TRUE]]
        /\ UNCHANGED <<generation, nslots, free_slots>>
    BY <1>3 DEF cancel
  <2>3. [slots[id.idx] EXCEPT !.cancelled = TRUE] \in Slot
    BY <2>1 DEF Slot
  <2> QED
    BY <2>1, <2>2, <2>3 DEF SlotsOK, TypeOK, Growth
<1> QED
  BY <1>1, <1>2, <1>3

LEMMA DropType ==
  ASSUME TypeOK, Growth, OnlyPolled, NEW f \in Futures, Drop(f)
  PROVE  TypeOK' /\ Growth' /\ OnlyPolled'
<1>1. FutOK' /\ OnlyPolled'
  BY FutureUpdates DEF Drop, FutOK, OnlyPolled, TypeOK
<1>2. SlotsOK' /\ UNCHANGED <<generation, nslots>>
  BY CancelType, SlotsStay, IdTypes DEF Drop, slotVars
<1> QED
  BY <1>1, <1>2, JoinType, SameGrowth DEF Drop

LEMMA TakePendingType ==
  ASSUME TypeOK, Growth, OnlyPolled, IdsAreOld, TakePending
  PROVE  TypeOK' /\ Growth' /\ OnlyPolled'
<1>1. Popped \in 1 .. Len(pending_requests) /\ Len(pending_requests) \in Nat
  BY PopBounds DEF TakePending, TypeOK
<1>2. pending_requests' \in Seq(Requests)
  <2>1. \A i \in Popped + 1 .. Len(pending_requests) : pending_requests[i] \in Requests
    BY <1>1, ElementOfSeq DEF TypeOK
  <2>2. SubSeq(pending_requests, Popped + 1, Len(pending_requests)) \in Seq(Requests)
    BY <1>1, <2>1, SubSeqProperties
  <2> QED
    BY <2>2 DEF TakePending
<1>3. submit_wakers' \in Seq(Tasks)
  <2>1. Len(submit_wakers) \in Nat
    BY DEF TypeOK
  <2>2. \A i \in Popped + 1 .. Len(submit_wakers) : submit_wakers[i] \in Tasks
    BY <1>1, <2>1, ElementOfSeq DEF TypeOK
  <2> QED
    BY <1>1, <2>1, <2>2, SubSeqProperties DEF TakePending
<1>4. woken' \subseteq Tasks
  <2>1. WakersOfPops \subseteq Tasks
    BY ElementOfSeq DEF WakersOfPops, TypeOK
  <2> QED
    BY <2>1 DEF TakePending, Wake, TypeOK
<1>5. taken' \subseteq Requests
  BY <1>1, ElementOfSeq DEF TakePending, TypeOK
<1>6. FutOK' /\ OnlyPolled'
  BY <1>2, <1>3, <1>4, <1>5 DEF TakePending, FutOK, OnlyPolled, TypeOK, pollVars
<1>7. SlotsOK'
  BY TakeSlots
<1> QED
  BY <1>6, <1>7, JoinType, SameGrowth DEF TakePending

\* The part of the state that no call of the host on a taken request touches.
LEMMA HostSide ==
  ASSUME TypeOK, OnlyPolled, woken' \subseteq Tasks,
         UNCHANGED <<fut, pollVars, pending_requests, submit_wakers, taken, ops>>
  PROVE  FutOK' /\ OnlyPolled'
BY DEF FutOK, OnlyPolled, TypeOK, pollVars

LEMMA TakenTypes ==
  ASSUME TypeOK, NEW r \in taken, Occupied(r.id)
  PROVE  /\ r \in Requests /\ r.id \in Ids /\ r.op \in 1 .. MaxOps
         /\ r.id.idx \in Index /\ slots[r.id.idx] \in Slot
         /\ \A data \in {"whole", "truncated", "error"} :
              [op |-> r.op, data |-> data] \in Results
<1>1. r \in Requests
  BY DEF TypeOK
<1>2. r.id \in Ids /\ r.op \in 1 .. MaxOps
  BY <1>1, IdTypes
<1>3. r.id.idx \in Index /\ slots[r.id.idx] \in Slot
  BY <1>2, IdTypes DEF Occupied, TypeOK
<1> QED
  BY <1>1, <1>2, <1>3 DEF Results

LEMMA CompleteType ==
  ASSUME TypeOK, Growth, OnlyPolled, NEW r \in taken,
         NEW data \in {"whole", "error"}, Complete(r, data)
  PROVE  TypeOK' /\ Growth' /\ OnlyPolled'
<1> DEFINE result == [op |-> r.op, data |-> data]
<1>1. /\ Occupied(r.id) /\ r.id \in Ids /\ slots[r.id.idx] \in Slot
      /\ result \in Results
  BY TakenTypes DEF Complete
<1>2. SlotsOK' /\ woken' \subseteq Tasks /\ UNCHANGED <<generation, nslots>>
  <2>1. CASE slots[r.id.idx].cancelled
    <3>1. free_slot(r.id) /\ UNCHANGED woken
      BY <2>1 DEF Complete
    <3> QED
      BY <1>1, <3>1, FreeSlot DEF free_slot, TypeOK
  <2>2. CASE ~slots[r.id.idx].cancelled
    <3>1. SetResult(r.id, result, slots[r.id.idx])
      BY <2>2 DEF Complete
    <3> HIDE DEF result
    <3> QED
      BY <1>1, <3>1, SetResultSlots DEF SetResult
  <2> QED
    BY <2>1, <2>2
<1>3. FutOK' /\ OnlyPolled'
  BY <1>2, HostSide DEF Complete
<1> QED
  BY <1>2, <1>3, JoinType, SameGrowth DEF Complete

\* The outcomes of a chunk: the slot is freed, gets a result, or buffers.
LEMMA ChunkCases ==
  ASSUME NEW r, NEW n, NEW eof, AppendChunk(r, n, eof)
  PROVE  \/ free_slot(r.id) /\ UNCHANGED woken
         \/ SetResult(r.id, [op |-> r.op, data |-> "error"],
                      [slots[r.id.idx] EXCEPT !.overflow = TRUE])
         \/ \E data \in {"whole", "truncated"} :
              SetResult(r.id, [op |-> r.op, data |-> data],
                        [slots[r.id.idx] EXCEPT !.buffer = 0])
         \/ /\ ~exceeds_limit(slots[r.id.idx].buffer, n)
            /\ slots' = [slots EXCEPT ![r.id.idx].buffer = @ + n]
            /\ UNCHANGED <<generation, nslots, free_slots, woken>>
BY DEF AppendChunk

LEMMA AppendChunkType ==
  ASSUME TypeOK, Growth, OnlyPolled, NEW r \in taken,
         NEW n \in 1 .. BufferLimit + 1, NEW eof \in BOOLEAN, AppendChunk(r, n, eof)
  PROVE  TypeOK' /\ Growth' /\ OnlyPolled'
<1> USE BoundsAssumption
<1> DEFINE i == r.id.idx
<1>1. /\ Occupied(r.id) /\ r.id \in Ids /\ i \in Index /\ slots[i] \in Slot
      /\ \A data \in {"whole", "truncated", "error"} :
           [op |-> r.op, data |-> data] \in Results
  BY TakenTypes DEF AppendChunk
<1>2. [slots[i] EXCEPT !.overflow = TRUE] \in Slot /\ [slots[i] EXCEPT !.buffer = 0] \in Slot
  <2>1. [slots[i] EXCEPT !.buffer = 0] \in Slot
    BY <1>1 DEF Slot
  <2>2. \A s \in Slot : [s EXCEPT !.overflow = TRUE] \in Slot
    BY DEF Slot
  <2> HIDE DEF i
  <2> QED
    BY <1>1, <2>1, <2>2
<1>3. SlotsOK' /\ woken' \subseteq Tasks /\ UNCHANGED <<generation, nslots>>
  <2>1. CASE free_slot(r.id) /\ UNCHANGED woken
    BY <1>1, <2>1, FreeSlot DEF free_slot, TypeOK
  <2>2. ASSUME NEW data \in {"whole", "truncated", "error"}, NEW slot \in Slot,
               SetResult(r.id, [op |-> r.op, data |-> data], slot)
        PROVE  SlotsOK' /\ woken' \subseteq Tasks /\ UNCHANGED <<generation, nslots>>
    BY <1>1, <2>2, SetResultSlots DEF SetResult
  <2>3. CASE /\ ~exceeds_limit(slots[i].buffer, n)
             /\ slots' = [slots EXCEPT ![i].buffer = @ + n]
             /\ UNCHANGED <<generation, nslots, free_slots, woken>>
    <3>1. slots[i].buffer + n \in 0 .. BufferLimit
      BY <1>1, <2>3 DEF exceeds_limit, Slot
    <3>2. [slots[i] EXCEPT !.buffer = slots[i].buffer + n] \in Slot
      BY <1>1, <3>1 DEF Slot
    <3>3. slots' = [slots EXCEPT ![i] = [slots[i] EXCEPT !.buffer = slots[i].buffer + n]]
      BY <2>3, <1>1 DEF TypeOK
    <3>4. slots' \in [Index -> Slot \cup {NoSlot}]
      BY <1>1, <3>2, <3>3 DEF TypeOK
    <3> QED
      BY <2>3, <3>4 DEF SlotsOK, TypeOK, Growth
  <2> QED
    BY <1>2, <2>1, <2>2, <2>3, ChunkCases
<1>4. FutOK' /\ OnlyPolled'
  BY <1>3, HostSide DEF AppendChunk
<1> QED
  BY <1>3, <1>4, JoinType, SameGrowth DEF AppendChunk

LEMMA clear_bufferType ==
  ASSUME TypeOK, Growth, OnlyPolled, NEW r \in taken, clear_buffer(r)
  PROVE  TypeOK' /\ Growth' /\ OnlyPolled'
<1> USE BoundsAssumption
<1> DEFINE i == r.id.idx
<1>1. i \in Index /\ slots[i] \in Slot
  BY TakenTypes DEF clear_buffer
<1>2. slots' = [slots EXCEPT ![i] = [slots[i] EXCEPT !.buffer = 0]]
  BY DEF clear_buffer
<1>3. [slots[i] EXCEPT !.buffer = 0] \in Slot
  BY <1>1 DEF Slot
<1>4. SlotsOK'
  <2>1. slots' \in [Index -> Slot \cup {NoSlot}]
    BY <1>1, <1>2, <1>3 DEF TypeOK
  <2> QED
    BY <2>1 DEF clear_buffer, SlotsOK, TypeOK, Growth
<1>5. FutOK' /\ OnlyPolled'
  BY HostSide DEF clear_buffer, TypeOK
<1> QED
  BY <1>4, <1>5, JoinType, SameGrowth DEF clear_buffer

-----------------------------------------------------------------------------
(* Identities.                                                             *)

NothingIssued == \A r \in Requests : Issued(r)' => Issued(r)

\* Slots keep their result, lose it, or are freed.
NothingStored ==
  \A i \in Index : \/ slots'[i] = NoSlot
                   \/ slots'[i].result = NoResult
                   \/ slots[i] # NoSlot /\ slots'[i].result = slots[i].result

LEMMA KeepIds ==
  ASSUME IdsAreOld, IdsAreUnique, NothingIssued, UNCHANGED <<generation, nslots>>
  PROVE  IdsAreOld' /\ IdsAreUnique'
BY DEF IdsAreOld, IdsAreUnique, NothingIssued

LEMMA KeepStored ==
  ASSUME TypeOK, StoredMatch, NothingIssued, NothingStored, UNCHANGED <<generation, nslots>>
  PROVE  StoredMatch'
<1> SUFFICES ASSUME NEW r \in Requests, Issued(r)', Occupied(r.id)',
                    slots'[r.id.idx].result # NoResult
             PROVE  slots'[r.id.idx].result.op = r.op
  BY DEF StoredMatch
<1>1. r.id.idx \in Index
  BY DEF Requests, Ids
<1>2. /\ slots[r.id.idx] # NoSlot
      /\ slots'[r.id.idx].result = slots[r.id.idx].result
  BY <1>1 DEF NothingStored, Occupied
<1>3. Issued(r) /\ Occupied(r.id)
  BY <1>2 DEF NothingIssued, Occupied, is_valid_id
<1> QED
  BY <1>2, <1>3 DEF StoredMatch

\* A result computed for an issued request is stored under its ID.
LEMMA StoreResult ==
  ASSUME TypeOK, StoredMatch, IdsAreUnique, NothingIssued,
         NEW r \in Requests, Issued(r), Occupied(r.id),
         NEW data, NEW slot, SetResult(r.id, [op |-> r.op, data |-> data], slot),
         slot \in Slot
  PROVE  StoredMatch'
<1> SUFFICES ASSUME NEW q \in Requests, Issued(q)', Occupied(q.id)',
                    slots'[q.id.idx].result # NoResult
             PROVE  slots'[q.id.idx].result.op = q.op
  BY DEF StoredMatch
<1>1. Issued(q) /\ q.id \in Ids /\ q.id.idx \in Index /\ r.id \in Ids /\ r.id.idx \in Index
  BY DEF NothingIssued, Requests, Ids
<1>2. slots' = [slots EXCEPT ![r.id.idx] =
                  [slot EXCEPT !.result = [op |-> r.op, data |-> data], !.waker = NoTask]]
  BY DEF SetResult
<1>3. CASE q.id.idx = r.id.idx
  <2>1. q.id.gen = r.id.gen
    BY <1>3 DEF Occupied, is_valid_id, SetResult
  <2>2. q.id = r.id
    BY <2>1, <1>1, <1>3 DEF Ids
  <2>3. q.op = r.op
    BY <2>2, <1>1 DEF IdsAreUnique
  <2>4. slots'[q.id.idx].result = [op |-> r.op, data |-> data]
    BY <1>1, <1>2, <1>3 DEF TypeOK, Slot
  <2> QED
    BY <2>3, <2>4
<1>4. CASE q.id.idx # r.id.idx
  <2>1. slots'[q.id.idx] = slots[q.id.idx]
    BY <1>1, <1>2, <1>4 DEF TypeOK
  <2>2. Occupied(q.id)
    BY <2>1 DEF Occupied, is_valid_id, SetResult
  <2> QED
    BY <2>1, <2>2, <1>1 DEF StoredMatch
<1> QED
  BY <1>3, <1>4

Ids3 == IdsAreOld /\ IdsAreUnique /\ StoredMatch

\* Allocation: the new ID is none of the issued ones, and its slot is empty.
LEMMA PollSubmitIds ==
  ASSUME TypeOK, IdInv, NEW f \in Futures, PollSubmit(f)
  PROVE  Ids3'
<1> USE DEF IdInv
<1> DEFINE req == [id |-> AllocatedId, op |-> ops + 1]
<1> DEFINE slot == [result |-> NoResult, buffer |-> 0, overflow |-> FALSE,
                    waker |-> running, cancelled |-> FALSE]
<1>1. ops < MaxOps /\ allocate_id(slot)
  BY DEF PollSubmit, Enqueued
<1>2. slot \in Slot
  BY BoundsAssumption DEF Slot, TypeOK
<1>3. /\ nslots <= nslots' /\ AllocatedIndex < nslots' /\ nslots' \in Nat
      /\ generation'[AllocatedIndex] = AllocatedId.gen
      /\ \A i \in Index : i # AllocatedIndex => generation'[i] = generation[i]
      /\ slots'[AllocatedIndex] = slot
      /\ \A i \in Index : i # AllocatedIndex => slots'[i] = slots[i]
  BY <1>1, <1>2, AllocateId DEF SlotsOK
<1>4. /\ AllocatedId \in Ids /\ AllocatedId.idx = AllocatedIndex
      /\ AllocatedIndex \in Index /\ AllocatedId.gen \in Nat
      /\ AllocatedIndex < nslots => AllocatedId.gen = generation[AllocatedIndex] + 1
  BY <1>1, AllocatedIdType
<1> HIDE DEF slot
<1>5. ASSUME NEW r \in Requests, Issued(r)'
      PROVE  Issued(r) \/ r = req
  <2>1. CASE \E i \in 1 .. Len(pending_requests)' : pending_requests'[i] = r
    <3>1. pending_requests' = Append(pending_requests, req) /\ pending_requests \in Seq(Requests)
      BY DEF PollSubmit, Enqueued, TypeOK
    <3>2. PICK i \in 1 .. Len(pending_requests)' : pending_requests'[i] = r
      BY <2>1
    <3>3. i \in 1 .. Len(pending_requests) => Issued(r)
      BY <3>1, <3>2 DEF Issued
    <3>4. i = Len(pending_requests) + 1 => r = req
      BY <3>1, <3>2
    <3> QED
      BY <3>1, <3>2, <3>3, <3>4
  <2>2. CASE r \in taken'
    BY <2>2 DEF PollSubmit, Enqueued, Issued
  <2>3. CASE \E g \in Futures : /\ fut'[g].st \in {"submitted", "ready"}
                                /\ fut'[g].id = r.id /\ fut'[g].op = r.op
    <3>1. PICK g \in Futures : /\ fut'[g].st \in {"submitted", "ready"}
                               /\ fut'[g].id = r.id /\ fut'[g].op = r.op
      BY <2>3
    <3>2. CASE g = f
      <4>1. fut'[f].id = AllocatedId /\ fut'[f].op = ops + 1
        BY DEF PollSubmit, Enqueued, TypeOK, Future
      <4> QED
        BY <4>1, <3>1, <3>2 DEF Requests
    <3>3. CASE g # f
      BY <3>1, <3>3 DEF PollSubmit, Enqueued, TypeOK, Issued
    <3> QED
      BY <3>2, <3>3
  <2> QED
    BY <1>5, <2>1, <2>2, <2>3 DEF Issued
<1>6. ASSUME NEW r \in Requests, Issued(r)
      PROVE  /\ r.id.idx \in Index /\ r.id.idx < nslots
             /\ r.id.gen \in Nat /\ r.id.gen <= generation[r.id.idx]
             /\ generation[r.id.idx] \in Nat
             /\ r.id.idx = AllocatedIndex => r.id.gen < AllocatedId.gen
  <2>1. /\ r.id.idx \in Index /\ r.id.gen \in Nat
        /\ r.id.idx < nslots /\ r.id.gen <= generation[r.id.idx]
    BY <1>6, IdTypes DEF IdsAreOld
  <2>2. generation[r.id.idx] \in Nat
    BY <2>1 DEF TypeOK
  <2> QED
    BY <2>1, <2>2, <1>4
<1>7. IdsAreOld'
  <2> SUFFICES ASSUME NEW r \in Requests, Issued(r)'
               PROVE  r.id.idx < nslots' /\ r.id.gen <= generation'[r.id.idx]
    BY DEF IdsAreOld
  <2>1. CASE r = req
    BY <2>1, <1>3, <1>4
  <2>2. CASE Issued(r) /\ r.id.idx = AllocatedIndex
    BY <2>2, <1>3, <1>4, <1>6
  <2>3. CASE Issued(r) /\ r.id.idx # AllocatedIndex
    <3>1. generation'[r.id.idx] = generation[r.id.idx]
      BY <2>3, <1>3, <1>6
    <3>2. r.id.idx < nslots /\ r.id.idx \in Nat /\ nslots \in Nat
      BY <2>3, <1>6 DEF TypeOK, Index
    <3> QED
      BY <3>1, <3>2, <2>3, <1>3, <1>6
  <2> QED
    BY <1>5, <2>1, <2>2, <2>3
<1>8. \A r \in Requests : Issued(r) => r.id # AllocatedId
  BY <1>4, <1>6
<1>9. IdsAreUnique'
  BY <1>5, <1>8 DEF IdsAreUnique
<1>10. StoredMatch'
  <2> SUFFICES ASSUME NEW r \in Requests, Issued(r)', Occupied(r.id)',
                      slots'[r.id.idx].result # NoResult
               PROVE  slots'[r.id.idx].result.op = r.op
    BY DEF StoredMatch
  <2>1. r.id.idx # AllocatedIndex
    BY <1>3 DEF slot
  <2>2. Issued(r) /\ r.id.idx \in Index
    BY <2>1, <1>4, <1>5, <1>6
  <2>3. slots'[r.id.idx] = slots[r.id.idx] /\ generation'[r.id.idx] = generation[r.id.idx]
    BY <1>3, <2>1, <2>2
  <2>4. Occupied(r.id)
    BY <2>2, <2>3, <1>6 DEF Occupied, is_valid_id
  <2> QED
    BY <2>2, <2>3, <2>4 DEF StoredMatch
<1> QED
  BY <1>7, <1>9, <1>10 DEF Ids3

\* What an action proves about the answers when it leaves IDs and results.
LEMMA KeepAnswers ==
  ASSUME TypeOK, IdInv, NothingIssued, NothingStored, UNCHANGED <<generation, nslots>>
  PROVE  Ids3'
BY KeepIds, KeepStored DEF IdInv, Ids3

LEMMA SameFutures ==
  ASSUME IdInv, UNCHANGED fut
  PROVE  GotWhenReady' /\ AnswersMatch'
BY DEF IdInv, GotWhenReady, AnswersMatch

\* Futures that get neither a result nor another operation.
LEMMA OtherFutures ==
  ASSUME TypeOK, IdInv, NEW f \in Futures,
         \A g \in Futures : g # f => fut'[g] = fut[g],
         fut'[f].got = NoResult
  PROVE  GotWhenReady' /\ AnswersMatch'
BY DEF IdInv, GotWhenReady, AnswersMatch

\* No step of the task side but a submission issues an ID: a future's record
\* either stays submitted with its ID, or is not submitted.
LEMMA IssuedByFuture ==
  ASSUME NEW f \in Futures, UNCHANGED <<pending_requests, taken>>,
         \A g \in Futures : g # f => fut'[g] = fut[g],
         \/ fut'[f].st \notin {"submitted", "ready"}
         \/ /\ fut[f].st \in {"submitted", "ready"}
            /\ fut'[f].id = fut[f].id /\ fut'[f].op = fut[f].op
  PROVE  NothingIssued
BY DEF NothingIssued, Issued

LEMMA NothingIssuedSame ==
  ASSUME UNCHANGED <<fut, pending_requests, taken>>
  PROVE  NothingIssued
BY DEF NothingIssued, Issued

LEMMA FreedStoresNothing ==
  ASSUME TypeOK, NEW id \in Ids, free_slot(id)
  PROVE  NothingStored
BY IdTypes DEF free_slot, NothingStored, TypeOK

\* The slot keeps its result whatever else of it changes.
LEMMA UpdateStoresNothing ==
  ASSUME TypeOK, NEW i \in Index, slots[i] # NoSlot, NEW slot,
         slots' = [slots EXCEPT ![i] = slot], slot.result = slots[i].result
  PROVE  NothingStored
BY DEF NothingStored, TypeOK

LEMMA PollWaitIds ==
  ASSUME TypeOK, IdInv, NEW f \in Futures, PollWait(f)
  PROVE  Ids3'
<1>1. fut[f].id.idx \in Index /\ slots[fut[f].id.idx] \in Slot /\ slots[fut[f].id.idx] # NoSlot
  BY IdTypes DEF PollWait, Occupied, TypeOK
<1>2. NothingStored
  BY <1>1, UpdateStoresNothing DEF PollWait, Slot
<1>3. NothingIssued
  BY NothingIssuedSame DEF PollWait
<1> QED
  BY <1>2, <1>3, KeepAnswers DEF PollWait

\* The answer a ready future gets is the one its slot stored for its ID.
LEMMA PollReadyIds ==
  ASSUME TypeOK, IdInv, NEW f \in Futures, PollReady(f)
  PROVE  Ids3' /\ GotWhenReady' /\ AnswersMatch'
<1> DEFINE i == fut[f].id.idx
<1>1. fut[f].id \in Ids /\ fut[f].st = "submitted" /\ free_slot(fut[f].id)
  BY IdTypes DEF PollReady
<1>2. /\ \A g \in Futures : g # f => fut'[g] = fut[g]
      /\ fut'[f] = [fut[f] EXCEPT !.st = "ready", !.got = slots[i].result]
  BY DEF PollReady, TypeOK
<1>3. /\ fut'[f].st = "ready" /\ fut'[f].got = slots[i].result
      /\ fut'[f].id = fut[f].id /\ fut'[f].op = fut[f].op
  BY <1>2 DEF TypeOK, Future
<1>4. NothingIssued
  BY <1>1, <1>2, <1>3, IssuedByFuture DEF PollReady
<1>5. Ids3'
  BY <1>1, <1>4, FreedStoresNothing, KeepAnswers DEF free_slot
<1>6. slots[i].result # NoResult => slots[i].result.op = fut[f].op
  <2> DEFINE r == [id |-> fut[f].id, op |-> fut[f].op]
  <2> SUFFICES ASSUME slots[i].result # NoResult PROVE slots[i].result.op = fut[f].op
    OBVIOUS
  <2>1. CASE fut[f].op \in 1 .. MaxOps
    <3>1. r \in Requests /\ Issued(r) /\ Occupied(r.id)
      BY <2>1, <1>1 DEF Requests, Issued, PollReady
    <3> QED
      BY <3>1 DEF StoredMatch, IdInv
  <2>2. fut[f].op \in 1 .. MaxOps
    BY <1>1 DEF IdInv, SubmittedHasOp
  <2> QED
    BY <2>1, <2>2
<1>7. GotWhenReady' /\ AnswersMatch'
  BY <1>2, <1>3, <1>6 DEF IdInv, GotWhenReady, AnswersMatch
<1> QED
  BY <1>5, <1>7

LEMMA CancelStoresNothing ==
  ASSUME TypeOK, NEW id \in Ids, cancel(id)
  PROVE  NothingStored /\ UNCHANGED <<generation, nslots>>
<1>1. CASE ~Occupied(id)
  BY <1>1 DEF cancel, slotVars, NothingStored
<1>2. CASE Occupied(id) /\ slots[id.idx].result # NoResult
  BY <1>2, FreedStoresNothing DEF cancel, free_slot
<1>3. CASE Occupied(id) /\ ~(slots[id.idx].result # NoResult)
  <2>1. id.idx \in Index /\ slots[id.idx] \in Slot /\ slots[id.idx] # NoSlot
    BY <1>3, IdTypes DEF Occupied, TypeOK
  <2>2. slots' = [slots EXCEPT ![id.idx] = [slots[id.idx] EXCEPT !.cancelled = TRUE]]
    BY <1>3 DEF cancel
  <2>3. [slots[id.idx] EXCEPT !.cancelled = TRUE].result = slots[id.idx].result
    BY <2>1 DEF Slot
  <2> QED
    BY <1>3, <2>1, <2>2, <2>3, UpdateStoresNothing DEF cancel
<1> QED
  BY <1>1, <1>2, <1>3

LEMMA DropIds ==
  ASSUME TypeOK, IdInv, NEW f \in Futures, Drop(f)
  PROVE  Ids3' /\ GotWhenReady' /\ AnswersMatch'
<1>1. /\ \A g \in Futures : g # f => fut'[g] = fut[g]
      /\ fut'[f].st = "none" /\ fut'[f].got = NoResult
  BY DEF Drop, TypeOK, NoFuture
<1>2. NothingIssued
  BY <1>1, IssuedByFuture DEF Drop
<1>3. NothingStored /\ UNCHANGED <<generation, nslots>>
  BY CancelStoresNothing, IdTypes DEF Drop, slotVars, NothingStored
<1> QED
  BY <1>1, <1>2, <1>3, KeepAnswers, OtherFutures

LEMMA TakePendingIds ==
  ASSUME TypeOK, IdInv, TakePending
  PROVE  Ids3'
<1>1. /\ Popped \in 1 .. Len(pending_requests) /\ Len(pending_requests) \in Nat
      /\ pending_requests \in Seq(Requests)
  BY PopBounds DEF TakePending, TypeOK
<1>2. NothingIssued
  <2> SUFFICES ASSUME NEW r \in Requests, Issued(r)' PROVE Issued(r)
    BY DEF NothingIssued
  <2>1. ASSUME NEW i \in 1 .. Len(pending_requests'), pending_requests'[i] = r
        PROVE  Issued(r)
    <3>1. /\ Len(pending_requests') = IF Popped + 1 <= Len(pending_requests)
                                      THEN Len(pending_requests) - Popped ELSE 0
          /\ \A k \in 1 .. Len(pending_requests) - Popped :
               pending_requests'[k] = pending_requests[Popped + k]
      BY <1>1 DEF TakePending
    <3>2. Popped + i \in 1 .. Len(pending_requests) /\ pending_requests[Popped + i] = r
      BY <1>1, <2>1, <3>1
    <3> QED
      BY <3>2 DEF Issued
  <2>2. CASE r \in taken'
    BY <1>1, <2>2 DEF TakePending, Issued
  <2>3. CASE \E g \in Futures : /\ fut'[g].st \in {"submitted", "ready"}
                                /\ fut'[g].id = r.id /\ fut'[g].op = r.op
    BY <2>3 DEF TakePending, Issued
  <2> QED
    BY <2>1, <2>2, <2>3 DEF Issued
<1>3. NothingStored
  BY TakeSlots DEF NothingStored, IdInv
<1> QED
  BY <1>2, <1>3, KeepAnswers DEF TakePending

\* The host answers with an ID it took, and for the operation it took it for.
LEMMA SetResultIds ==
  ASSUME TypeOK, IdInv, NEW r \in taken, Occupied(r.id), NEW data, NEW slot \in Slot,
         SetResult(r.id, [op |-> r.op, data |-> data], slot),
         UNCHANGED <<fut, pending_requests, taken>>
  PROVE  Ids3'
<1>1. r \in Requests /\ Issued(r)
  BY DEF TypeOK, Issued
<1>2. NothingIssued
  BY NothingIssuedSame
<1>3. UNCHANGED <<generation, nslots>>
  BY DEF SetResult
<1>4. StoredMatch'
  BY <1>1, <1>2, StoreResult DEF IdInv
<1> QED
  BY <1>2, <1>3, <1>4, KeepIds DEF IdInv, Ids3

LEMMA FreeTakenIds ==
  ASSUME TypeOK, IdInv, NEW r \in taken, Occupied(r.id), free_slot(r.id),
         UNCHANGED <<fut, pending_requests, taken>>
  PROVE  Ids3'
BY TakenTypes, FreedStoresNothing, NothingIssuedSame, KeepAnswers DEF free_slot

LEMMA CompleteIds ==
  ASSUME TypeOK, IdInv, NEW r \in taken, NEW data \in {"whole", "error"},
         Complete(r, data)
  PROVE  Ids3'
<1>1. /\ Occupied(r.id) /\ slots[r.id.idx] \in Slot
      /\ UNCHANGED <<fut, pending_requests, taken>>
  BY TakenTypes DEF Complete
<1>2. \/ free_slot(r.id)
      \/ SetResult(r.id, [op |-> r.op, data |-> data], slots[r.id.idx])
  BY DEF Complete
<1> QED
  BY <1>1, <1>2, FreeTakenIds, SetResultIds

LEMMA AppendChunkIds ==
  ASSUME TypeOK, IdInv, NEW r \in taken, NEW n \in 1 .. BufferLimit + 1,
         NEW eof \in BOOLEAN, AppendChunk(r, n, eof)
  PROVE  Ids3'
<1> DEFINE i == r.id.idx
<1>1. /\ Occupied(r.id) /\ i \in Index /\ slots[i] \in Slot /\ slots[i] # NoSlot
      /\ UNCHANGED <<fut, pending_requests, taken>>
  BY TakenTypes DEF AppendChunk, Occupied
<1>2. [slots[i] EXCEPT !.overflow = TRUE] \in Slot /\ [slots[i] EXCEPT !.buffer = 0] \in Slot
  <2>1. \A s \in Slot : [s EXCEPT !.buffer = 0] \in Slot
    BY BoundsAssumption DEF Slot
  <2>2. \A s \in Slot : [s EXCEPT !.overflow = TRUE] \in Slot
    BY DEF Slot
  <2> HIDE DEF i
  <2> QED
    BY <1>1, <2>1, <2>2
<1>3. CASE free_slot(r.id)
  BY <1>1, <1>3, FreeTakenIds
<1>4. ASSUME NEW data, NEW slot \in Slot, SetResult(r.id, [op |-> r.op, data |-> data], slot)
      PROVE  Ids3'
  BY <1>1, <1>4, SetResultIds
<1>5. CASE /\ slots' = [slots EXCEPT ![i].buffer = @ + n]
           /\ UNCHANGED <<generation, nslots, free_slots, woken>>
  <2>1. slots' = [slots EXCEPT ![i] = [slots[i] EXCEPT !.buffer = slots[i].buffer + n]]
    BY <1>1, <1>5 DEF TypeOK
  <2>2. [slots[i] EXCEPT !.buffer = slots[i].buffer + n].result = slots[i].result
    BY <1>1 DEF Slot
  <2>3. NothingStored
    BY <1>1, <2>1, <2>2, UpdateStoresNothing
  <2> QED
    BY <1>1, <1>5, <2>3, NothingIssuedSame, KeepAnswers
<1> QED
  BY <1>2, <1>3, <1>4, <1>5, ChunkCases

LEMMA clear_bufferIds ==
  ASSUME TypeOK, IdInv, NEW r \in taken, clear_buffer(r)
  PROVE  Ids3'
<1> DEFINE i == r.id.idx
<1>1. i \in Index /\ slots[i] \in Slot /\ slots[i] # NoSlot
  BY TakenTypes DEF clear_buffer, Occupied
<1>2. slots' = [slots EXCEPT ![i] = [slots[i] EXCEPT !.buffer = 0]]
  BY DEF clear_buffer
<1>3. [slots[i] EXCEPT !.buffer = 0].result = slots[i].result
  BY <1>1 DEF Slot
<1>4. NothingStored
  BY <1>1, <1>2, <1>3, UpdateStoresNothing
<1> QED
  BY <1>4, NothingIssuedSame, KeepAnswers DEF clear_buffer

\* A future that is not yet submitted holds no result.
LEMMA EarlyFutures ==
  ASSUME TypeOK, IdInv, NEW f \in Futures,
         Create(f) \/ PollBlocked(f) \/ PollSubmit(f)
  PROVE  GotWhenReady' /\ AnswersMatch'
<1>1. \A g \in Futures : g # f => fut'[g] = fut[g]
  BY DEF Create, PollBlocked, PollSubmit, Enqueued, TypeOK
<1>2. fut'[f].got = NoResult
  <2>1. CASE Create(f)
    BY <2>1 DEF Create, NoFuture, TypeOK
  <2>2. CASE PollBlocked(f) \/ PollSubmit(f)
    <3>1. fut[f].got = NoResult
      BY <2>2 DEF PollBlocked, PollSubmit, Enqueued, IdInv, GotWhenReady
    <3>2. fut'[f].got = fut[f].got
      BY <2>2 DEF PollBlocked, PollSubmit, Enqueued, TypeOK, Future
    <3> QED
      BY <3>1, <3>2
  <2> QED
    BY <2>1, <2>2
<1> QED
  BY <1>1, <1>2, OtherFutures

\* The steps that neither submit nor touch a slot.
LEMMA QuietIds ==
  ASSUME TypeOK, IdInv, NothingIssued, UNCHANGED slotVars
  PROVE  Ids3'
BY KeepAnswers DEF slotVars, NothingStored

LEMMA CreateIds ==
  ASSUME TypeOK, IdInv, NEW f \in Futures, Create(f) \/ PollBlocked(f)
  PROVE  Ids3'
<1>1. \A g \in Futures : g # f => fut'[g] = fut[g]
  BY DEF Create, PollBlocked, TypeOK
<1>2. fut'[f].st \notin {"submitted", "ready"}
  BY DEF Create, PollBlocked, NoFuture, TypeOK, Future
<1>3. UNCHANGED <<pending_requests, taken>> /\ UNCHANGED slotVars
  BY DEF Create, PollBlocked
<1> QED
  BY <1>1, <1>2, <1>3, IssuedByFuture, QuietIds

\* The operation of a submitted future stays the one it was given.
LEMMA NextHasOp == TypeOK /\ IdInv /\ [Next]_vars => SubmittedHasOp'
<1> SUFFICES ASSUME TypeOK, IdInv, [Next]_vars, NEW g \in Futures,
                    fut'[g].st \in {"submitted", "ready"}
             PROVE  fut'[g].op \in 1 .. MaxOps
  BY DEF SubmittedHasOp
<1>0. fut[g].st \in {"submitted", "ready"} => fut[g].op \in 1 .. MaxOps
  BY DEF IdInv, SubmittedHasOp
<1>1. CASE fut'[g] = fut[g]
  BY <1>0, <1>1
<1>2. ASSUME NEW f \in Futures, PollSubmit(f) PROVE fut'[g].op \in 1 .. MaxOps
  <2>1. CASE f = g
    <3>1. fut'[f].op = ops + 1
      BY <1>2 DEF PollSubmit, Enqueued, TypeOK, Future
    <3> QED
      BY <1>2, <2>1, <3>1, BoundsAssumption DEF PollSubmit, Enqueued, TypeOK
  <2>2. CASE f # g
    BY <1>0, <1>2, <2>2 DEF PollSubmit, Enqueued, TypeOK
  <2> QED
    BY <2>1, <2>2
<1>3. ASSUME NEW f \in Futures, PollReady(f) PROVE fut'[g].op \in 1 .. MaxOps
  BY <1>0, <1>3 DEF PollReady, TypeOK, Future
<1>4. ASSUME NEW f \in Futures, Create(f) \/ PollBlocked(f) \/ Drop(f)
      PROVE  fut'[g].op \in 1 .. MaxOps
  <2>1. f # g
    BY <1>4 DEF Create, PollBlocked, Drop, NoFuture, TypeOK, Future
  <2>2. fut'[g] = fut[g]
    BY <1>4, <2>1 DEF Create, PollBlocked, Drop, TypeOK
  <2> QED
    BY <1>0, <2>2
<1>5. CASE \/ EndPoll \/ TakePending
           \/ \E t \in Tasks : StartPoll(t)
           \/ \E f \in Futures : PollWait(f)
  BY <1>1, <1>5 DEF EndPoll, TakePending, StartPoll, PollWait
<1>6. ASSUME NEW r \in taken,
             \/ \E data \in {"whole", "error"} : Complete(r, data)
             \/ \E n \in 1 .. BufferLimit + 1, eof \in BOOLEAN : AppendChunk(r, n, eof)
             \/ clear_buffer(r)
      PROVE  fut' = fut
  BY <1>6 DEF Complete, AppendChunk, clear_buffer
<1>7. CASE UNCHANGED vars
  BY <1>1, <1>7 DEF vars
<1> QED
  BY <1>1, <1>2, <1>3, <1>4, <1>5, <1>6, <1>7 DEF Next

-----------------------------------------------------------------------------
(* The theorems.                                                           *)

LEMMA InitInv == Init => Inv
<1> SUFFICES ASSUME Init PROVE Inv
  OBVIOUS
<1>1. TypeOK /\ Growth
  BY InitType
<1>2. \A f \in Futures : fut[f].st = "none" /\ fut[f].got = NoResult
  BY DEF Init, NoFuture
<1>3. \A r : ~Issued(r)
  BY <1>2, EmptySeq DEF Init, Issued
<1> QED
  BY <1>1, <1>2, <1>3 DEF Init, Inv, IdInv, OnlyPolled, SubmittedHasOp, IdsAreOld,
     IdsAreUnique, StoredMatch, GotWhenReady, AnswersMatch

\* Inv is inductive.
LEMMA NextInv == Inv /\ [Next]_vars => Inv'
<1> SUFFICES ASSUME Inv, [Next]_vars PROVE Inv'
  OBVIOUS
<1> DEFINE Goal == /\ TypeOK' /\ Growth' /\ OnlyPolled' /\ Ids3'
                   /\ GotWhenReady' /\ AnswersMatch'
<1>0. TypeOK /\ IdInv /\ Growth /\ OnlyPolled /\ IdsAreOld
  BY DEF Inv, IdInv
<1>s. SubmittedHasOp'
  BY <1>0, NextHasOp
<1> SUFFICES Goal
  BY <1>s DEF Ids3, Inv, IdInv
<1>1. ASSUME NEW t \in Tasks, StartPoll(t) PROVE Goal
  <2>1. Ids3'
    BY <1>0, <1>1, NothingIssuedSame, QuietIds DEF StartPoll
  <2> QED
    BY <1>0, <1>1, <2>1, StartPollType, SameFutures DEF StartPoll
<1>2. CASE EndPoll
  <2>1. Ids3'
    BY <1>0, <1>2, NothingIssuedSame, QuietIds DEF EndPoll
  <2> QED
    BY <1>0, <1>2, <2>1, EndPollType, SameFutures DEF EndPoll
<1>3. ASSUME NEW f \in Futures, Create(f) PROVE Goal
  BY <1>0, <1>3, CreateType, CreateIds, EarlyFutures
<1>4. ASSUME NEW f \in Futures, PollBlocked(f) PROVE Goal
  BY <1>0, <1>4, PollBlockedType, CreateIds, EarlyFutures
<1>5. ASSUME NEW f \in Futures, PollSubmit(f) PROVE Goal
  <2>1. OnlyPolled'
    BY <1>0, <1>5 DEF PollSubmit, Enqueued, OnlyPolled
  <2> QED
    BY <1>0, <1>5, <2>1, PollSubmitType, PollSubmitIds, EarlyFutures
<1>6. ASSUME NEW f \in Futures, PollWait(f) PROVE Goal
  BY <1>0, <1>6, PollWaitType, PollWaitIds, SameFutures DEF PollWait
<1>7. ASSUME NEW f \in Futures, PollReady(f) PROVE Goal
  BY <1>0, <1>7, PollReadyType, PollReadyIds
<1>8. ASSUME NEW f \in Futures, Drop(f) PROVE Goal
  BY <1>0, <1>8, DropType, DropIds
<1>9. CASE TakePending
  BY <1>0, <1>9, TakePendingType, TakePendingIds, SameFutures DEF TakePending
<1>10. ASSUME NEW r \in taken, NEW data \in {"whole", "error"}, Complete(r, data)
       PROVE  Goal
  BY <1>0, <1>10, CompleteType, CompleteIds, SameFutures DEF Complete
<1>11. ASSUME NEW r \in taken, NEW n \in 1 .. BufferLimit + 1, NEW eof \in BOOLEAN,
              AppendChunk(r, n, eof)
       PROVE  Goal
  BY <1>0, <1>11, AppendChunkType, AppendChunkIds, SameFutures DEF AppendChunk
<1>12. ASSUME NEW r \in taken, clear_buffer(r) PROVE Goal
  BY <1>0, <1>12, clear_bufferType, clear_bufferIds, SameFutures DEF clear_buffer
<1>13. CASE UNCHANGED vars
  <2>1. Ids3'
    BY <1>0, <1>13, NothingIssuedSame, QuietIds DEF vars, slotVars
  <2>2. TypeOK' /\ Growth' /\ OnlyPolled'
    BY <1>0, <1>13 DEF vars, slotVars, pollVars, TypeOK, Growth, OnlyPolled
  <2> QED
    BY <1>0, <1>13, <2>1, <2>2, SameFutures DEF vars
<1> HIDE DEF Goal
<1> QED
  BY <1>1, <1>2, <1>3, <1>4, <1>5, <1>6, <1>7, <1>8, <1>9, <1>10, <1>11, <1>12,
     <1>13 DEF Next

\* Slots, IDs, queues and futures keep their types: no submission, answer,
\* chunk, cancellation or reuse indexes outside the slots vector.
THEOREM TypeSafe == Spec => []TypeOK
BY InitInv, NextInv, PTL DEF Spec, Inv

\* A future only ever receives the answer to its own operation, however late,
\* often or out of order the host answers and however often slots are reused,
\* as long as the generations do not wrap.
THEOREM AnswersSafe == Spec => []AnswersMatch
<1>1. Inv => AnswersMatch
  BY DEF Inv, IdInv
<1> QED
  BY InitInv, NextInv, <1>1, PTL DEF Spec

-----------------------------------------------------------------------------
(* The queue and the free list.                                            *)

\* The queue holds requests in the order they were submitted, all of them
\* submitted after those the host took.
InOrder ==
  /\ \A i, j \in 1 .. Len(pending_requests) :
       i < j => pending_requests[i].op < pending_requests[j].op
  /\ \A i \in 1 .. Len(pending_requests) : pending_requests[i].op <= ops
  /\ \A r \in taken : /\ r.op <= ops
                      /\ \A i \in 1 .. Len(pending_requests) : r.op < pending_requests[i].op

\* Unless its slot is marked cancelled, somebody waits for a queued request.
QueuedAreWanted ==
  \A i \in 1 .. Len(pending_requests) :
    ~slots[pending_requests[i].id.idx].cancelled =>
       \E f \in Futures : fut[f].st = "submitted" /\ fut[f].id = pending_requests[i].id

\* A poll polls the futures of the task it runs.
TodoIsRunning == \A f \in todo : TaskOf[f] = running

QueueInv ==
  /\ SlotAccounting /\ InOrder /\ QueuedAreLive /\ QueuedAreWanted
  /\ TodoIsRunning /\ BlockedIsRegistered

LEMMA QueuedTypes ==
  ASSUME TypeOK, NEW i \in 1 .. Len(pending_requests)
  PROVE  /\ pending_requests[i] \in Requests /\ Issued(pending_requests[i])
         /\ pending_requests[i].id \in Ids /\ pending_requests[i].id.idx \in Index
         /\ pending_requests[i].op \in 1 .. MaxOps
<1>1. pending_requests[i] \in Requests /\ Issued(pending_requests[i])
  BY ElementOfSeq DEF TypeOK, Issued
<1> QED
  BY <1>1, IdTypes

\* Two occupied IDs of one slot are one ID.
LEMMA OneIdPerSlot ==
  ASSUME NEW p \in Ids, NEW q \in Ids, Occupied(p), Occupied(q), p.idx = q.idx
  PROVE  p = q
BY DEF Ids, Occupied, is_valid_id

\* No two queued requests share a slot, and none shares one with a request
\* that the host took and whose slot is still its own.
LEMMA QueuedApart ==
  ASSUME TypeOK, IdInv, InOrder, QueuedAreLive, NEW i \in 1 .. Len(pending_requests)
  PROVE  /\ \A j \in 1 .. Len(pending_requests) :
              pending_requests[i].id.idx = pending_requests[j].id.idx => i = j
         /\ \A r \in taken : Occupied(r.id) => r.id.idx # pending_requests[i].id.idx
<1> DEFINE p == pending_requests[i]
<1>1. p \in Requests /\ Issued(p) /\ p.id \in Ids /\ Occupied(p.id) /\ p.op \in Int
  BY QueuedTypes DEF QueuedAreLive
<1>2. ASSUME NEW j \in 1 .. Len(pending_requests), p.id.idx = pending_requests[j].id.idx
      PROVE  i = j
  <2> DEFINE q == pending_requests[j]
  <2>1. q \in Requests /\ Issued(q) /\ q.id \in Ids /\ Occupied(q.id) /\ q.op \in Int
    BY QueuedTypes DEF QueuedAreLive
  <2>2. p.id = q.id
    BY <1>1, <1>2, <2>1, OneIdPerSlot
  <2>3. p.op = q.op
    BY <1>1, <2>1, <2>2 DEF IdInv, IdsAreUnique
  <2>4. ~(i < j) /\ ~(j < i)
    BY <1>1, <2>1, <2>3 DEF InOrder
  <2> QED
    BY <2>4
<1>3. ASSUME NEW r \in taken, Occupied(r.id), r.id.idx = p.id.idx
      PROVE  FALSE
  <2>1. r \in Requests /\ Issued(r) /\ r.id \in Ids /\ r.op \in Int
    <3>1. r \in Requests /\ Issued(r)
      BY DEF TypeOK, Issued
    <3> QED
      BY <3>1, IdTypes
  <2>2. r.op = p.op
    BY <1>1, <1>3, <2>1, OneIdPerSlot DEF IdInv, IdsAreUnique
  <2>3. r.op < p.op
    BY DEF InOrder
  <2> QED
    BY <1>1, <2>1, <2>2, <2>3
<1> QED
  BY <1>2, <1>3

\* Freeing a slot adds it to the free list, where it was not.
LEMMA FreeAccounting ==
  ASSUME TypeOK, SlotAccounting, NEW id \in Ids, Occupied(id), free_slot(id)
  PROVE  SlotAccounting'
<1>1. id.idx \in Index /\ id.idx < nslots /\ slots[id.idx] # NoSlot
  BY DEF Ids, Occupied, is_valid_id
<1>2. /\ Len(free_slots') = Len(free_slots) + 1 /\ Len(free_slots) \in Nat
      /\ \A k \in 1 .. Len(free_slots) : free_slots'[k] = free_slots[k]
      /\ free_slots'[Len(free_slots) + 1] = id.idx
  BY <1>1, AppendProperties DEF TypeOK, free_slot
<1>3. \A k \in 1 .. Len(free_slots) : free_slots[k] # id.idx
  BY <1>1 DEF SlotAccounting
<1>4. \A k \in 1 .. Len(free_slots') : k \in 1 .. Len(free_slots) \/ k = Len(free_slots) + 1
  BY <1>2
<1>5. \A i, j \in 1 .. Len(free_slots') : free_slots'[i] = free_slots'[j] => i = j
  BY <1>2, <1>3, <1>4 DEF SlotAccounting
<1>6. slots'[id.idx] = NoSlot /\ \A i \in Index : i # id.idx => slots'[i] = slots[i]
  BY <1>1 DEF free_slot, TypeOK
<1>7. ASSUME NEW i \in Index
      PROVE  (\E k \in 1 .. Len(free_slots') : free_slots'[k] = i)
               <=> (i < nslots' /\ slots'[i] = NoSlot)
  <2>1. nslots' = nslots
    BY DEF free_slot
  <2>2. CASE i = id.idx
    <3>1. Len(free_slots) + 1 \in 1 .. Len(free_slots')
      BY <1>2
    <3> QED
      BY <2>1, <2>2, <3>1, <1>1, <1>2, <1>6
  <2>3. CASE i # id.idx
    <3>1. (\E k \in 1 .. Len(free_slots') : free_slots'[k] = i)
            <=> (\E k \in 1 .. Len(free_slots) : free_slots[k] = i)
      BY <2>3, <1>2, <1>4
    <3> QED
      BY <2>1, <2>3, <3>1, <1>6 DEF SlotAccounting
  <2> QED
    BY <2>2, <2>3
<1> QED
  BY <1>5, <1>7 DEF SlotAccounting

\* A step that frees nothing and empties nothing keeps the free list right.
LEMMA SameAccounting ==
  ASSUME SlotAccounting, UNCHANGED <<nslots, free_slots>>,
         \A i \in Index : slots'[i] = NoSlot <=> slots[i] = NoSlot
  PROVE  SlotAccounting'
BY DEF SlotAccounting

\* Allocation takes the top of the free list, or a new slot beyond all.
LEMMA AllocateAccounting ==
  ASSUME TypeOK, Growth, SlotAccounting, ops < MaxOps, NEW slot \in Slot, allocate_id(slot)
  PROVE  SlotAccounting' /\ (AllocatedIndex < nslots => slots[AllocatedIndex] = NoSlot)
<1>1. AllocatedIndex \in Index /\ nslots \in Nat /\ Len(free_slots) \in Nat
  BY AllocatedIdType DEF TypeOK
<1>2. slots'[AllocatedIndex] = slot /\ slot # NoSlot
  BY AllocateId, NullAssumption
<1>3. \A i \in Index : i # AllocatedIndex => slots'[i] = slots[i]
  BY AllocateId
<1>4. CASE Reuse
  <2> DEFINE n == Len(free_slots)
  <2>1. n \in 1 .. n /\ AllocatedIndex = free_slots[n] /\ nslots' = nslots
    BY <1>4, EmptySeq DEF Reuse, AllocatedIndex, TypeOK, allocate_id
  <2>2. AllocatedIndex < nslots /\ slots[AllocatedIndex] = NoSlot
    BY <2>1, <1>1 DEF SlotAccounting
  <2>3. /\ Len(free_slots') = n - 1
        /\ \A k \in 1 .. n - 1 : free_slots'[k] = free_slots[k]
    <3>1. free_slots' = SubSeq(free_slots, 1, n - 1) /\ free_slots \in Seq(Index)
      BY <1>4 DEF allocate_id, TypeOK
    <3>2. \A k \in 1 .. n - 1 : free_slots[k] \in Index
      BY <3>1
    <3>3. n \in Nat /\ (1 <= n - 1 \/ n - 1 = 0)
      BY <2>1
    <3> HIDE DEF n
    <3> QED
      BY <3>1, <3>2, <3>3, SubSeqProperties
  <2>4. \A i, j \in 1 .. Len(free_slots') : free_slots'[i] = free_slots'[j] => i = j
    BY <2>3, <2>1 DEF SlotAccounting
  <2>5. ASSUME NEW i \in Index
        PROVE  (\E k \in 1 .. Len(free_slots') : free_slots'[k] = i)
                 <=> (i < nslots' /\ slots'[i] = NoSlot)
    <3>1. CASE i = AllocatedIndex
      <4>1. ASSUME NEW k \in 1 .. Len(free_slots'), free_slots'[k] = i PROVE FALSE
        <5>1. k \in 1 .. n /\ k # n /\ free_slots[k] = free_slots[n]
          BY <2>1, <2>3, <3>1, <4>1
        <5> QED
          BY <5>1, <2>1 DEF SlotAccounting
      <4> QED
        BY <1>2, <3>1, <4>1
    <3>2. CASE i # AllocatedIndex
      <4>1. (\E k \in 1 .. n : free_slots[k] = i) <=> (i < nslots /\ slots[i] = NoSlot)
        BY DEF SlotAccounting
      <4>2. (\E k \in 1 .. Len(free_slots') : free_slots'[k] = i)
              <=> (\E k \in 1 .. n : free_slots[k] = i)
        BY <2>1, <2>3, <3>2
      <4> QED
        BY <1>3, <2>1, <3>2, <4>1, <4>2
    <3> QED
      BY <3>1, <3>2
  <2> QED
    BY <2>2, <2>4, <2>5 DEF SlotAccounting
<1>5. CASE ~Reuse
  <2>1. /\ AllocatedIndex = nslots /\ nslots' = nslots + 1 /\ free_slots' = free_slots
        /\ free_slots = <<>>
    BY <1>5 DEF Reuse, AllocatedIndex, allocate_id
  <2>2. ASSUME NEW i \in Index, i < nslots'
        PROVE  slots'[i] # NoSlot
    <3>1. i \in Nat
      BY DEF Index
    <3>2. CASE i = nslots
      BY <3>2, <2>1, <1>2
    <3>3. CASE i < nslots
      <4>1. ~(\E k \in 1 .. Len(free_slots) : free_slots[k] = i)
        BY <2>1, EmptySeq
      <4>2. slots[i] # NoSlot
        BY <4>1, <3>3 DEF SlotAccounting
      <4>3. i # AllocatedIndex
        BY <3>1, <3>3, <2>1, <1>1
      <4> QED
        BY <4>2, <4>3, <1>3
    <3> QED
      BY <3>1, <3>2, <3>3, <2>1, <2>2, <1>1
  <2>3. Len(free_slots') = 0
    BY <2>1, EmptySeq
  <2> QED
    BY <2>1, <2>2, <2>3, <1>1 DEF SlotAccounting
<1> QED
  BY <1>4, <1>5

\* A set of numbers has a least one.
LEMMA LeastNat ==
  ASSUME NEW T \in SUBSET Nat, T # {}
  PROVE  \E x \in T : \A y \in T : x <= y
<1>1. IsWellFoundedOn(OpToRel(<, Nat), Nat)
  BY NatLessThanWellFounded
<1>2. PICK x \in T : \A y \in T : ~(<<y, x>> \in OpToRel(<, Nat))
  BY <1>1, WFMin
<1>3. \A y \in T : ~(y < x)
  BY <1>2 DEF OpToRel
<1> QED
  BY <1>3

\* The requests that take_pending skips are the first ones of the queue.
LEMMA SkippedPrefix ==
  ASSUME TypeOK, pending_requests # <<>>
  PROVE  /\ Skipped = 1 .. Cardinality(Skipped)
         /\ Cardinality(Skipped) \in 0 .. Len(pending_requests)
         /\ \/ Cardinality(Skipped) = Len(pending_requests) /\ Popped = Cardinality(Skipped)
            \/ /\ Popped = Cardinality(Skipped) + 1 /\ Popped <= Len(pending_requests)
               /\ ~CancelledRequest(pending_requests[Popped])
               /\ Skipped # 1 .. Len(pending_requests)
<1> DEFINE n == Len(pending_requests)
<1> DEFINE Live == {i \in 1 .. n : ~CancelledRequest(pending_requests[i])}
<1>1. n \in Nat \ {0}
  BY EmptySeq DEF TypeOK
<1>2. CASE Live = {}
  <2>1. Skipped = 1 .. n
    BY <1>2 DEF Skipped
  <2>2. Cardinality(Skipped) = n
    BY <2>1, <1>1, FS_Interval
  <2> QED
    BY <1>1, <2>1, <2>2 DEF Popped
<1>3. CASE Live # {}
  <2>1. PICK m \in Live : \A y \in Live : m <= y
    <3>1. Live \in SUBSET Nat
      OBVIOUS
    <3> HIDE DEF Live
    <3> QED
      BY <1>3, <3>1, LeastNat
  <2>2. m \in 1 .. n /\ ~CancelledRequest(pending_requests[m])
    OBVIOUS
  <2>3. \A i \in 1 .. n : i < m => CancelledRequest(pending_requests[i])
    BY <2>1, <2>2
  <2> HIDE DEF Live
  <2>4. Skipped = 1 .. m - 1
    BY <2>2, <2>3 DEF Skipped
  <2>5. Cardinality(Skipped) = m - 1
    <3>1. 1 \in Int /\ m - 1 \in Int
      BY <2>2
    <3>2. Cardinality(1 .. m - 1) = m - 1
      BY <2>2, <3>1, FS_Interval
    <3> QED
      BY <2>4, <3>2
  <2>6. Skipped # 1 .. n
    BY <2>2, <2>4
  <2>7. Popped = m
    BY <2>2, <2>5, <2>6 DEF Popped
  <2> QED
    BY <1>1, <2>2, <2>4, <2>5, <2>6, <2>7
<1> QED
  BY <1>2, <1>3

\* take_pending returns each skipped slot to the free list once.
LEMMA TakeAccounting ==
  ASSUME TypeOK, IdInv, SlotAccounting, InOrder, QueuedAreLive, TakePending
  PROVE  SlotAccounting'
<1> DEFINE n == Cardinality(Skipped)
<1> DEFINE l == Len(free_slots)
<1> DEFINE idx(k) == pending_requests[k].id.idx
<1>1. Skipped = 1 .. n /\ n \in 0 .. Len(pending_requests) /\ Len(pending_requests) \in Nat
  BY SkippedPrefix DEF TakePending, TypeOK
<1>2. \A i, j \in 1 .. n : idx(i) = idx(j) => i = j
  BY <1>1, QueuedApart
<1>3. \A k \in 1 .. n : idx(k) \in Index /\ idx(k) < nslots /\ slots[idx(k)] # NoSlot
  <2>1. ASSUME NEW k \in 1 .. n
        PROVE  idx(k) \in Index /\ idx(k) < nslots /\ slots[idx(k)] # NoSlot
    <3>1. k \in 1 .. Len(pending_requests)
      BY <1>1
    <3>2. Occupied(pending_requests[k].id) /\ idx(k) \in Index
      BY <3>1, QueuedTypes DEF QueuedAreLive
    <3> QED
      BY <3>2 DEF Occupied, is_valid_id
  <2> QED
    BY <2>1
<1>4. /\ l \in Nat /\ Len(free_slots') = l + n
      /\ \A k \in 1 .. l : free_slots'[k] = free_slots[k]
      /\ \A k \in 1 .. n : free_slots'[l + k] = idx(k)
  <2>1. FreedIndices = [k \in 1 .. n |-> idx(k)] /\ n \in Nat
    BY <1>1 DEF FreedIndices
  <2>2. FreedIndices \in Seq(Index) /\ Len(FreedIndices) = n
    BY <1>3, <2>1, IsASeq
  <2>3. free_slots' = free_slots \o FreedIndices /\ free_slots \in Seq(Index) /\ l \in Nat
    BY DEF TakePending, TypeOK
  <2>4. /\ Len(free_slots') = l + n
        /\ \A k \in 1 .. l + n : free_slots'[k] = IF k <= l THEN free_slots[k]
                                                  ELSE FreedIndices[k - l]
    BY <2>2, <2>3, ConcatProperties
  <2> HIDE DEF n, l, idx
  <2>5. \A k \in 1 .. n : l + k \in 1 .. l + n /\ ~(l + k <= l) /\ (l + k) - l = k
    BY <2>1, <2>3
  <2>6. \A k \in 1 .. n : free_slots'[l + k] = FreedIndices[k]
    BY <2>4, <2>5
  <2>7. \A k \in 1 .. l : k \in 1 .. l + n /\ k <= l
    BY <2>1, <2>3
  <2> QED
    BY <2>1, <2>3, <2>4, <2>6, <2>7
<1>5. ASSUME NEW i \in Index
      PROVE  slots'[i] = IF \E k \in 1 .. n : idx(k) = i THEN NoSlot ELSE slots[i]
  BY <1>1 DEF TakePending
<1>6. nslots' = nslots
  BY DEF TakePending
<1>7. \A k \in 1 .. l + n : k \in 1 .. l \/ \E m \in 1 .. n : k = l + m
  <2> SUFFICES ASSUME NEW k \in 1 .. l + n, ~(k \in 1 .. l) PROVE \E m \in 1 .. n : k = l + m
    OBVIOUS
  <2>1. k - l \in 1 .. n /\ k = l + (k - l)
    BY <1>1, <1>4
  <2> QED
    BY <2>1
<1>8. \A k \in 1 .. l, m \in 1 .. n : free_slots[k] # idx(m)
  BY <1>3 DEF SlotAccounting
<1> HIDE DEF n, l, idx
<1>9. \A i, j \in 1 .. l : free_slots[i] = free_slots[j] => i = j
  BY DEF SlotAccounting, l
<1>10. \A i, j \in 1 .. l + n : free_slots'[i] = free_slots'[j] => i = j
  <2> SUFFICES ASSUME NEW i \in 1 .. l + n, NEW j \in 1 .. l + n, free_slots'[i] = free_slots'[j]
               PROVE  i = j
    OBVIOUS
  <2>1. CASE i \in 1 .. l /\ j \in 1 .. l
    BY <2>1, <1>4, <1>9
  <2>2. ASSUME NEW a \in 1 .. n, NEW b \in 1 .. n, i = l + a, j = l + b PROVE i = j
    BY <2>2, <1>2, <1>4
  <2>3. ASSUME NEW a \in 1 .. n, i = l + a, j \in 1 .. l PROVE FALSE
    BY <2>3, <1>4, <1>8
  <2>4. ASSUME NEW a \in 1 .. n, j = l + a, i \in 1 .. l PROVE FALSE
    BY <2>4, <1>4, <1>8
  <2> QED
    BY <1>7, <2>1, <2>2, <2>3, <2>4
<1>11. ASSUME NEW i \in Index
       PROVE  (\E k \in 1 .. l + n : free_slots'[k] = i) <=> (i < nslots' /\ slots'[i] = NoSlot)
  <2>1. (\E k \in 1 .. l : free_slots[k] = i) <=> (i < nslots /\ slots[i] = NoSlot)
    BY DEF SlotAccounting, l
  <2>2. (\E k \in 1 .. l + n : free_slots'[k] = i)
          <=> (\E k \in 1 .. l : free_slots[k] = i) \/ (\E k \in 1 .. n : idx(k) = i)
    <3>1. \A k \in 1 .. l : k \in 1 .. l + n
      BY <1>1, <1>4
    <3>2. \A k \in 1 .. n : l + k \in 1 .. l + n
      BY <1>1, <1>4
    <3> QED
      BY <3>1, <3>2, <1>4, <1>7
  <2>3. CASE \E k \in 1 .. n : idx(k) = i
    BY <2>2, <2>3, <1>3, <1>5, <1>6
  <2>4. CASE ~\E k \in 1 .. n : idx(k) = i
    BY <2>1, <2>2, <2>4, <1>5, <1>6
  <2> QED
    BY <2>3, <2>4
<1> QED
  BY <1>4, <1>10, <1>11 DEF SlotAccounting

-----------------------------------------------------------------------------
(* The queue: its order, its slots, its waiters.                           *)

\* What a step may do to a queued request's slot: poll it, or mark it.
QueuedKept ==
  \A i \in 1 .. Len(pending_requests) :
    LET k == pending_requests[i].id.idx IN
      /\ slots'[k] # NoSlot
      /\ slots'[k].result = slots[k].result /\ slots'[k].buffer = slots[k].buffer

LEMMA KeepLive ==
  ASSUME QueuedAreLive, QueuedKept, UNCHANGED <<pending_requests, generation, nslots>>
  PROVE  QueuedAreLive'
<1> SUFFICES ASSUME NEW i \in 1 .. Len(pending_requests)
             PROVE  LET r == pending_requests[i] IN
                      /\ Occupied(r.id)'
                      /\ slots'[r.id.idx].result = NoResult /\ slots'[r.id.idx].buffer = 0
  BY DEF QueuedAreLive
<1> QED
  BY DEF QueuedAreLive, QueuedKept, Occupied, is_valid_id

LEMMA KeepOrder ==
  ASSUME InOrder, UNCHANGED <<pending_requests, taken, ops>>
  PROVE  InOrder'
BY DEF InOrder

\* Slots other than the queued ones may change at will.
LEMMA KeepQueue ==
  ASSUME TypeOK, QueuedAreLive, QueuedAreWanted, UNCHANGED <<fut, pending_requests, generation, nslots>>,
         \A i \in 1 .. Len(pending_requests) :
            slots'[pending_requests[i].id.idx] = slots[pending_requests[i].id.idx]
  PROVE  QueuedAreLive' /\ QueuedAreWanted'
<1>1. QueuedKept
  BY DEF QueuedKept, QueuedAreLive, Occupied
<1> QED
  BY <1>1, KeepLive DEF QueuedAreWanted

\* A call of the host on a request it took changes that request's slot only.
LEMMA HostCallQueue ==
  ASSUME TypeOK, IdInv, QueueInv, NEW r \in taken, Occupied(r.id),
         \A i \in Index : i # r.id.idx => slots'[i] = slots[i],
         UNCHANGED <<fut, pending_requests, taken, ops, generation, nslots>>
  PROVE  InOrder' /\ QueuedAreLive' /\ QueuedAreWanted'
<1>1. \A i \in 1 .. Len(pending_requests) :
        slots'[pending_requests[i].id.idx] = slots[pending_requests[i].id.idx]
  BY QueuedTypes, QueuedApart DEF QueueInv
<1> QED
  BY <1>1, KeepQueue, KeepOrder DEF QueueInv

\* The waiting side, when no future blocks and no waker is taken.
LEMMA KeepWaiting ==
  ASSUME QueueInv, woken \subseteq woken', UNCHANGED <<fut, pollVars, submit_wakers>>
  PROVE  TodoIsRunning' /\ BlockedIsRegistered'
BY DEF QueueInv, TodoIsRunning, BlockedIsRegistered, pollVars

\* A request the host took has no room for an overlap with the queue; storing
\* a result or freeing the slot of such a request keeps QueueInv.
LEMMA HostFreeQueue ==
  ASSUME TypeOK, IdInv, QueueInv, NEW r \in taken, Occupied(r.id), free_slot(r.id),
         woken \subseteq woken',
         UNCHANGED <<fut, pollVars, pending_requests, submit_wakers, taken, ops>>
  PROVE  QueueInv'
<1>1. r.id \in Ids /\ r.id.idx \in Index
  BY TakenTypes
<1>2. SlotAccounting'
  BY <1>1, FreeAccounting DEF QueueInv
<1>3. /\ \A i \in Index : i # r.id.idx => slots'[i] = slots[i]
      /\ UNCHANGED <<generation, nslots>>
  BY <1>1 DEF free_slot, TypeOK
<1> QED
  BY <1>2, <1>3, HostCallQueue, KeepWaiting DEF QueueInv

LEMMA HostStoreQueue ==
  ASSUME TypeOK, IdInv, QueueInv, NEW r \in taken, Occupied(r.id), NEW slot \in Slot,
         slots' = [slots EXCEPT ![r.id.idx] = slot], woken \subseteq woken',
         UNCHANGED <<fut, pollVars, pending_requests, submit_wakers, taken, ops,
                     generation, nslots, free_slots>>
  PROVE  QueueInv'
<1>1. r.id.idx \in Index /\ slots[r.id.idx] # NoSlot
  BY TakenTypes DEF Occupied
<1>2. slots'[r.id.idx] = slot /\ slot # NoSlot
  BY <1>1, NullAssumption DEF TypeOK
<1>3. \A i \in Index : i # r.id.idx => slots'[i] = slots[i]
  BY <1>1 DEF TypeOK
<1>4. SlotAccounting'
  BY <1>1, <1>2, <1>3, SameAccounting DEF QueueInv
<1> QED
  BY <1>3, <1>4, HostCallQueue, KeepWaiting DEF QueueInv

LEMMA HostResultQueue ==
  ASSUME TypeOK, IdInv, QueueInv, NEW r \in taken, Occupied(r.id), NEW slot \in Slot,
         NEW data \in {"whole", "truncated", "error"},
         SetResult(r.id, [op |-> r.op, data |-> data], slot),
         UNCHANGED <<fut, pollVars, pending_requests, submit_wakers, taken, ops>>
  PROVE  QueueInv'
<1> DEFINE new == [slot EXCEPT !.result = [op |-> r.op, data |-> data], !.waker = NoTask]
<1>1. [op |-> r.op, data |-> data] \in Results
  BY TakenTypes
<1>2. new \in Slot
  BY <1>1 DEF Slot
<1>3. slots' = [slots EXCEPT ![r.id.idx] = new] /\ woken \subseteq woken'
  BY DEF SetResult, Wake
<1> HIDE DEF new
<1> QED
  BY <1>2, <1>3, HostStoreQueue DEF SetResult

LEMMA CompleteQueue ==
  ASSUME TypeOK, IdInv, QueueInv, NEW r \in taken, NEW data \in {"whole", "error"},
         Complete(r, data)
  PROVE  QueueInv'
<1>1. /\ Occupied(r.id) /\ slots[r.id.idx] \in Slot
      /\ UNCHANGED <<fut, pollVars, pending_requests, submit_wakers, taken, ops>>
  BY TakenTypes DEF Complete
<1>2. \/ free_slot(r.id) /\ UNCHANGED woken
      \/ SetResult(r.id, [op |-> r.op, data |-> data], slots[r.id.idx])
  BY DEF Complete
<1> QED
  BY <1>1, <1>2, HostFreeQueue, HostResultQueue

LEMMA AppendChunkQueue ==
  ASSUME TypeOK, IdInv, QueueInv, NEW r \in taken, NEW n \in 1 .. BufferLimit + 1,
         NEW eof \in BOOLEAN, AppendChunk(r, n, eof)
  PROVE  QueueInv'
<1> DEFINE i == r.id.idx
<1>1. /\ Occupied(r.id) /\ i \in Index /\ slots[i] \in Slot
      /\ UNCHANGED <<fut, pollVars, pending_requests, submit_wakers, taken, ops>>
  BY TakenTypes DEF AppendChunk
<1>2. /\ \A s \in Slot : [s EXCEPT !.overflow = TRUE] \in Slot
      /\ \A s \in Slot, b \in 0 .. BufferLimit : [s EXCEPT !.buffer = b] \in Slot
      /\ 0 \in 0 .. BufferLimit
  <2>1. \A s \in Slot : [s EXCEPT !.overflow = TRUE] \in Slot
    BY DEF Slot
  <2>2. \A s \in Slot, b \in 0 .. BufferLimit : [s EXCEPT !.buffer = b] \in Slot
    BY DEF Slot
  <2> QED
    BY <2>1, <2>2, BoundsAssumption
<1>3. CASE free_slot(r.id) /\ UNCHANGED woken
  BY <1>1, <1>3, HostFreeQueue
<1>4. ASSUME NEW data \in {"whole", "truncated", "error"}, NEW slot \in Slot,
             SetResult(r.id, [op |-> r.op, data |-> data], slot)
      PROVE  QueueInv'
  BY <1>1, <1>4, HostResultQueue
<1>5. CASE /\ ~exceeds_limit(slots[i].buffer, n)
           /\ slots' = [slots EXCEPT ![i].buffer = @ + n]
           /\ UNCHANGED <<generation, nslots, free_slots, woken>>
  <2>1. slots[i].buffer + n \in 0 .. BufferLimit
    BY <1>1, <1>5, BoundsAssumption DEF exceeds_limit, Slot
  <2>2. slots' = [slots EXCEPT ![i] = [slots[i] EXCEPT !.buffer = slots[i].buffer + n]]
    BY <1>5, <1>1 DEF TypeOK
  <2> HIDE DEF i
  <2>3. [slots[i] EXCEPT !.buffer = slots[i].buffer + n] \in Slot
    BY <1>1, <1>2, <2>1
  <2> QED
    BY <1>1, <1>5, <2>2, <2>3, HostStoreQueue DEF i
<1> HIDE DEF i
<1>6. [slots[i] EXCEPT !.overflow = TRUE] \in Slot /\ [slots[i] EXCEPT !.buffer = 0] \in Slot
  BY <1>1, <1>2
<1> QED
  BY <1>3, <1>4, <1>5, <1>6, ChunkCases DEF i

LEMMA clear_bufferQueue ==
  ASSUME TypeOK, IdInv, QueueInv, NEW r \in taken, clear_buffer(r)
  PROVE  QueueInv'
<1> DEFINE i == r.id.idx
<1>1. Occupied(r.id) /\ slots[i] \in Slot
  BY TakenTypes DEF clear_buffer
<1>2. \A s \in Slot : [s EXCEPT !.buffer = 0] \in Slot
  BY BoundsAssumption DEF Slot
<1>3. slots' = [slots EXCEPT ![i] = [slots[i] EXCEPT !.buffer = 0]]
  BY DEF clear_buffer
<1> HIDE DEF i
<1>4. [slots[i] EXCEPT !.buffer = 0] \in Slot
  BY <1>1, <1>2
<1> QED
  BY <1>1, <1>3, <1>4, HostStoreQueue DEF clear_buffer, i

-----------------------------------------------------------------------------
(* The tasks' side of the queue.                                           *)

\* A step after which future f is not blocked, and no other future changes.
LEMMA OtherWaiting ==
  ASSUME TypeOK, QueueInv, NEW f \in Futures,
         \A g \in Futures : g # f => fut'[g] = fut[g],
         fut'[f].st # "blocked", todo' = todo \ {f},
         UNCHANGED <<running, woken, submit_wakers>>
  PROVE  TodoIsRunning' /\ BlockedIsRegistered'
BY DEF QueueInv, TodoIsRunning, BlockedIsRegistered

LEMMA StartPollQueue ==
  ASSUME TypeOK, IdInv, QueueInv, NEW t \in Tasks, StartPoll(t)
  PROVE  QueueInv'
<1>1. SlotAccounting'
  BY SameAccounting DEF StartPoll, slotVars, QueueInv
<1>2. QueuedAreLive' /\ QueuedAreWanted' /\ InOrder'
  BY KeepQueue, KeepOrder DEF StartPoll, slotVars, QueueInv
<1>3. TodoIsRunning'
  BY DEF StartPoll, TodoIsRunning
<1>4. BlockedIsRegistered'
  BY DEF StartPoll, BlockedIsRegistered, QueueInv, Alive, IdInv, OnlyPolled
<1> QED
  BY <1>1, <1>2, <1>3, <1>4 DEF QueueInv

LEMMA EndPollQueue ==
  ASSUME TypeOK, IdInv, QueueInv, EndPoll
  PROVE  QueueInv'
<1>1. SlotAccounting'
  BY SameAccounting DEF EndPoll, slotVars, QueueInv
<1>2. QueuedAreLive' /\ QueuedAreWanted' /\ InOrder'
  BY KeepQueue, KeepOrder DEF EndPoll, slotVars, QueueInv
<1>3. TodoIsRunning' /\ BlockedIsRegistered'
  BY DEF EndPoll, TodoIsRunning, BlockedIsRegistered, QueueInv
<1> QED
  BY <1>1, <1>2, <1>3 DEF QueueInv

\* A future that was not submitted witnesses nothing.
LEMMA KeepWanted ==
  ASSUME TypeOK, QueuedAreLive, QueuedAreWanted, NEW f \in Futures,
         fut[f].st # "submitted", \A g \in Futures : g # f => fut'[g] = fut[g],
         UNCHANGED <<slotVars, pending_requests>>
  PROVE  QueuedAreLive' /\ QueuedAreWanted'
<1>1. QueuedKept
  BY DEF QueuedKept, QueuedAreLive, Occupied, slotVars
<1>2. QueuedAreLive'
  BY <1>1, KeepLive DEF slotVars
<1>3. QueuedAreWanted'
  BY DEF QueuedAreWanted, slotVars
<1> QED
  BY <1>2, <1>3

LEMMA CreateQueue ==
  ASSUME TypeOK, IdInv, QueueInv, NEW f \in Futures, Create(f)
  PROVE  QueueInv'
<1>1. SlotAccounting'
  BY SameAccounting DEF Create, slotVars, QueueInv
<1>2. /\ \A g \in Futures : g # f => fut'[g] = fut[g]
      /\ fut'[f].st = "pending" /\ fut[f].st = "none"
  BY DEF Create, NoFuture, TypeOK
<1>3. QueuedAreLive' /\ QueuedAreWanted' /\ InOrder'
  BY <1>2, KeepWanted, KeepOrder DEF Create, QueueInv
<1>4. TodoIsRunning'
  BY DEF Create, TodoIsRunning, QueueInv
<1>5. BlockedIsRegistered'
  BY <1>2 DEF Create, BlockedIsRegistered, QueueInv
<1> QED
  BY <1>1, <1>3, <1>4, <1>5 DEF QueueInv

\* A future that meets a full queue leaves its task among the wakers.
LEMMA PollBlockedQueue ==
  ASSUME TypeOK, IdInv, QueueInv, NEW f \in Futures, PollBlocked(f)
  PROVE  QueueInv'
<1>1. SlotAccounting'
  BY SameAccounting DEF PollBlocked, slotVars, QueueInv
<1>2. \A g \in Futures : g # f => fut'[g] = fut[g]
  BY DEF PollBlocked, TypeOK
<1>3. QueuedAreLive' /\ QueuedAreWanted' /\ InOrder'
  BY <1>2, KeepWanted, KeepOrder DEF PollBlocked, QueueInv
<1>4. TodoIsRunning' /\ TaskOf[f] = running
  BY DEF PollBlocked, TodoIsRunning, QueueInv
<1>5. /\ submit_wakers \in Seq(Tasks)
      /\ \A i \in 1 .. Len(submit_wakers) :
           i \in 1 .. Len(submit_wakers') /\ submit_wakers'[i] = submit_wakers[i]
      /\ \E i \in 1 .. Len(submit_wakers') : submit_wakers'[i] = running
  <2>1. submit_wakers \in Seq(Tasks) /\ running \in Tasks /\ Len(submit_wakers) \in Nat
    BY DEF TypeOK, PollBlocked, IdInv, OnlyPolled
  <2>2. CASE submit_wakers' = Append(submit_wakers, running)
    <3>1. /\ Len(submit_wakers') = Len(submit_wakers) + 1
          /\ \A i \in 1 .. Len(submit_wakers) : submit_wakers'[i] = submit_wakers[i]
          /\ submit_wakers'[Len(submit_wakers) + 1] = running
      BY <2>1, <2>2, AppendProperties
    <3>2. Len(submit_wakers) + 1 \in 1 .. Len(submit_wakers')
      BY <2>1, <3>1
    <3> QED
      BY <2>1, <3>1, <3>2
  <2>3. CASE /\ \E i \in 1 .. Len(submit_wakers) : submit_wakers[i] = running
             /\ submit_wakers' = submit_wakers
    BY <2>1, <2>3
  <2> QED
    BY <2>2, <2>3 DEF PollBlocked, register_submit_waker
<1>6. BlockedIsRegistered'
  <2> SUFFICES ASSUME NEW g \in Futures, fut'[g].st = "blocked"
               PROVE  \/ \E i \in 1 .. Len(submit_wakers') : submit_wakers'[i] = TaskOf[g]
                      \/ TaskOf[g] \in woken' \cup NoopTasks
                      \/ g \in todo'
    BY DEF BlockedIsRegistered
  <2>1. CASE g = f
    BY <2>1, <1>4, <1>5
  <2>2. CASE g # f
    BY <2>2, <1>2, <1>5 DEF PollBlocked, QueueInv, BlockedIsRegistered
  <2> QED
    BY <2>1, <2>2
<1> QED
  BY <1>1, <1>3, <1>4, <1>6 DEF QueueInv

LEMMA PollWaitQueue ==
  ASSUME TypeOK, IdInv, QueueInv, NEW f \in Futures, PollWait(f)
  PROVE  QueueInv'
<1> DEFINE i == fut[f].id.idx
<1> DEFINE new == [slots[i] EXCEPT !.waker = running]
<1>1. i \in Index /\ slots[i] \in Slot /\ slots[i] # NoSlot /\ running \in Tasks \cup {NoTask}
  BY IdTypes DEF PollWait, Occupied, TypeOK
<1>2. slots' = [slots EXCEPT ![i] = new]
  BY DEF PollWait
<1>3. /\ new.result = slots[i].result /\ new.buffer = slots[i].buffer
      /\ new.cancelled = slots[i].cancelled /\ new \in Slot
  <2> HIDE DEF i
  <2> QED
    BY <1>1 DEF Slot
<1>4. new # NoSlot
  BY <1>3, NullAssumption
<1> HIDE DEF new, i
<1>5. slots'[i] = new /\ \A k \in Index : k # i => slots'[k] = slots[k]
  BY <1>1, <1>2 DEF TypeOK
<1>6. SlotAccounting'
  BY <1>1, <1>4, <1>5, SameAccounting DEF PollWait, QueueInv
<1>7. QueuedKept
  <2> SUFFICES ASSUME NEW j \in 1 .. Len(pending_requests)
               PROVE  LET k == pending_requests[j].id.idx IN
                        /\ slots'[k] # NoSlot /\ slots'[k].result = slots[k].result
                        /\ slots'[k].buffer = slots[k].buffer
    BY DEF QueuedKept
  <2>1. pending_requests[j].id.idx \in Index /\ slots[pending_requests[j].id.idx] # NoSlot
    BY QueuedTypes DEF QueueInv, QueuedAreLive, Occupied
  <2> QED
    BY <2>1, <1>3, <1>4, <1>5
<1>8. QueuedAreLive' /\ InOrder'
  BY <1>7, KeepLive, KeepOrder DEF PollWait, QueueInv
<1>9. QueuedAreWanted'
  <2> SUFFICES ASSUME NEW j \in 1 .. Len(pending_requests),
                      ~slots'[pending_requests[j].id.idx].cancelled
               PROVE  \E g \in Futures : fut[g].st = "submitted" /\ fut[g].id = pending_requests[j].id
    BY DEF PollWait, QueuedAreWanted
  <2>1. pending_requests[j].id.idx \in Index
    BY QueuedTypes
  <2>2. ~slots[pending_requests[j].id.idx].cancelled
    BY <2>1, <1>3, <1>5
  <2> QED
    BY <2>2 DEF QueueInv, QueuedAreWanted
<1>10. TodoIsRunning' /\ BlockedIsRegistered'
  BY OtherWaiting DEF PollWait
<1> QED
  BY <1>6, <1>8, <1>9, <1>10 DEF QueueInv

\* A slot with a result is not that of a queued request, and can be freed.
LEMMA FreeResultQueue ==
  ASSUME TypeOK, IdInv, QueueInv, NEW f \in Futures, fut[f].id \in Ids, Occupied(fut[f].id),
         slots[fut[f].id.idx].result # NoResult, free_slot(fut[f].id),
         \A g \in Futures : g # f => fut'[g] = fut[g],
         UNCHANGED <<pending_requests, taken, ops>>
  PROVE  SlotAccounting' /\ QueuedAreLive' /\ InOrder' /\ QueuedAreWanted'
<1> DEFINE id == fut[f].id
<1>1. SlotAccounting' /\ id.idx \in Index
  BY FreeAccounting, IdTypes DEF QueueInv
<1>2. /\ \A i \in Index : i # id.idx => slots'[i] = slots[i]
      /\ UNCHANGED <<generation, nslots>>
  BY <1>1 DEF free_slot, TypeOK
<1>3. \A i \in 1 .. Len(pending_requests) :
        pending_requests[i].id.idx \in Index /\ pending_requests[i].id.idx # id.idx
  BY QueuedTypes DEF QueueInv, QueuedAreLive
<1>4. QueuedKept
  BY <1>2, <1>3 DEF QueuedKept, QueueInv, QueuedAreLive, Occupied
<1>5. QueuedAreLive' /\ InOrder'
  BY <1>2, <1>4, KeepLive, KeepOrder DEF QueueInv
<1>6. QueuedAreWanted'
  <2> SUFFICES ASSUME NEW j \in 1 .. Len(pending_requests),
                      ~slots'[pending_requests[j].id.idx].cancelled
               PROVE  \E g \in Futures : fut'[g].st = "submitted" /\ fut'[g].id = pending_requests[j].id
    BY DEF QueuedAreWanted
  <2>1. ~slots[pending_requests[j].id.idx].cancelled
    BY <1>2, <1>3
  <2>2. PICK g \in Futures : fut[g].st = "submitted" /\ fut[g].id = pending_requests[j].id
    BY <2>1 DEF QueueInv, QueuedAreWanted
  <2>3. g # f
    BY <2>2, <1>3
  <2> QED
    BY <2>2, <2>3
<1> QED
  BY <1>1, <1>5, <1>6

LEMMA PollReadyQueue ==
  ASSUME TypeOK, IdInv, QueueInv, NEW f \in Futures, PollReady(f)
  PROVE  QueueInv'
<1>1. /\ \A g \in Futures : g # f => fut'[g] = fut[g]
      /\ fut'[f].st = "ready"
  BY DEF PollReady, TypeOK, Future
<1>2. SlotAccounting' /\ QueuedAreLive' /\ InOrder' /\ QueuedAreWanted'
  BY <1>1, IdTypes, FreeResultQueue DEF PollReady
<1>3. TodoIsRunning' /\ BlockedIsRegistered'
  BY <1>1, OtherWaiting DEF PollReady
<1> QED
  BY <1>2, <1>3 DEF QueueInv

\* Dropping a future frees its slot, or marks the request that nobody waits
\* for any more.
LEMMA DropQueue ==
  ASSUME TypeOK, IdInv, QueueInv, NEW f \in Futures, Drop(f)
  PROVE  QueueInv'
<1> DEFINE id == fut[f].id
<1>1. /\ \A g \in Futures : g # f => fut'[g] = fut[g]
      /\ fut'[f].st = "none"
      /\ id \in Ids /\ id.idx \in Index
      /\ UNCHANGED <<pending_requests, taken, ops>>
  BY IdTypes DEF Drop, NoFuture, TypeOK
<1>2. TodoIsRunning' /\ BlockedIsRegistered'
  BY <1>1, OtherWaiting DEF Drop
<1>3. CASE fut[f].st \notin {"submitted", "ready"}
  <2>1. UNCHANGED slotVars
    BY <1>3 DEF Drop
  <2>2. SlotAccounting'
    BY <2>1, SameAccounting DEF slotVars, QueueInv
  <2>3. QueuedAreLive' /\ QueuedAreWanted' /\ InOrder'
    BY <1>1, <1>3, <2>1, KeepWanted, KeepOrder DEF QueueInv
  <2> QED
    BY <1>2, <2>2, <2>3 DEF QueueInv
<1>4. CASE cancel(id) /\ Occupied(id) /\ slots[id.idx].result # NoResult
  <2>1. free_slot(id)
    BY <1>4 DEF cancel
  <2> QED
    BY <1>1, <1>2, <1>4, <2>1, FreeResultQueue DEF QueueInv
<1>5. CASE cancel(id) /\ ~Occupied(id)
  <2>1. UNCHANGED slotVars
    BY <1>5 DEF cancel
  <2>2. SlotAccounting'
    BY <2>1, SameAccounting DEF slotVars, QueueInv
  <2>3. QueuedKept /\ \A i \in 1 .. Len(pending_requests) : pending_requests[i].id # id
    BY <1>5, <2>1 DEF QueuedKept, QueueInv, QueuedAreLive, Occupied, slotVars
  <2>4. QueuedAreLive' /\ InOrder'
    BY <1>1, <2>1, <2>3, KeepLive, KeepOrder DEF QueueInv, slotVars
  <2>5. QueuedAreWanted'
    BY <1>1, <2>1, <2>3 DEF QueueInv, QueuedAreWanted, slotVars
  <2> QED
    BY <1>2, <2>2, <2>4, <2>5 DEF QueueInv
<1>6. CASE cancel(id) /\ Occupied(id) /\ ~(slots[id.idx].result # NoResult)
  <2> DEFINE i == id.idx
  <2> DEFINE new == [slots[i] EXCEPT !.cancelled = TRUE]
  <2>1. i \in Index /\ slots[i] \in Slot /\ slots[i] # NoSlot
    BY <1>1, <1>6 DEF Occupied, TypeOK
  <2>2. slots' = [slots EXCEPT ![i] = new] /\ UNCHANGED <<generation, nslots, free_slots>>
    BY <1>6 DEF cancel
  <2> HIDE DEF i
  <2>3. /\ new.result = slots[i].result /\ new.buffer = slots[i].buffer
        /\ new.cancelled = TRUE /\ new \in Slot /\ new # NoSlot
    BY <2>1, NullAssumption DEF Slot
  <2> HIDE DEF new
  <2>4. slots'[i] = new /\ \A k \in Index : k # i => slots'[k] = slots[k]
    BY <2>1, <2>2 DEF TypeOK
  <2>5. SlotAccounting'
    BY <2>1, <2>2, <2>3, <2>4, SameAccounting DEF QueueInv
  <2>6. QueuedKept
    <3> SUFFICES ASSUME NEW j \in 1 .. Len(pending_requests)
                 PROVE  LET k == pending_requests[j].id.idx IN
                          /\ slots'[k] # NoSlot /\ slots'[k].result = slots[k].result
                          /\ slots'[k].buffer = slots[k].buffer
      BY DEF QueuedKept
    <3>1. pending_requests[j].id.idx \in Index /\ slots[pending_requests[j].id.idx] # NoSlot
      BY QueuedTypes DEF QueueInv, QueuedAreLive, Occupied
    <3> QED
      BY <3>1, <2>3, <2>4
  <2>7. QueuedAreLive' /\ InOrder'
    BY <1>1, <2>2, <2>6, KeepLive, KeepOrder DEF QueueInv
  <2>8. QueuedAreWanted'
    <3> SUFFICES ASSUME NEW j \in 1 .. Len(pending_requests),
                        ~slots'[pending_requests[j].id.idx].cancelled
                 PROVE  \E g \in Futures : fut'[g].st = "submitted" /\ fut'[g].id = pending_requests[j].id
      BY <1>1 DEF QueuedAreWanted
    <3>1. pending_requests[j].id.idx # i /\ pending_requests[j].id.idx \in Index
      BY QueuedTypes, <2>3, <2>4
    <3>2. ~slots[pending_requests[j].id.idx].cancelled /\ pending_requests[j].id # id
      BY <3>1, <2>4 DEF i
    <3>3. PICK g \in Futures : fut[g].st = "submitted" /\ fut[g].id = pending_requests[j].id
      BY <3>2 DEF QueueInv, QueuedAreWanted
    <3> QED
      BY <3>2, <3>3, <1>1
  <2> QED
    BY <1>2, <2>5, <2>7, <2>8 DEF QueueInv
<1> QED
  BY <1>3, <1>4, <1>5, <1>6 DEF Drop

\* A submitted request is the last of the queue, in a slot that was empty.
LEMMA PollSubmitQueue ==
  ASSUME TypeOK, IdInv, QueueInv, NEW f \in Futures, PollSubmit(f)
  PROVE  QueueInv'
<1> DEFINE n == Len(pending_requests)
<1> DEFINE req == [id |-> AllocatedId, op |-> ops + 1]
<1> DEFINE slot == [result |-> NoResult, buffer |-> 0, overflow |-> FALSE,
                    waker |-> running, cancelled |-> FALSE]
<1>1. /\ ops < MaxOps /\ allocate_id(slot) /\ ops' = ops + 1 /\ taken' = taken
      /\ pending_requests' = Append(pending_requests, req) /\ fut[f].st # "submitted"
      /\ Growth /\ ops \in Nat
  BY DEF PollSubmit, Enqueued, TypeOK, IdInv
<1>2. slot \in Slot
  BY BoundsAssumption DEF Slot, TypeOK
<1>3. SlotAccounting' /\ (AllocatedIndex < nslots => slots[AllocatedIndex] = NoSlot)
  BY <1>1, <1>2, AllocateAccounting DEF QueueInv
<1>4. /\ AllocatedIndex < nslots' /\ nslots <= nslots' /\ nslots \in Nat /\ nslots' \in Nat
      /\ generation'[AllocatedIndex] = AllocatedId.gen
      /\ \A i \in Index : i # AllocatedIndex => generation'[i] = generation[i]
      /\ slots'[AllocatedIndex] = slot
      /\ \A i \in Index : i # AllocatedIndex => slots'[i] = slots[i]
  BY <1>1, <1>2, AllocateId DEF SlotsOK, TypeOK
<1>5. AllocatedId \in Ids /\ AllocatedId.idx = AllocatedIndex /\ AllocatedIndex \in Index
  BY <1>1, AllocatedIdType
<1>6. slot.result = NoResult /\ slot.buffer = 0 /\ slot # NoSlot
  BY <1>2, NullAssumption
<1> HIDE DEF slot
<1>7. /\ n \in Nat /\ Len(pending_requests') = n + 1
      /\ \A i \in 1 .. n : pending_requests'[i] = pending_requests[i]
      /\ pending_requests'[n + 1] = req
  BY <1>1, AppendProperties DEF TypeOK
<1>8. /\ \A g \in Futures : g # f => fut'[g] = fut[g]
      /\ fut'[f].st = "submitted" /\ fut'[f].id = AllocatedId
  BY DEF PollSubmit, Enqueued, TypeOK, Future
<1>9. \A i \in 1 .. n + 1 : i \in 1 .. n \/ i = n + 1
  BY <1>7
<1>10. \A i \in 1 .. n :
         LET k == pending_requests[i].id.idx IN
           /\ k \in Index /\ k \in Nat /\ k < nslots /\ k < nslots' /\ k # AllocatedIndex
           /\ slots'[k] = slots[k] /\ generation'[k] = generation[k]
           /\ Occupied(pending_requests[i].id)
  <2> SUFFICES ASSUME NEW i \in 1 .. n
               PROVE  LET k == pending_requests[i].id.idx IN
                        /\ k \in Index /\ k \in Nat /\ k < nslots /\ k < nslots' /\ k # AllocatedIndex
                        /\ slots'[k] = slots[k] /\ generation'[k] = generation[k]
                        /\ Occupied(pending_requests[i].id)
    OBVIOUS
  <2> DEFINE k == pending_requests[i].id.idx
  <2>1. k \in Index /\ Occupied(pending_requests[i].id)
    BY QueuedTypes DEF QueueInv, QueuedAreLive
  <2>2. k \in Nat /\ k < nslots /\ slots[k] # NoSlot
    BY <2>1 DEF Occupied, is_valid_id, Index
  <2>3. k # AllocatedIndex
    BY <2>2, <1>3
  <2> QED
    BY <2>1, <2>2, <2>3, <1>4
<1>11. InOrder'
  <2>1. \A r \in taken : r.op \in Int /\ r.op <= ops
    BY IdTypes DEF QueueInv, InOrder, TypeOK
  <2>2. \A i \in 1 .. n : pending_requests[i].op \in Int /\ pending_requests[i].op <= ops
    BY QueuedTypes DEF QueueInv, InOrder
  <2>3. req.op = ops + 1
    OBVIOUS
  <2>4. ASSUME NEW i \in 1 .. n + 1 PROVE pending_requests'[i].op <= ops + 1
    BY <2>2, <2>3, <1>1, <1>7, <1>9
  <2>5. ASSUME NEW i \in 1 .. n + 1, NEW j \in 1 .. n + 1, i < j
        PROVE  pending_requests'[i].op < pending_requests'[j].op
    <3>1. i \in 1 .. n
      BY <2>5, <1>7, <1>9
    <3>2. CASE j \in 1 .. n
      BY <2>5, <3>1, <3>2, <1>7 DEF QueueInv, InOrder
    <3>3. CASE j = n + 1
      BY <3>1, <3>3, <2>2, <2>3, <1>1, <1>7
    <3> QED
      BY <3>2, <3>3, <1>9
  <2>6. ASSUME NEW r \in taken
        PROVE  r.op <= ops + 1 /\ \A i \in 1 .. n + 1 : r.op < pending_requests'[i].op
    <3>1. \A i \in 1 .. n : r.op < pending_requests'[i].op
      BY <1>7 DEF QueueInv, InOrder
    <3>2. r.op < pending_requests'[n + 1].op /\ r.op <= ops + 1
      BY <2>1, <2>3, <1>1, <1>7
    <3> QED
      BY <3>1, <3>2, <1>9
  <2> QED
    BY <2>4, <2>5, <2>6, <1>1, <1>7 DEF InOrder
<1>12. QueuedAreLive'
  <2> SUFFICES ASSUME NEW i \in 1 .. n + 1
               PROVE  LET r == pending_requests'[i] IN
                        /\ r.id.idx < nslots' /\ generation'[r.id.idx] = r.id.gen
                        /\ slots'[r.id.idx] # NoSlot
                        /\ slots'[r.id.idx].result = NoResult /\ slots'[r.id.idx].buffer = 0
    BY <1>7 DEF QueuedAreLive, Occupied, is_valid_id
  <2>1. CASE i \in 1 .. n
    BY <2>1, <1>7, <1>10 DEF QueueInv, QueuedAreLive, Occupied, is_valid_id
  <2>2. CASE i = n + 1
    BY <2>2, <1>4, <1>5, <1>6, <1>7
  <2> QED
    BY <2>1, <2>2, <1>9
<1>13. QueuedAreWanted'
  <2> SUFFICES ASSUME NEW i \in 1 .. n + 1, ~slots'[pending_requests'[i].id.idx].cancelled
               PROVE  \E g \in Futures : fut'[g].st = "submitted" /\ fut'[g].id = pending_requests'[i].id
    BY <1>7 DEF QueuedAreWanted
  <2>1. CASE i \in 1 .. n
    <3>1. PICK g \in Futures : fut[g].st = "submitted" /\ fut[g].id = pending_requests[i].id
      BY <2>1, <1>7, <1>10 DEF QueueInv, QueuedAreWanted
    <3> QED
      BY <2>1, <3>1, <1>1, <1>7, <1>8
  <2>2. CASE i = n + 1
    BY <2>2, <1>7, <1>8
  <2> QED
    BY <2>1, <2>2, <1>9
<1>14. TodoIsRunning' /\ BlockedIsRegistered'
  BY <1>8, OtherWaiting DEF PollSubmit, Enqueued
<1> QED
  BY <1>3, <1>11, <1>12, <1>13, <1>14 DEF QueueInv

\* What take_pending leaves in the queue is what was behind the request it
\* took; it takes a request that was not cancelled.
LEMMA TakenQueue ==
  ASSUME TypeOK, TakePending
  PROVE  /\ Popped \in 1 .. Len(pending_requests)
         /\ Len(pending_requests') = Len(pending_requests) - Popped
         /\ \A i \in 1 .. Len(pending_requests') :
              /\ Popped + i \in 1 .. Len(pending_requests)
              /\ pending_requests'[i] = pending_requests[Popped + i]
         /\ \A r \in taken' \ taken :
              r = pending_requests[Popped] /\ ~CancelledRequest(r)
<1>1. Popped \in 1 .. Len(pending_requests) /\ Len(pending_requests) \in Nat
  BY PopBounds DEF TakePending, TypeOK
<1>2. /\ Len(pending_requests') = IF Popped + 1 <= Len(pending_requests)
                                  THEN Len(pending_requests) - Popped ELSE 0
      /\ \A k \in 1 .. Len(pending_requests) - Popped :
           pending_requests'[k] = pending_requests[Popped + k]
  BY <1>1 DEF TakePending, TypeOK
<1>3. ASSUME NEW r \in taken' \ taken
      PROVE  r = pending_requests[Popped] /\ ~CancelledRequest(r)
  <2>1. Skipped # 1 .. Len(pending_requests) /\ r = pending_requests[Popped]
    BY DEF TakePending
  <2>2. ~(Cardinality(Skipped) = Len(pending_requests))
    BY <2>1, SkippedPrefix DEF TakePending
  <2> QED
    BY <2>1, <2>2, SkippedPrefix DEF TakePending
<1> QED
  BY <1>1, <1>2, <1>3

LEMMA TakePendingQueue ==
  ASSUME TypeOK, IdInv, QueueInv, TakePending
  PROVE  QueueInv'
<1> DEFINE n == Len(pending_requests)
<1> DEFINE c == Cardinality(Skipped)
<1>1. SlotAccounting'
  BY TakeAccounting DEF QueueInv
<1>2. /\ Popped \in 1 .. n /\ n \in Nat
      /\ Len(pending_requests') = n - Popped
      /\ \A i \in 1 .. n - Popped :
           Popped + i \in 1 .. n /\ pending_requests'[i] = pending_requests[Popped + i]
      /\ \A r \in taken' \ taken : r = pending_requests[Popped]
  BY TakenQueue DEF TypeOK
<1>3. Skipped = 1 .. c /\ c \in 0 .. Popped
  BY SkippedPrefix DEF TakePending
<1> HIDE DEF c, n
<1>4. \A i \in 1 .. n - Popped :
        LET k == pending_requests[Popped + i].id.idx IN k \in Index /\ slots'[k] = slots[k]
  <2> SUFFICES ASSUME NEW i \in 1 .. n - Popped
               PROVE  LET k == pending_requests[Popped + i].id.idx IN
                        k \in Index /\ slots'[k] = slots[k]
    OBVIOUS
  <2> DEFINE k == pending_requests[Popped + i].id.idx
  <2>1. k \in Index
    BY <1>2, QueuedTypes DEF n
  <2>2. \A m \in Skipped : m \in 1 .. n /\ m # Popped + i
    BY <1>2, <1>3
  <2>3. \A m \in Skipped : pending_requests[m].id.idx # k
    BY <2>2, <1>2, QueuedApart DEF QueueInv, n
  <2> QED
    BY <2>1, <2>3 DEF TakePending
<1>5. InOrder'
  <2>1. \A i \in 1 .. n - Popped : pending_requests'[i].op <= ops'
    BY <1>2 DEF QueueInv, InOrder, TakePending, n
  <2>2. ASSUME NEW i \in 1 .. n - Popped, NEW j \in 1 .. n - Popped, i < j
        PROVE  pending_requests'[i].op < pending_requests'[j].op
    <3>1. Popped + i < Popped + j
      BY <1>2, <2>2
    <3> QED
      BY <3>1, <1>2 DEF QueueInv, InOrder, n
  <2>3. ASSUME NEW r \in taken'
        PROVE  r.op <= ops' /\ \A i \in 1 .. n - Popped : r.op < pending_requests'[i].op
    <3>1. CASE r \in taken
      BY <1>2, <3>1 DEF QueueInv, InOrder, TakePending, n
    <3>2. CASE r = pending_requests[Popped]
      <4>1. \A i \in 1 .. n - Popped : Popped < Popped + i
        BY <1>2
      <4> QED
        BY <1>2, <3>2, <4>1 DEF QueueInv, InOrder, TakePending, n
    <3> QED
      BY <3>1, <3>2, <1>2
  <2> QED
    BY <2>1, <2>2, <2>3, <1>2 DEF InOrder
<1>6. QueuedAreLive'
  <2> SUFFICES ASSUME NEW i \in 1 .. n - Popped
               PROVE  LET r == pending_requests'[i] IN
                        /\ r.id.idx < nslots' /\ generation'[r.id.idx] = r.id.gen
                        /\ slots'[r.id.idx] # NoSlot
                        /\ slots'[r.id.idx].result = NoResult /\ slots'[r.id.idx].buffer = 0
    BY <1>2 DEF QueuedAreLive, Occupied, is_valid_id
  <2>1. /\ Popped + i \in 1 .. n /\ pending_requests'[i] = pending_requests[Popped + i]
        /\ nslots' = nslots /\ generation' = generation
    BY <1>2 DEF TakePending
  <2> QED
    BY <2>1, <1>4 DEF QueueInv, QueuedAreLive, Occupied, is_valid_id, n
<1>7. QueuedAreWanted'
  <2> SUFFICES ASSUME NEW i \in 1 .. n - Popped, ~slots'[pending_requests'[i].id.idx].cancelled
               PROVE  \E g \in Futures : fut'[g].st = "submitted" /\ fut'[g].id = pending_requests'[i].id
    BY <1>2 DEF QueuedAreWanted
  <2>1. /\ Popped + i \in 1 .. n /\ pending_requests'[i] = pending_requests[Popped + i]
        /\ fut' = fut
    BY <1>2 DEF TakePending
  <2> QED
    BY <2>1, <1>4 DEF QueueInv, QueuedAreWanted, n
<1>8. TodoIsRunning'
  BY DEF TakePending, TodoIsRunning, QueueInv, pollVars
<1>9. BlockedIsRegistered'
  <2> SUFFICES ASSUME NEW g \in Futures, fut[g].st = "blocked"
               PROVE  \/ \E i \in 1 .. Len(submit_wakers') : submit_wakers'[i] = TaskOf[g]
                      \/ TaskOf[g] \in woken' \cup NoopTasks
                      \/ g \in todo
    BY DEF BlockedIsRegistered, TakePending, pollVars
  <2>1. CASE TaskOf[g] \in woken \cup NoopTasks \/ g \in todo
    BY <2>1 DEF TakePending, Wake
  <2>2. ASSUME NEW i \in 1 .. Len(submit_wakers), submit_wakers[i] = TaskOf[g]
        PROVE  \/ \E k \in 1 .. Len(submit_wakers') : submit_wakers'[k] = TaskOf[g]
               \/ TaskOf[g] \in woken' \cup NoopTasks
    <3>1. Len(submit_wakers) \in Nat
      BY DEF TypeOK
    <3>2. CASE i <= Popped
      <4>1. TaskOf[g] \in WakersOfPops /\ TaskOf[g] # NoTask
        BY <2>2, <3>2, TasksAssumption DEF WakersOfPops
      <4> QED
        BY <4>1 DEF TakePending, Wake
    <3>3. CASE i > Popped
      <4>1. /\ Len(submit_wakers') = Len(submit_wakers) - Popped
            /\ \A k \in 1 .. Len(submit_wakers) - Popped :
                 submit_wakers'[k] = submit_wakers[Popped + k]
        <5>1. \A k \in Popped + 1 .. Len(submit_wakers) : submit_wakers[k] \in Tasks
          BY <1>2, <3>1, ElementOfSeq DEF TypeOK
        <5> QED
          BY <5>1, <1>2, <3>1, <3>3, SubSeqProperties DEF TakePending
      <4>2. i - Popped \in 1 .. Len(submit_wakers) - Popped /\ Popped + (i - Popped) = i
        BY <1>2, <3>1, <3>3
      <4> QED
        BY <2>2, <4>1, <4>2
    <3> QED
      BY <1>2, <3>2, <3>3
  <2> QED
    BY <2>1, <2>2 DEF QueueInv, BlockedIsRegistered
<1> QED
  BY <1>1, <1>5, <1>6, <1>7, <1>8, <1>9 DEF QueueInv

-----------------------------------------------------------------------------
(* The theorems about the queue and the slots.                             *)

ChannelInv == Inv /\ QueueInv

LEMMA InitChannelInv == Init => ChannelInv
<1> SUFFICES ASSUME Init PROVE QueueInv
  BY InitInv DEF ChannelInv
<1>1. Len(pending_requests) = 0 /\ Len(free_slots) = 0 /\ nslots = 0 /\ taken = {}
  BY EmptySeq DEF Init
<1>2. \A f \in Futures : fut[f].st = "none"
  BY DEF Init, NoFuture
<1>3. SlotAccounting
  BY <1>1 DEF SlotAccounting, Index
<1>4. InOrder /\ QueuedAreLive /\ QueuedAreWanted
  BY <1>1 DEF InOrder, QueuedAreLive, QueuedAreWanted
<1>5. TodoIsRunning /\ BlockedIsRegistered
  BY <1>2 DEF Init, TodoIsRunning, BlockedIsRegistered
<1> QED
  BY <1>3, <1>4, <1>5 DEF QueueInv

LEMMA NextQueueInv == ChannelInv /\ [Next]_vars => QueueInv'
<1> SUFFICES ASSUME ChannelInv, [Next]_vars PROVE QueueInv'
  OBVIOUS
<1>0. TypeOK /\ IdInv /\ QueueInv
  BY DEF ChannelInv, Inv
<1>1. ASSUME NEW t \in Tasks, StartPoll(t) PROVE QueueInv'
  BY <1>0, <1>1, StartPollQueue
<1>2. CASE EndPoll
  BY <1>0, <1>2, EndPollQueue
<1>3. ASSUME NEW f \in Futures, Create(f) PROVE QueueInv'
  BY <1>0, <1>3, CreateQueue
<1>4. ASSUME NEW f \in Futures, PollBlocked(f) PROVE QueueInv'
  BY <1>0, <1>4, PollBlockedQueue
<1>5. ASSUME NEW f \in Futures, PollSubmit(f) PROVE QueueInv'
  BY <1>0, <1>5, PollSubmitQueue
<1>6. ASSUME NEW f \in Futures, PollWait(f) PROVE QueueInv'
  BY <1>0, <1>6, PollWaitQueue
<1>7. ASSUME NEW f \in Futures, PollReady(f) PROVE QueueInv'
  BY <1>0, <1>7, PollReadyQueue
<1>8. ASSUME NEW f \in Futures, Drop(f) PROVE QueueInv'
  BY <1>0, <1>8, DropQueue
<1>9. CASE TakePending
  BY <1>0, <1>9, TakePendingQueue
<1>10. ASSUME NEW r \in taken, NEW data \in {"whole", "error"}, Complete(r, data)
       PROVE  QueueInv'
  BY <1>0, <1>10, CompleteQueue
<1>11. ASSUME NEW r \in taken, NEW n \in 1 .. BufferLimit + 1, NEW eof \in BOOLEAN,
              AppendChunk(r, n, eof)
       PROVE  QueueInv'
  BY <1>0, <1>11, AppendChunkQueue
<1>12. ASSUME NEW r \in taken, clear_buffer(r) PROVE QueueInv'
  BY <1>0, <1>12, clear_bufferQueue
<1>13. CASE UNCHANGED vars
  BY <1>0, <1>13 DEF vars, QueueInv, SlotAccounting, InOrder, QueuedAreLive, Occupied,
     is_valid_id, QueuedAreWanted, TodoIsRunning, BlockedIsRegistered
<1> QED
  BY <1>1, <1>2, <1>3, <1>4, <1>5, <1>6, <1>7, <1>8, <1>9, <1>10, <1>11, <1>12,
     <1>13 DEF Next

\* Whichever of take_pending, complete, append_chunk, poll_result and cancel
\* frees a slot, it enters the free list once, and allocate_id hands it to one
\* operation only.
THEOREM SlotsAreAccounted == Spec => []SlotAccounting
<1>1. ChannelInv => SlotAccounting
  BY DEF ChannelInv, QueueInv
<1> QED
  BY InitChannelInv, NextInv, NextQueueInv, <1>1, PTL DEF Spec, ChannelInv

\* A future that HostOpFuture::poll left waiting for room in the queue has its
\* task in submit_wakers, or the task was woken since or is being polled.
THEOREM BlockedAreRegistered == Spec => []BlockedIsRegistered
<1>1. ChannelInv => BlockedIsRegistered
  BY DEF ChannelInv, QueueInv
<1> QED
  BY InitChannelInv, NextInv, NextQueueInv, <1>1, PTL DEF Spec, ChannelInv

\* take_pending hands out requests in the order of their submission, and only
\* requests that a submitted future still waits for.
THEOREM TakenInOrder == Spec => TakenInOrderAndWanted
<1> DEFINE Step == \A r \in taken' \ taken :
                     /\ \A q \in taken : q.op < r.op
                     /\ \E f \in Futures : fut[f].st = "submitted" /\ fut[f].id = r.id
<1>1. ASSUME ChannelInv, [Next]_vars PROVE [Step]_vars
  <2>0. TypeOK /\ QueueInv
    BY <1>1 DEF ChannelInv, Inv
  <2>1. CASE TakePending
    <3> SUFFICES ASSUME NEW r \in taken' \ taken
                 PROVE  /\ \A q \in taken : q.op < r.op
                        /\ \E f \in Futures : fut[f].st = "submitted" /\ fut[f].id = r.id
      OBVIOUS
    <3>1. /\ Popped \in 1 .. Len(pending_requests) /\ r = pending_requests[Popped]
          /\ ~CancelledRequest(r)
      BY <2>0, <2>1, TakenQueue
    <3>2. ~slots[r.id.idx].cancelled
      BY <2>0, <3>1 DEF CancelledRequest, QueueInv, QueuedAreLive, Occupied
    <3> QED
      BY <2>0, <3>1, <3>2 DEF QueueInv, InOrder, QueuedAreWanted
  <2>2. CASE Next /\ ~TakePending
    <3>1. taken' = taken
      BY <2>2 DEF Next, StartPoll, EndPoll, Create, PollBlocked, PollSubmit, Enqueued, PollWait,
         PollReady, Drop, Complete, AppendChunk, clear_buffer
    <3> QED
      BY <3>1
  <2> QED
    BY <1>1, <2>1, <2>2
<1> QED
  BY <1>1, InitChannelInv, NextInv, NextQueueInv, PTL DEF Spec, ChannelInv, TakenInOrderAndWanted
=============================================================================
