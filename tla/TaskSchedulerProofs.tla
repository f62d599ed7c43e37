------------------------- MODULE TaskSchedulerProofs -------------------------
(***************************************************************************)
(* The scheduler's tables, for any number of tasks and any tree of them,   *)
(* however tasks complete, are cancelled and are woken.                    *)
(***************************************************************************)
EXTENDS TaskScheduler, FiniteSetTheorems, NaturalsInduction, WellFoundedInduction, TLAPS

-----------------------------------------------------------------------------
(* Sequences.                                                              *)

(* A set of numbers that has a member has a least one.                     *)
LEMMA LeastNat ==
    ASSUME NEW T \in SUBSET Nat, T # {}
    PROVE  \E x \in T : \A y \in T : x <= y
<1>1. IsWellFoundedOn(OpToRel(<, Nat), Nat)
  BY NatLessThanWellFounded
<1>2. PICK x \in T : \A y \in T : ~(<<y, x>> \in OpToRel(<, Nat))
  BY <1>1, WFMin
<1>3. \A y \in T : ~(y < x)
  BY <1>2 DEF OpToRel
<1> QED BY <1>3

(* What holds of the first number and of the next, holds of all up to n.   *)
LEMMA Upward ==
    ASSUME NEW n \in Nat, NEW a \in Nat, NEW Good,
           a \in Good, \A i \in (a + 1) .. n : i - 1 \in Good => i \in Good
    PROVE  \A i \in a .. n : i \in Good
<1> DEFINE Bad == {i \in a .. n : i \notin Good}
<1> SUFFICES ASSUME Bad # {} PROVE FALSE
  OBVIOUS
<1>1. Bad \in SUBSET Nat
  OBVIOUS
<1>2. PICK i \in Bad : \A j \in Bad : i <= j
  <2> HIDE DEF Bad
  <2> QED BY <1>1, LeastNat
<1>3. i \in a .. n /\ i \notin Good /\ i # a
  BY <1>2
<1>4. i \in (a + 1) .. n /\ i - 1 \in a .. n /\ ~(i <= i - 1)
  BY <1>3
<1>5. i - 1 \notin Bad
  <2> HIDE DEF Bad
  <2> QED BY <1>2, <1>4
<1> QED BY <1>3, <1>4, <1>5

LEMMA Concatenation ==
    ASSUME NEW S, NEW a \in Seq(S), NEW c \in Seq(S)
    PROVE  /\ (a \o c) \in Seq(S) /\ Len(a \o c) = Len(a) + Len(c)
           /\ \A i \in 1 .. Len(a) : (a \o c)[i] = a[i]
           /\ \A i \in 1 .. Len(c) : (a \o c)[Len(a) + i] = c[i]
  OBVIOUS

LEMMA SeqRange ==
    ASSUME NEW S, NEW s \in Seq(S)
    PROVE  /\ Range(s) \subseteq S
           /\ \A x : x \in Range(s) <=> \E i \in 1 .. Len(s) : s[i] = x
           /\ IsInjective(s) <=> \A i, j \in 1 .. Len(s) : s[i] = s[j] => i = j
<1>1. DOMAIN s = 1 .. Len(s) /\ \A i \in 1 .. Len(s) : s[i] \in S
  OBVIOUS
<1> QED BY <1>1 DEF Range, IsInjective

LEMMA ConcatRange ==
    ASSUME NEW S, NEW a \in Seq(S), NEW c \in Seq(S)
    PROVE  /\ Range(a \o c) = Range(a) \cup Range(c)
           /\ IsInjective(a) /\ IsInjective(c) /\ Range(a) \cap Range(c) = {}
                => IsInjective(a \o c)
<1> DEFINE b == a \o c
<1>1. /\ b \in Seq(S) /\ Len(b) = Len(a) + Len(c) /\ Len(a) \in Nat /\ Len(c) \in Nat
      /\ \A i \in 1 .. Len(a) : b[i] = a[i]
      /\ \A i \in 1 .. Len(c) : b[Len(a) + i] = c[i]
  BY Concatenation
<1> HIDE DEF b
<1>2. \A i \in 1 .. Len(b) :
         \/ i \in 1 .. Len(a) /\ b[i] = a[i]
         \/ i - Len(a) \in 1 .. Len(c) /\ b[i] = c[i - Len(a)]
  <2> SUFFICES ASSUME NEW i \in 1 .. Len(b), i \notin 1 .. Len(a)
               PROVE  i - Len(a) \in 1 .. Len(c) /\ b[i] = c[i - Len(a)]
    BY <1>1
  <2>1. i - Len(a) \in 1 .. Len(c) /\ Len(a) + (i - Len(a)) = i
    BY <1>1
  <2> QED BY <1>1, <2>1
<1>3. Range(b) \subseteq Range(a) \cup Range(c)
  <2> SUFFICES ASSUME NEW x \in Range(b) PROVE x \in Range(a) \cup Range(c)
    OBVIOUS
  <2>1. PICK i \in 1 .. Len(b) : b[i] = x
    BY <1>1, SeqRange
  <2> QED BY <1>1, <1>2, <2>1, SeqRange
<1>4. Range(a) \subseteq Range(b)
  <2> SUFFICES ASSUME NEW x \in Range(a) PROVE x \in Range(b)
    OBVIOUS
  <2>1. PICK i \in 1 .. Len(a) : a[i] = x
    BY SeqRange
  <2>2. i \in 1 .. Len(b) /\ b[i] = x
    BY <1>1, <2>1
  <2> QED BY <1>1, <2>2, SeqRange
<1>5. Range(c) \subseteq Range(b)
  <2> SUFFICES ASSUME NEW x \in Range(c) PROVE x \in Range(b)
    OBVIOUS
  <2>1. PICK i \in 1 .. Len(c) : c[i] = x
    BY SeqRange
  <2>2. Len(a) + i \in 1 .. Len(b) /\ b[Len(a) + i] = x
    BY <1>1, <2>1
  <2> QED BY <1>1, <2>2, SeqRange
<1>6. ASSUME IsInjective(a), IsInjective(c), Range(a) \cap Range(c) = {}
      PROVE  IsInjective(b)
  <2> SUFFICES ASSUME NEW i \in 1 .. Len(b), NEW j \in 1 .. Len(b), b[i] = b[j] PROVE i = j
    BY <1>1, SeqRange
  <2>1. CASE i \in 1 .. Len(a) /\ j \in 1 .. Len(a)
    BY <1>1, <1>6, <2>1, SeqRange
  <2>2. CASE i \notin 1 .. Len(a) /\ j \notin 1 .. Len(a)
    <3>1. i - Len(a) = j - Len(a)
      BY <1>2, <1>6, <2>2, SeqRange
    <3> QED BY <1>1, <3>1
  <2>3. CASE i \in 1 .. Len(a) /\ j \notin 1 .. Len(a)
    <3>1. b[i] \in Range(a) /\ b[j] \in Range(c)
      BY <1>1, <1>2, <2>3, SeqRange
    <3> QED BY <1>6, <3>1
  <2>4. CASE i \notin 1 .. Len(a) /\ j \in 1 .. Len(a)
    <3>1. b[j] \in Range(a) /\ b[i] \in Range(c)
      BY <1>1, <1>2, <2>4, SeqRange
    <3> QED BY <1>6, <3>1
  <2> QED BY <2>1, <2>2, <2>3, <2>4
<1> QED BY <1>3, <1>4, <1>5, <1>6 DEF b

LEMMA AppendRange ==
    ASSUME NEW S, NEW s \in Seq(S), NEW x \in S
    PROVE  /\ Append(s, x) \in Seq(S) /\ Range(Append(s, x)) = Range(s) \cup {x}
           /\ IsInjective(s) /\ x \notin Range(s) => IsInjective(Append(s, x))
<1> DEFINE t == Append(s, x)
<1>1. /\ t \in Seq(S) /\ Len(t) = Len(s) + 1 /\ Len(s) \in Nat /\ t[Len(s) + 1] = x
      /\ \A i \in 1 .. Len(s) : t[i] = s[i]
  OBVIOUS
<1> HIDE DEF t
<1>2. \A i \in 1 .. Len(t) : i \in 1 .. Len(s) \/ i = Len(s) + 1
  BY <1>1
<1>3. \A i \in 1 .. Len(s) : i \in 1 .. Len(t)
  BY <1>1
<1>4. Len(s) + 1 \in 1 .. Len(t)
  BY <1>1
<1>5. Range(t) = Range(s) \cup {x}
  BY <1>1, <1>2, <1>3, <1>4, SeqRange
<1>6. ASSUME IsInjective(s), x \notin Range(s) PROVE IsInjective(t)
  <2> SUFFICES ASSUME NEW i \in 1 .. Len(t), NEW j \in 1 .. Len(t), t[i] = t[j] PROVE i = j
    BY <1>1, SeqRange
  <2>1. \A k \in 1 .. Len(s) : t[k] \in Range(s)
    BY <1>1, SeqRange
  <2> QED BY <1>1, <1>2, <1>6, <2>1, SeqRange
<1> QED BY <1>1, <1>5, <1>6 DEF t

(* FlattenSeq puts the sequences one after the other.                      *)
Joined(f, ss, i) == IF i = 1 THEN ss[i] ELSE f[i - 1] \o ss[i]
LEMMA FlattenExists ==
    ASSUME NEW ss, NEW n \in Nat
    PROVE  \E f : f = [i \in 1 .. n |-> Joined(f, ss, i)]
<1> DEFINE Has(m) == \E f : f = [i \in 1 .. m |-> Joined(f, ss, i)]
           Good == {m \in 0 .. n : Has(m)}
<1>1. Has(0)
  <2>1. [i \in 1 .. 0 |-> <<>>] = [i \in 1 .. 0 |-> Joined([k \in 1 .. 0 |-> <<>>], ss, i)]
    OBVIOUS
  <2> QED BY <2>1
<1>2. ASSUME NEW m \in 1 .. n, Has(m - 1) PROVE Has(m)
  <2>1. PICK f : f = [i \in 1 .. (m - 1) |-> Joined(f, ss, i)]
    BY <1>2
  <2> DEFINE g == [i \in 1 .. m |-> IF i < m THEN f[i] ELSE Joined(f, ss, i)]
  <2>2. ASSUME NEW i \in 1 .. m PROVE g[i] = Joined(g, ss, i)
    <3>1. i # 1 => g[i - 1] = f[i - 1]
      OBVIOUS
    <3>2. i < m => f[i] = Joined(f, ss, i)
      <4>1. i < m => i \in 1 .. (m - 1)
        OBVIOUS
      <4> QED BY <2>1, <4>1
    <3>3. g[i] = Joined(f, ss, i)
      BY <3>2
    <3> HIDE DEF g
    <3> QED BY <3>1, <3>3 DEF Joined
  <2>3. g = [i \in 1 .. m |-> g[i]]
    OBVIOUS
  <2> HIDE DEF g
  <2>4. g = [i \in 1 .. m |-> Joined(g, ss, i)]
    BY <2>2, <2>3
  <2> QED BY <2>4
<1>3. \A m \in 0 .. n : m \in Good
  <2> HIDE DEF Has
  <2>1. 0 \in Good
    BY <1>1
  <2>2. ASSUME NEW m \in (0 + 1) .. n, m - 1 \in Good PROVE m \in Good
    BY <1>2, <2>2
  <2> HIDE DEF Good
  <2> QED BY <2>1, <2>2, Upward
<1>4. Has(n)
  <2> HIDE DEF Has
  <2> QED BY <1>3
<1> QED BY <1>4

LEMMA FlattenRange ==
    ASSUME NEW S, NEW ss \in Seq(Seq(S))
    PROVE  /\ FlattenSeq(ss) \in Seq(S)
           /\ \A x : x \in Range(FlattenSeq(ss)) <=> \E i \in 1 .. Len(ss) : x \in Range(ss[i])
           /\ (/\ \A i \in 1 .. Len(ss) : IsInjective(ss[i])
               /\ \A i, j \in 1 .. Len(ss) : i # j => Range(ss[i]) \cap Range(ss[j]) = {})
                => IsInjective(FlattenSeq(ss))
<1> DEFINE n == Len(ss)
           F == CHOOSE f : f = [i \in 1 .. n |-> Joined(f, ss, i)]
<1>0. n \in Nat /\ \A i \in 1 .. n : ss[i] \in Seq(S)
  OBVIOUS
<1>1. CASE n = 0
  <2>1. FlattenSeq(ss) = <<>> /\ ss = <<>>
    BY <1>1 DEF FlattenSeq
  <2>2. <<>> \in Seq(S) /\ Range(<<>>) = {} /\ IsInjective(<<>>)
    BY DEF Range, IsInjective
  <2> QED BY <1>1, <2>1, <2>2
<1>2. CASE n # 0
  <2>1. F = [i \in 1 .. n |-> Joined(F, ss, i)]
    BY <1>0, FlattenExists
  <2>2. FlattenSeq(ss) = F[n]
    BY <1>2 DEF FlattenSeq, Joined
  <2> HIDE DEF F, n
  <2>3. n >= 1
    BY <1>0, <1>2
  <2> DEFINE Disjoint == /\ \A i \in 1 .. n : IsInjective(ss[i])
                         /\ \A i, j \in 1 .. n : i # j => Range(ss[i]) \cap Range(ss[j]) = {}
             Ok(m) == /\ F[m] \in Seq(S)
                      /\ \A x : x \in Range(F[m]) <=> \E i \in 1 .. m : x \in Range(ss[i])
                      /\ Disjoint => IsInjective(F[m])
             Good == {m \in 1 .. n : Ok(m)}
  <2>4. 1 \in Good
    <3>1. F[1] = ss[1] /\ 1 \in 1 .. n
      BY <2>1, <2>3, <1>0 DEF Joined
    <3>2. \A i \in 1 .. 1 : i = 1
      OBVIOUS
    <3> QED BY <1>0, <3>1, <3>2
  <2>5. ASSUME NEW m \in (1 + 1) .. n, m - 1 \in Good PROVE m \in Good
    <3>0. m \in 1 .. n /\ m - 1 \in 1 .. n /\ m # 1
      BY <1>0
    <3>1. F[m] = F[m - 1] \o ss[m]
      BY <2>1, <3>0 DEF Joined
    <3>2. F[m - 1] \in Seq(S) /\ ss[m] \in Seq(S)
      BY <1>0, <2>5, <3>0
    <3>3. F[m] \in Seq(S) /\ Range(F[m]) = Range(F[m - 1]) \cup Range(ss[m])
      BY <3>1, <3>2, Concatenation, ConcatRange
    <3>4. \A i : i \in 1 .. m <=> i \in 1 .. (m - 1) \/ i = m
      BY <1>0
    <3>5. \A x : x \in Range(F[m]) <=> \E i \in 1 .. m : x \in Range(ss[i])
      BY <2>5, <3>3, <3>4
    <3>6. ASSUME Disjoint PROVE IsInjective(F[m])
      <4>1. IsInjective(F[m - 1]) /\ IsInjective(ss[m])
        BY <2>5, <3>0, <3>6
      <4>2. Range(F[m - 1]) \cap Range(ss[m]) = {}
        <5> SUFFICES ASSUME NEW x \in Range(F[m - 1]), x \in Range(ss[m]) PROVE FALSE
          OBVIOUS
        <5>1. PICK i \in 1 .. (m - 1) : x \in Range(ss[i])
          BY <2>5
        <5>2. i \in 1 .. n /\ i # m
          BY <1>0, <3>0
        <5> QED BY <3>0, <3>6, <5>1, <5>2
      <4> QED BY <3>1, <3>2, <4>1, <4>2, ConcatRange
    <3> HIDE DEF Disjoint
    <3> QED BY <3>0, <3>3, <3>5, <3>6
  <2>6. n \in Good
    <3> HIDE DEF Good
    <3>1. \A m \in 1 .. n : m \in Good
      BY <1>0, <2>4, <2>5, Upward
    <3> QED BY <1>0, <2>3, <3>1
  <2> QED BY <2>2, <2>6 DEF n
<1> QED BY <1>1, <1>2

LEMMA FilterRange ==
    ASSUME NEW S, NEW s \in Seq(S), NEW T
    PROVE  /\ Filter(s, T) \in Seq(S)
           /\ Range(Filter(s, T)) = Range(s) \cap T
           /\ IsInjective(s) => IsInjective(Filter(s, T))
<1> DEFINE one(i) == IF s[i] \in T THEN <<s[i]>> ELSE <<>>
           ss == [i \in 1 .. Len(s) |-> one(i)]
<1>1. \A i \in 1 .. Len(s) :
         /\ one(i) \in Seq(S) /\ IsInjective(one(i))
         /\ Range(one(i)) = IF s[i] \in T THEN {s[i]} ELSE {}
  BY DEF Range, IsInjective
<1> HIDE DEF one
<1>2. ss \in Seq(Seq(S)) /\ Len(ss) = Len(s) /\ \A i \in 1 .. Len(s) : ss[i] = one(i)
  BY <1>1
<1>3. Filter(s, T) = FlattenSeq(ss)
  BY DEF Filter, one
<1> HIDE DEF ss
<1>4. /\ FlattenSeq(ss) \in Seq(S)
      /\ \A x : x \in Range(FlattenSeq(ss)) <=> \E i \in 1 .. Len(ss) : x \in Range(ss[i])
      /\ (/\ \A i \in 1 .. Len(ss) : IsInjective(ss[i])
          /\ \A i, j \in 1 .. Len(ss) : i # j => Range(ss[i]) \cap Range(ss[j]) = {})
           => IsInjective(FlattenSeq(ss))
  BY ONLY <1>2, FlattenRange
<1>5. Range(FlattenSeq(ss)) = Range(s) \cap T
  <2> SUFFICES ASSUME NEW x PROVE x \in Range(FlattenSeq(ss)) <=> x \in Range(s) /\ x \in T
    OBVIOUS
  <2>1. x \in Range(FlattenSeq(ss)) <=> \E i \in 1 .. Len(s) : s[i] \in T /\ x = s[i]
    <3>1. \A i \in 1 .. Len(s) : x \in Range(ss[i]) <=> s[i] \in T /\ x = s[i]
      BY <1>1, <1>2
    <3> QED BY <1>2, <1>4, <3>1
  <2> QED BY <2>1, SeqRange
<1>6. ASSUME IsInjective(s) PROVE IsInjective(FlattenSeq(ss))
  <2>1. ASSUME NEW i \in 1 .. Len(s), NEW j \in 1 .. Len(s), i # j
        PROVE  Range(ss[i]) \cap Range(ss[j]) = {}
    <3>1. s[i] # s[j]
      BY <1>6, <2>1, SeqRange
    <3> QED BY <1>1, <1>2, <3>1
  <2>2. \A i \in 1 .. Len(ss) : IsInjective(ss[i])
    BY <1>1, <1>2
  <2>3. \A i, j \in 1 .. Len(ss) : i # j => Range(ss[i]) \cap Range(ss[j]) = {}
    BY <1>2, <2>1
  <2> QED BY ONLY <1>4, <2>2, <2>3
<1> QED BY <1>3, <1>4, <1>5, <1>6

-----------------------------------------------------------------------------
(* The tree.  A task was placed after its parent, so its handle has the    *)
(* greater number: that is what ends the recursion of a cancellation.      *)

(* The handles whose tasks have left the spawn queue are those up to here. *)
Placed == spawned - Len(spawn_queue)

(* The ID of a task that is, or was, in a slot.                            *)
KnownId(id) == id \in TaskId /\ id.slot < nslots /\ id.generation <= generations[id.slot]

GoodTask(id) ==
    LET t == TaskOf(id) IN
    /\ t.h <= Placed /\ handles[t.h].id = id
    /\ IsInjective(t.children)
    /\ Range(t.children) = {c \in Tasks : TaskOf(c).parent = id}
    /\ t.parent = NoTask <=> t.root = id
    /\ t.parent = NoTask \/ KnownId(t.parent)
    /\ KnownId(t.root)
    /\ Present(t.parent) => TaskOf(t.parent).root = t.root /\ TaskOf(t.parent).h < t.h
TreeInv == \A id \in Tasks : GoodTask(id)

LEMMA TaskFacts ==
    ASSUME TypeOK, NEW id \in Tasks
    PROVE  /\ id \in TaskId /\ Present(id) /\ id.slot \in Slots /\ id.slot < nslots
           /\ id = [slot |-> id.slot, generation |-> generations[id.slot]]
           /\ TaskOf(id) = tasks[id.slot] /\ TaskOf(id) \in Task
           /\ TaskOf(id).h \in Handles /\ TaskOf(id).h \in Nat
           /\ TaskOf(id).children \in Seq(TaskId)
           /\ TaskOf(id).parent \in TaskId \cup {NoTask} /\ TaskOf(id).root \in TaskId
<1>1. id \in TaskId /\ Present(id)
  BY DEF Tasks
<1>2. id.slot \in Slots /\ id = [slot |-> id.slot, generation |-> id.generation]
  BY <1>1 DEF TaskId
<1>3. tasks[id.slot] # NoTask /\ id.slot < nslots /\ generations[id.slot] = id.generation
  BY <1>1 DEF Present, Occupied
<1>4. tasks[id.slot] \in Task
  BY <1>2, <1>3 DEF TypeOK
<1>5. /\ tasks[id.slot].h \in Handles /\ tasks[id.slot].children \in Seq(TaskId)
      /\ tasks[id.slot].parent \in TaskId \cup {NoTask} /\ tasks[id.slot].root \in TaskId
  BY <1>4 DEF Task
<1>6. tasks[id.slot].h \in Nat
  BY <1>5, TaskBounds DEF Handles
<1> QED BY <1>1, <1>2, <1>3, <1>4, <1>5, <1>6 DEF TaskOf

(* The tasks of two IDs in one slot are the same.                          *)
LEMMA OneTaskPerSlot ==
    ASSUME TypeOK, NEW a \in Tasks, NEW b \in Tasks, a.slot = b.slot
    PROVE  a = b
<1>1. a = [slot |-> a.slot, generation |-> generations[a.slot]]
  BY TaskFacts
<1>2. b = [slot |-> b.slot, generation |-> generations[b.slot]]
  BY TaskFacts
<1> QED BY <1>1, <1>2

(* A sequence of the tasks of the subtree of id: everything below a member *)
(* is a member, what is above a member is one up to id.                    *)
Subtree(dead, id) ==
    /\ dead \in Seq(TaskId) /\ IsInjective(dead)
    /\ id \in Range(dead) /\ Range(dead) \subseteq Tasks
    /\ \A x \in Range(dead), c \in Tasks : TaskOf(c).parent = x => c \in Range(dead)
    /\ \A x \in Range(dead) : x # id => TaskOf(x).parent \in Range(dead)
    /\ \A x \in Range(dead) : TaskOf(x).h >= TaskOf(id).h

(* The subtrees of two children have nothing in common.                    *)
LEMMA ApartFromSiblings ==
    ASSUME TypeOK, TreeInv, NEW id \in Tasks, NEW b \in Tasks, NEW c \in Tasks,
           TaskOf(b).parent = id, TaskOf(c).parent = id, b # c,
           NEW s, NEW t, Subtree(s, b), Subtree(t, c)
    PROVE  Range(s) \cap Range(t) = {}
<1> SUFFICES ASSUME NEW y \in Range(s) \cap Range(t) PROVE FALSE
  OBVIOUS
<1> DEFINE both == Range(s) \cap Range(t)
           ranks == {TaskOf(x).h : x \in both}
<1>1. both \subseteq Tasks
  BY DEF Subtree
<1>2. ranks \in SUBSET Nat /\ ranks # {}
  BY <1>1, TaskFacts
<1>3. PICK r \in ranks : \A q \in ranks : r <= q
  <2> HIDE DEF ranks
  <2> QED BY <1>2, LeastNat
<1>4. PICK x \in both : r = TaskOf(x).h
  BY <1>3
<1>5. \A z \in both : TaskOf(x).h <= TaskOf(z).h
  BY <1>3, <1>4
<1>6. /\ \A z \in Tasks : TaskOf(z).h \in Nat /\ Present(z)
      /\ \A z \in Tasks : Present(TaskOf(z).parent) => TaskOf(TaskOf(z).parent).h < TaskOf(z).h
  BY TaskFacts DEF TreeInv, GoodTask
<1>7. x # b /\ x # c => FALSE
  <2> SUFFICES ASSUME x # b, x # c PROVE FALSE
    OBVIOUS
  <2>1. TaskOf(x).parent \in both /\ TaskOf(x).parent \in Tasks /\ x \in Tasks
    BY <1>1, <1>4 DEF Subtree
  <2>2. TaskOf(TaskOf(x).parent).h < TaskOf(x).h
    BY <1>6, <2>1
  <2>3. TaskOf(x).h <= TaskOf(TaskOf(x).parent).h
    BY <1>5, <2>1
  <2>4. TaskOf(x).h \in Nat /\ TaskOf(TaskOf(x).parent).h \in Nat
    BY <1>6, <2>1
  <2> QED BY <2>2, <2>3, <2>4
<1>8. TaskOf(id).h < TaskOf(b).h /\ TaskOf(id).h < TaskOf(c).h
  BY <1>6
<1>9. x = b => FALSE
  <2> SUFFICES ASSUME x = b PROVE FALSE
    OBVIOUS
  <2>1. id \in Range(t)
    BY <1>4 DEF Subtree
  <2>2. TaskOf(id).h >= TaskOf(c).h
    BY <2>1 DEF Subtree
  <2> QED BY <1>6, <1>8, <2>2
<1>10. x = c => FALSE
  <2> SUFFICES ASSUME x = c PROVE FALSE
    OBVIOUS
  <2>1. id \in Range(s)
    BY <1>4 DEF Subtree
  <2>2. TaskOf(id).h >= TaskOf(b).h
    BY <2>1 DEF Subtree
  <2> QED BY <1>6, <1>8, <2>2
<1> QED BY <1>7, <1>9, <1>10

LEMMA Forest ==
    ASSUME TypeOK, TreeInv, NEW id \in Tasks, NEW subs,
           subs = [i \in 1 .. Len(TaskOf(id).children) |-> subs[i]],
           \A i \in 1 .. Len(TaskOf(id).children) : Subtree(subs[i], TaskOf(id).children[i])
    PROVE  Subtree(Append(FlattenSeq(subs), id), id)
<1> DEFINE ch == TaskOf(id).children
           n == Len(ch)
           flat == FlattenSeq(subs)
           dead == Append(flat, id)
<1>1. /\ ch \in Seq(TaskId) /\ n \in Nat /\ id \in TaskId
      /\ \A i, j \in 1 .. n : ch[i] = ch[j] => i = j
      /\ \A c : (\E i \in 1 .. n : ch[i] = c) <=> c \in Tasks /\ TaskOf(c).parent = id
  <2>1. ch \in Seq(TaskId) /\ id \in TaskId
    BY TaskFacts
  <2>2. IsInjective(ch) /\ Range(ch) = {c \in Tasks : TaskOf(c).parent = id}
    BY DEF TreeInv, GoodTask
  <2> HIDE DEF ch
  <2> QED BY <2>1, <2>2, SeqRange
<1> HIDE DEF ch, n
<1>2. /\ subs \in Seq(Seq(TaskId)) /\ Len(subs) = n
      /\ \A i \in 1 .. n : Subtree(subs[i], ch[i]) /\ IsInjective(subs[i])
  <2>1. subs = [i \in 1 .. n |-> subs[i]] /\ \A i \in 1 .. n : Subtree(subs[i], ch[i])
    BY DEF n, ch
  <2>2. \A i \in 1 .. n : subs[i] \in Seq(TaskId) /\ IsInjective(subs[i])
    BY <2>1 DEF Subtree
  <2>3. subs \in Seq(Seq(TaskId)) /\ Len(subs) = n
    BY ONLY <1>1, <2>1, <2>2
  <2> QED BY <2>1, <2>2, <2>3
<1>3. /\ flat \in Seq(TaskId)
      /\ \A x : x \in Range(flat) <=> \E i \in 1 .. n : x \in Range(subs[i])
      /\ IsInjective(flat)
  <2>1. ASSUME NEW i \in 1 .. n, NEW j \in 1 .. n, i # j
        PROVE  Range(subs[i]) \cap Range(subs[j]) = {}
    <3>1. /\ ch[i] \in Tasks /\ TaskOf(ch[i]).parent = id
          /\ ch[j] \in Tasks /\ TaskOf(ch[j]).parent = id /\ ch[i] # ch[j]
      BY <1>1, <2>1
    <3> QED BY <1>2, <3>1, ApartFromSiblings
  <2> QED BY <1>2, <2>1, FlattenRange
<1>4. \A i \in 1 .. n : /\ ch[i] \in Tasks /\ TaskOf(ch[i]).parent = id
                        /\ TaskOf(id).h < TaskOf(ch[i]).h
  <2>1. \A c \in Tasks : TaskOf(c).parent = id => TaskOf(id).h < TaskOf(c).h
    BY TaskFacts DEF TreeInv, GoodTask
  <2> QED BY <1>1, <2>1
<1>5. /\ TaskOf(id).h \in Nat
      /\ \A x \in Range(flat) : x \in Tasks /\ TaskOf(x).h > TaskOf(id).h /\ TaskOf(x).h \in Nat
  <2> SUFFICES ASSUME NEW x \in Range(flat)
               PROVE  x \in Tasks /\ TaskOf(x).h > TaskOf(id).h /\ TaskOf(x).h \in Nat
    BY TaskFacts
  <2>1. PICK i \in 1 .. n : x \in Range(subs[i])
    BY <1>3
  <2>2. x \in Tasks /\ TaskOf(x).h >= TaskOf(ch[i]).h
    BY <1>2, <2>1 DEF Subtree
  <2>3. TaskOf(x).h \in Nat /\ TaskOf(ch[i]).h \in Nat /\ TaskOf(id).h \in Nat
    BY <1>4, <2>2, TaskFacts
  <2> QED BY <1>4, <2>2, <2>3
<1>6. id \notin Range(flat)
  BY <1>5
<1>7. dead \in Seq(TaskId) /\ IsInjective(dead) /\ Range(dead) = Range(flat) \cup {id}
  <2> HIDE DEF flat
  <2>1. flat \in Seq(TaskId) /\ id \in TaskId /\ IsInjective(flat)
    BY <1>1, <1>3
  <2> QED BY ONLY <1>6, <2>1, AppendRange
<1> HIDE DEF flat, dead
<1>8. ASSUME NEW x \in Range(dead), NEW c \in Tasks, TaskOf(c).parent = x
      PROVE  c \in Range(dead)
  <2>1. CASE x = id
    <3>1. PICK i \in 1 .. n : ch[i] = c
      BY <1>1, <1>8, <2>1
    <3>2. c \in Range(subs[i])
      BY <1>2, <3>1 DEF Subtree
    <3> QED BY <1>3, <1>7, <3>2
  <2>2. CASE x \in Range(flat)
    <3>1. PICK i \in 1 .. n : x \in Range(subs[i])
      BY <1>3, <2>2
    <3>2. c \in Range(subs[i])
      BY <1>2, <1>8, <3>1 DEF Subtree
    <3> QED BY <1>3, <1>7, <3>2
  <2> QED BY <1>7, <2>1, <2>2
<1>9. ASSUME NEW x \in Range(dead), x # id PROVE TaskOf(x).parent \in Range(dead)
  <2>1. PICK i \in 1 .. n : x \in Range(subs[i])
    BY <1>3, <1>7, <1>9
  <2>2. CASE x = ch[i]
    BY <1>4, <1>7, <2>2
  <2>3. CASE x # ch[i]
    <3>1. TaskOf(x).parent \in Range(subs[i])
      BY <1>2, <2>1, <2>3 DEF Subtree
    <3> QED BY <1>3, <1>7, <3>1
  <2> QED BY <2>2, <2>3
<1>10. \A x \in Range(dead) : TaskOf(x).h >= TaskOf(id).h /\ x \in Tasks
  BY <1>5, <1>7
<1> QED BY <1>7, <1>8, <1>9, <1>10 DEF Subtree, dead, flat

(* The recursive functions PostOrder and Top exist: each depth is defined  *)
(* from the one below it.                                                  *)
Visit(f, d, id) ==
    IF ~Present(id) \/ d = 0 THEN <<>>
    ELSE Append(FlattenSeq([i \in 1 .. Len(TaskOf(id).children) |->
                              f[d - 1][TaskOf(id).children[i]]]),
                id)
LEMMA PostOrderExists ==
    ASSUME NEW n \in Nat
    PROVE  \E f : f = [d \in 0 .. n |-> [id \in TaskId |-> Visit(f, d, id)]]
<1> DEFINE Has(m) == \E f : f = [d \in 0 .. m |-> [id \in TaskId |-> Visit(f, d, id)]]
           Good == {m \in 0 .. n : Has(m)}
<1>1. Has(0)
  <2> DEFINE g == [d \in 0 .. 0 |-> [id \in TaskId |-> <<>>]]
  <2>1. \A d \in 0 .. 0, id \in TaskId : Visit(g, d, id) = <<>>
    BY DEF Visit
  <2> QED BY <2>1
<1>2. ASSUME NEW m \in 1 .. n, Has(m - 1) PROVE Has(m)
  <2>1. PICK f : f = [d \in 0 .. (m - 1) |-> [id \in TaskId |-> Visit(f, d, id)]]
    BY <1>2
  <2> DEFINE g == [d \in 0 .. m |-> IF d < m THEN f[d] ELSE [id \in TaskId |-> Visit(f, d, id)]]
  <2>2. ASSUME NEW d \in 0 .. m PROVE g[d] = [id \in TaskId |-> Visit(g, d, id)]
    <3>1. d # 0 => g[d - 1] = f[d - 1]
      OBVIOUS
    <3>2. d < m => f[d] = [id \in TaskId |-> Visit(f, d, id)]
      <4>1. d < m => d \in 0 .. (m - 1)
        OBVIOUS
      <4> QED BY <2>1, <4>1
    <3>3. g[d] = [id \in TaskId |-> Visit(f, d, id)]
      BY <3>2
    <3> HIDE DEF g
    <3>4. \A id \in TaskId : Visit(f, d, id) = Visit(g, d, id)
      BY <3>1 DEF Visit
    <3> QED BY <3>3, <3>4
  <2>3. g = [d \in 0 .. m |-> g[d]]
    OBVIOUS
  <2> HIDE DEF g
  <2>4. g = [d \in 0 .. m |-> [id \in TaskId |-> Visit(g, d, id)]]
    BY <2>2, <2>3
  <2> QED BY <2>4
<1> HIDE DEF Has
<1>3. \A m \in 0 .. n : m \in Good
  <2>1. 0 \in Good
    BY <1>1
  <2>2. ASSUME NEW m \in (0 + 1) .. n, m - 1 \in Good PROVE m \in Good
    BY <1>2, <2>2
  <2> HIDE DEF Good
  <2> QED BY <2>1, <2>2, Upward
<1>4. Has(n)
  BY <1>3
<1> QED BY <1>4 DEF Has

LEMMA PostOrderStep ==
    ASSUME NEW d \in 0 .. MaxTasks, NEW id \in TaskId
    PROVE  PostOrder[d][id] = Visit(PostOrder, d, id)
<1> DEFINE Def(f) == f = [e \in 0 .. MaxTasks |-> [x \in TaskId |-> Visit(f, e, x)]]
<1>1. PostOrder = CHOOSE f : Def(f)
  BY DEF PostOrder, Visit
<1>2. \E f : Def(f)
  BY PostOrderExists, TaskBounds
<1>3. Def(PostOrder)
  <2> HIDE DEF Def
  <2> QED BY <1>1, <1>2
<1>4. PostOrder[d] = [x \in TaskId |-> Visit(PostOrder, d, x)]
  BY ONLY <1>3, d \in 0 .. MaxTasks
<1> QED BY ONLY <1>4, id \in TaskId

Climb(f, d, id) ==
    IF ~Present(id) \/ d = 0 THEN NoTask
    ELSE IF TaskOf(id).parent = NoTask THEN id
    ELSE f[d - 1][TaskOf(id).parent]
LEMMA TopExists ==
    ASSUME NEW n \in Nat
    PROVE  \E f : f = [d \in 0 .. n |-> [id \in TaskId |-> Climb(f, d, id)]]
<1> DEFINE Has(m) == \E f : f = [d \in 0 .. m |-> [id \in TaskId |-> Climb(f, d, id)]]
           Good == {m \in 0 .. n : Has(m)}
<1>1. Has(0)
  <2> DEFINE g == [d \in 0 .. 0 |-> [id \in TaskId |-> NoTask]]
  <2>1. \A d \in 0 .. 0, id \in TaskId : Climb(g, d, id) = NoTask
    BY DEF Climb
  <2> QED BY <2>1
<1>2. ASSUME NEW m \in 1 .. n, Has(m - 1) PROVE Has(m)
  <2>1. PICK f : f = [d \in 0 .. (m - 1) |-> [id \in TaskId |-> Climb(f, d, id)]]
    BY <1>2
  <2> DEFINE g == [d \in 0 .. m |-> IF d < m THEN f[d] ELSE [id \in TaskId |-> Climb(f, d, id)]]
  <2>2. ASSUME NEW d \in 0 .. m PROVE g[d] = [id \in TaskId |-> Climb(g, d, id)]
    <3>1. d # 0 => g[d - 1] = f[d - 1]
      OBVIOUS
    <3>2. d < m => f[d] = [id \in TaskId |-> Climb(f, d, id)]
      <4>1. d < m => d \in 0 .. (m - 1)
        OBVIOUS
      <4> QED BY <2>1, <4>1
    <3>3. g[d] = [id \in TaskId |-> Climb(f, d, id)]
      BY <3>2
    <3> HIDE DEF g
    <3>4. \A id \in TaskId : Climb(f, d, id) = Climb(g, d, id)
      BY <3>1 DEF Climb
    <3> QED BY <3>3, <3>4
  <2>3. g = [d \in 0 .. m |-> g[d]]
    OBVIOUS
  <2> HIDE DEF g
  <2>4. g = [d \in 0 .. m |-> [id \in TaskId |-> Climb(g, d, id)]]
    BY <2>2, <2>3
  <2> QED BY <2>4
<1> HIDE DEF Has
<1>3. \A m \in 0 .. n : m \in Good
  <2>1. 0 \in Good
    BY <1>1
  <2>2. ASSUME NEW m \in (0 + 1) .. n, m - 1 \in Good PROVE m \in Good
    BY <1>2, <2>2
  <2> HIDE DEF Good
  <2> QED BY <2>1, <2>2, Upward
<1>4. Has(n)
  BY <1>3
<1> QED BY <1>4 DEF Has

LEMMA TopStep ==
    ASSUME NEW d \in 0 .. MaxTasks, NEW id \in TaskId
    PROVE  Top[d][id] = Climb(Top, d, id)
<1> DEFINE Def(f) == f = [e \in 0 .. MaxTasks |-> [x \in TaskId |-> Climb(f, e, x)]]
<1>1. Top = CHOOSE f : Def(f)
  BY DEF Top, Climb
<1>2. \E f : Def(f)
  BY TopExists, TaskBounds
<1>3. Def(Top)
  <2> HIDE DEF Def
  <2> QED BY <1>1, <1>2
<1>4. Top[d] = [x \in TaskId |-> Climb(Top, d, x)]
  BY ONLY <1>3, d \in 0 .. MaxTasks
<1> QED BY ONLY <1>4, id \in TaskId

(* A cancellation of a present task drops its subtree, whole and nothing   *)
(* else: the tasks below it have greater handles, of which there are no    *)
(* more than MaxTasks.                                                     *)
LEMMA PostOrderIsSubtree ==
    ASSUME TypeOK, TreeInv, NEW d \in 0 .. MaxTasks, NEW id \in Tasks,
           TaskOf(id).h + d > MaxTasks
    PROVE  Subtree(PostOrder[d][id], id)
<1> DEFINE Ok(e) == \A x \in Tasks : TaskOf(x).h + e > MaxTasks => Subtree(PostOrder[e][x], x)
           Good == {e \in 0 .. MaxTasks : Ok(e)}
<1>0. MaxTasks \in Nat /\ \A x \in Tasks : TaskOf(x).h \in 1 .. MaxTasks
  BY TaskBounds, TaskFacts DEF Handles
<1>1. 0 \in Good
  BY <1>0
<1>2. ASSUME NEW e \in (0 + 1) .. MaxTasks, e - 1 \in Good PROVE e \in Good
  <2> SUFFICES ASSUME NEW x \in Tasks, TaskOf(x).h + e > MaxTasks
               PROVE  Subtree(PostOrder[e][x], x)
    BY <1>0
  <2> DEFINE ch == TaskOf(x).children
             subs == [i \in 1 .. Len(ch) |-> PostOrder[e - 1][ch[i]]]
  <2>1. PostOrder[e][x] = Append(FlattenSeq(subs), x)
    <3>1. x \in TaskId /\ Present(x)
      BY TaskFacts
    <3>2. PostOrder[e][x] = Visit(PostOrder, e, x)
      BY <1>0, <3>1, PostOrderStep
    <3>3. e # 0
      OBVIOUS
    <3> QED BY <3>1, <3>2, <3>3 DEF Visit
  <2>2. ASSUME NEW i \in 1 .. Len(ch) PROVE Subtree(PostOrder[e - 1][ch[i]], ch[i])
    <3>1. ch[i] \in Tasks /\ TaskOf(ch[i]).parent = x
      <4>1. ch \in Seq(TaskId) /\ Range(ch) = {c \in Tasks : TaskOf(c).parent = x}
        BY TaskFacts DEF TreeInv, GoodTask
      <4> HIDE DEF ch
      <4> QED BY <4>1, SeqRange
    <3>2. TaskOf(x).h < TaskOf(ch[i]).h
      BY <3>1, TaskFacts DEF TreeInv, GoodTask
    <3> HIDE DEF ch
    <3>3. TaskOf(ch[i]).h + (e - 1) > MaxTasks
      BY <1>0, <3>1, <3>2
    <3> QED BY <1>2, <3>1, <3>3
  <2>3. \A i \in 1 .. Len(ch) : Subtree(subs[i], ch[i])
    BY <2>2
  <2>4. subs = [i \in 1 .. Len(ch) |-> subs[i]]
    OBVIOUS
  <2> HIDE DEF subs
  <2>5. Subtree(Append(FlattenSeq(subs), x), x)
    BY <2>3, <2>4, Forest
  <2> QED BY <2>1, <2>5
<1>3. d \in Good
  <2> HIDE DEF Good
  <2> QED BY <1>0, <1>1, <1>2, Upward
<1> QED BY <1>3

LEMMA DescendantsAreSubtree ==
    ASSUME TypeOK, TreeInv, NEW id \in Tasks
    PROVE  Subtree(Descendants(id), id)
<1>1. MaxTasks \in 0 .. MaxTasks /\ TaskOf(id).h + MaxTasks > MaxTasks
  BY TaskBounds, TaskFacts DEF Handles
<1> QED BY <1>1, PostOrderIsSubtree DEF Descendants

LEMMA ChildrenAreSubtree ==
    ASSUME TypeOK, TreeInv, NEW id \in Tasks
    PROVE  Subtree(Append(ChildrenOfTask(id), id), id)
<1> DEFINE ch == TaskOf(id).children
           subs == [i \in 1 .. Len(ch) |-> Descendants(ch[i])]
<1>1. \A i \in 1 .. Len(ch) : Subtree(Descendants(ch[i]), ch[i])
  <2>1. ch \in Seq(TaskId) /\ Range(ch) = {c \in Tasks : TaskOf(c).parent = id}
    BY TaskFacts DEF TreeInv, GoodTask
  <2> HIDE DEF ch
  <2>2. \A i \in 1 .. Len(ch) : ch[i] \in Tasks
    BY <2>1, SeqRange
  <2> QED BY <2>2, DescendantsAreSubtree
<1>2. \A i \in 1 .. Len(ch) : Subtree(subs[i], ch[i])
  BY <1>1
<1>3. subs = [i \in 1 .. Len(ch) |-> subs[i]]
  OBVIOUS
<1>4. ChildrenOfTask(id) = FlattenSeq(subs)
  BY DEF ChildrenOfTask
<1> HIDE DEF subs
<1> QED BY <1>2, <1>3, <1>4, Forest

(* The walk from a task to the top, if it is not interrupted, ends at the  *)
(* root that was stored when the task was spawned.                         *)
LEMMA TopIsRoot ==
    ASSUME TypeOK, TreeInv, NEW id \in Tasks
    PROVE  root_task[id] \in {NoTask, TaskOf(id).root}
<1> DEFINE Ok(e) == \A x \in Tasks : Top[e][x] \in {NoTask, TaskOf(x).root}
           Good == {e \in 0 .. MaxTasks : Ok(e)}
<1>0. MaxTasks \in Nat
  BY TaskBounds
<1>1. 0 \in Good
  <2>1. \A x \in Tasks : Top[0][x] = NoTask
    BY <1>0, TaskFacts, TopStep DEF Climb
  <2> QED BY <1>0, <2>1
<1>2. ASSUME NEW e \in (0 + 1) .. MaxTasks, e - 1 \in Good PROVE e \in Good
  <2> SUFFICES ASSUME NEW x \in Tasks PROVE Top[e][x] \in {NoTask, TaskOf(x).root}
    BY <1>0
  <2>1. x \in TaskId /\ Present(x) /\ e # 0 /\ e \in 0 .. MaxTasks /\ e - 1 \in 0 .. MaxTasks
    BY <1>0, TaskFacts
  <2>2. Top[e][x] = Climb(Top, e, x)
    BY <2>1, TopStep
  <2>3. CASE TaskOf(x).parent = NoTask
    BY <2>1, <2>2, <2>3 DEF Climb, TreeInv, GoodTask
  <2>4. CASE TaskOf(x).parent # NoTask
    <3> DEFINE p == TaskOf(x).parent
    <3>1. Top[e][x] = Top[e - 1][p] /\ p \in TaskId
      BY <2>1, <2>2, <2>4, TaskFacts DEF Climb
    <3>2. CASE Present(p)
      <4>1. p \in Tasks /\ TaskOf(p).root = TaskOf(x).root
        BY <3>1, <3>2 DEF Tasks, TreeInv, GoodTask
      <4> QED BY <1>2, <3>1, <4>1
    <3>3. CASE ~Present(p)
      BY <2>1, <3>1, <3>3, TopStep DEF Climb
    <3> QED BY <3>2, <3>3
  <2> QED BY <2>3, <2>4
<1>3. MaxTasks \in Good
  <2> HIDE DEF Good
  <2> QED BY <1>0, <1>1, <1>2, Upward
<1> QED BY <1>3 DEF root_task

-----------------------------------------------------------------------------
(* The invariant.                                                          *)

(* An ID is given once: the handles placed so far have one each, and there *)
(* are as many as generations were used up, so no table overflows.         *)
IdInv ==
    /\ Placed \in Nat
    /\ \A s \in Slots : tasks[s] # NoTask => s < nslots
    /\ \A h \in Handles : h > Placed => handles[h].id = NoTask /\ handles[h].result = "none"
    /\ \A h \in Handles : h <= Placed => KnownId(handles[h].id)
    /\ \A g, h \in Handles :
          g <= Placed /\ h <= Placed /\ handles[g].id = handles[h].id => g = h
    /\ \A s \in Slots, g \in 0 .. MaxTasks : s < nslots /\ g <= generations[s] =>
          \E h \in Handles : h <= Placed /\ handles[h].id = [slot |-> s, generation |-> g]

(* Requests wait in the order of their handles; they, the owners of        *)
(* handles and the task being polled are tasks that are there or were.     *)
GoodRequest(k) ==
    LET request == spawn_queue[k] IN
    /\ request.h = Placed + k
    /\ request.parent = NoTask \/ KnownId(request.parent)
    /\ request.root = NoTask <=> request.parent = NoTask
    /\ request.root = NoTask \/ KnownId(request.root)
    /\ Present(request.parent) => TaskOf(request.parent).root = request.root
RequestInv ==
    /\ \A k \in 1 .. Len(spawn_queue) : GoodRequest(k)
    /\ \A h \in Handles : handles[h].owner = NoTask \/ KnownId(handles[h].owner)
    /\ \A h \in Handles : h > spawned => handles[h].owner = NoTask
    /\ pc = "poll" => current \in Tasks
    /\ pc # "poll" => current = NoTask
    /\ pc = "pick" => spawn_queue = <<>>

Inv == TypeOK /\ IdInv /\ RequestInv /\ TreeInv /\ ResultIffGone /\ WaiterIsWoken

LEMMA SameTable ==
    ASSUME UNCHANGED tables
    PROVE  /\ \A id : Present(id)' <=> Present(id)
           /\ \A id : TaskOf(id)' = TaskOf(id)
           /\ \A id : KnownId(id)' <=> KnownId(id)
           /\ Tasks' = Tasks
<1>1. tasks' = tasks /\ generations' = generations /\ nslots' = nslots
  BY DEF tables
<1>2. \A id : Present(id)' <=> Present(id)
  BY <1>1 DEF Present, Occupied
<1>3. \A id : TaskOf(id)' = TaskOf(id)
  BY <1>1 DEF TaskOf
<1>4. \A id : KnownId(id)' <=> KnownId(id)
  BY <1>1 DEF KnownId
<1>5. Tasks' = Tasks
  BY <1>2 DEF Tasks
<1> QED BY <1>2, <1>3, <1>4, <1>5

LEMMA SameIds ==
    ASSUME Inv, UNCHANGED tables, Placed' = Placed,
           \A h \in Handles : handles'[h].id = handles[h].id,
           \A h \in Handles : h > Placed => handles'[h].result = "none"
    PROVE  IdInv' /\ TreeInv'
<1>1. /\ \A id : Present(id)' <=> Present(id)
      /\ \A id : TaskOf(id)' = TaskOf(id)
      /\ \A id : KnownId(id)' <=> KnownId(id)
      /\ Tasks' = Tasks
  BY SameTable
<1>2. tasks' = tasks /\ generations' = generations /\ nslots' = nslots
  BY DEF tables
<1>3. IdInv'
  <2>1. IdInv
    BY DEF Inv
  <2>2. /\ Placed' \in Nat
        /\ \A s \in Slots : tasks'[s] # NoTask => s < nslots'
        /\ \A h \in Handles : h > Placed' => handles'[h].id = NoTask /\ handles'[h].result = "none"
    BY <1>2, <2>1 DEF IdInv
  <2>3. \A h \in Handles : h <= Placed' => KnownId(handles[h].id)
    BY <2>1 DEF IdInv
  <2>4. \A h \in Handles : h <= Placed' => KnownId(handles[h].id)'
    BY <1>2, <2>3 DEF KnownId
  <2>5. \A g, h \in Handles :
          g <= Placed' /\ h <= Placed' /\ handles'[g].id = handles'[h].id => g = h
    BY <2>1 DEF IdInv
  <2>6. \A s \in Slots, g \in 0 .. MaxTasks : s < nslots' /\ g <= generations'[s] =>
          \E h \in Handles : h <= Placed' /\ handles'[h].id = [slot |-> s, generation |-> g]
    BY <1>2, <2>1 DEF IdInv
  <2> QED BY <2>2, <2>4, <2>5, <2>6 DEF IdInv
<1>4. TreeInv'
  <2> SUFFICES ASSUME NEW id \in Tasks PROVE GoodTask(id)'
    BY <1>1 DEF TreeInv
  <2>1. GoodTask(id) /\ TaskOf(id).h \in Handles
    BY TaskFacts DEF Inv, TreeInv
  <2>2. handles'[TaskOf(id).h].id = handles[TaskOf(id).h].id
    BY <2>1
  <2>3. {c \in Tasks : TaskOf(c).parent = id}' = {c \in Tasks : TaskOf(c).parent = id}
    BY <1>1
  <2> QED BY <1>1, <2>1, <2>2, <2>3 DEF GoodTask
<1> QED BY <1>3, <1>4

LEMMA SameRequests ==
    ASSUME Inv, UNCHANGED tables, UNCHANGED <<spawned, spawn_queue>>,
           \A h \in Handles : handles'[h].owner = handles[h].owner,
           pc' = "poll" => current' \in Tasks,
           pc' # "poll" => current' = NoTask,
           pc' = "pick" => spawn_queue = <<>>
    PROVE  Placed' = Placed /\ RequestInv'
<1>1. /\ \A id : Present(id)' <=> Present(id)
      /\ \A id : TaskOf(id)' = TaskOf(id)
      /\ \A id : KnownId(id)' <=> KnownId(id)
      /\ Tasks' = Tasks
  BY SameTable
<1>2. Placed' = Placed
  BY DEF Placed
<1>3. ASSUME NEW k \in 1 .. Len(spawn_queue) PROVE GoodRequest(k)'
  <2>1. GoodRequest(k)
    BY DEF Inv, RequestInv
  <2>2. spawn_queue'[k] = spawn_queue[k]
    OBVIOUS
  <2> QED BY <1>1, <1>2, <2>1, <2>2 DEF GoodRequest
<1>4. (\A h \in Handles : handles[h].owner = NoTask \/ KnownId(handles[h].owner))'
  <2>1. \A h \in Handles : handles'[h].owner = NoTask \/ KnownId(handles'[h].owner)
    BY DEF Inv, RequestInv
  <2> QED BY <2>1 DEF KnownId, tables
<1>5. \A h \in Handles : h > spawned' => handles'[h].owner = NoTask
  BY DEF Inv, RequestInv
<1> QED BY <1>1, <1>2, <1>3, <1>4, <1>5 DEF RequestInv

LEMMA SameResults ==
    ASSUME Inv, UNCHANGED tables, UNCHANGED spawned,
           \A h \in Handles : /\ handles'[h].id = handles[h].id
                              /\ handles'[h].result = "none" <=> handles[h].result = "none"
    PROVE  ResultIffGone'
<1>2. \A h \in 1 .. spawned : h \in Handles
  BY TaskBounds DEF Inv, TypeOK, Handles
<1>3. ASSUME NEW h \in 1 .. spawned, handles'[h].id # NoTask
      PROVE  Present(handles'[h].id) <=> handles'[h].result = "none"
  BY <1>2, <1>3 DEF Inv, ResultIffGone
<1> QED BY <1>3 DEF ResultIffGone, tables, Present, Occupied

LEMMA SpawnKeepsInv ==
    ASSUME Inv, Spawn
    PROVE  Inv'
<1> DEFINE request == [h |-> spawned + 1, parent |-> current,
                       root |-> IF current = NoTask THEN NoTask ELSE TaskOf(current).root]
<1>0. /\ UNCHANGED tables /\ UNCHANGED <<ready, pc, current>> /\ pc \in {"idle", "poll"}
      /\ spawned' = spawned + 1 /\ spawned \in Nat /\ spawned + 1 \in Handles
      /\ spawn_queue' = Append(spawn_queue, request)
      /\ handles' = [handles EXCEPT ![spawned + 1] = NewHandle(current)]
      /\ returned' = "none"
  BY TaskBounds DEF Spawn, Inv, TypeOK, Handles
<1>1. /\ \A id : Present(id)' <=> Present(id)
      /\ \A id : TaskOf(id)' = TaskOf(id)
      /\ \A id : KnownId(id)' <=> KnownId(id)
      /\ Tasks' = Tasks
  BY <1>0, SameTable
<1>2. /\ current = NoTask \/ (/\ current \in Tasks /\ KnownId(current) /\ Present(current)
                              /\ current # NoTask
                              /\ KnownId(TaskOf(current).root))
      /\ current \in TaskId \cup {NoTask}
  <2>1. CASE pc = "poll"
    <3>1. current \in Tasks /\ GoodTask(current) /\ Present(current)
      BY <2>1, TaskFacts DEF Inv, RequestInv, TreeInv
    <3>2. KnownId(current)
      <4>1. current.slot \in Slots /\ current.generation = generations[current.slot]
        BY <3>1, TaskFacts DEF Inv, Present
      <4>2. generations[current.slot] \in Nat
        BY <4>1, TaskBounds DEF Inv, TypeOK
      <4> QED BY <3>1, <4>1, <4>2, TaskFacts DEF Inv, KnownId
    <3> QED BY <3>1, <3>2, TaskFacts DEF GoodTask, Present, Inv, KnownId
  <2>2. CASE pc # "poll"
    BY <2>2 DEF Inv, RequestInv
  <2> QED BY <2>1, <2>2
<1>3. request \in SpawnRequest
  BY <1>0, <1>2 DEF SpawnRequest, KnownId
<1>4. /\ NewHandle(current) \in TaskSlot /\ handles \in [Handles -> TaskSlot]
      /\ NewHandle(current).id = NoTask /\ NewHandle(current).owner = current
      /\ NewHandle(current).result = "none" /\ NewHandle(current).awaited = FALSE
  BY <1>2 DEF NewHandle, TaskSlot, Inv, TypeOK
<1>5. /\ handles' \in [Handles -> TaskSlot]
      /\ handles'[spawned + 1] = NewHandle(current)
      /\ \A h \in Handles : h # spawned + 1 => handles'[h] = handles[h]
  BY <1>0, <1>4
<1> HIDE DEF request
<1>6. /\ spawn_queue \in Seq(SpawnRequest) /\ Len(spawn_queue) \in Nat
      /\ spawn_queue' \in Seq(SpawnRequest) /\ Len(spawn_queue') = Len(spawn_queue) + 1
      /\ spawn_queue'[Len(spawn_queue) + 1] = request
      /\ \A k \in 1 .. Len(spawn_queue) : spawn_queue'[k] = spawn_queue[k]
  BY <1>0, <1>3 DEF Inv, TypeOK
<1>7. Placed' = Placed /\ Placed \in Nat /\ Placed <= spawned
  BY <1>0, <1>6 DEF Placed, Inv, IdInv
<1>8. TypeOK'
  <2>1. SlotAccounting'
    BY <1>0 DEF Inv, TypeOK, SlotAccounting, tables
  <2>2. spawned' \in 0 .. MaxTasks
    BY <1>0, TaskBounds DEF Handles
  <2> QED BY <1>0, <1>5, <1>6, <2>1, <2>2 DEF Inv, TypeOK, tables
<1>9. ~(spawned + 1 <= Placed) /\ handles[spawned + 1].id = NoTask
  BY <1>0, <1>7 DEF Inv, IdInv
<1>10. IdInv' /\ TreeInv'
  <2>1. \A h \in Handles : handles'[h].id = handles[h].id
    BY <1>4, <1>5, <1>9
  <2>2. \A h \in Handles : h > Placed => handles'[h].result = "none"
    BY <1>4, <1>5 DEF Inv, IdInv
  <2> QED BY <1>0, <1>7, <2>1, <2>2, SameIds
<1>11. RequestInv'
  <2>1. ASSUME NEW k \in 1 .. Len(spawn_queue') PROVE GoodRequest(k)'
    <3>1. CASE k \in 1 .. Len(spawn_queue)
      <4>1. GoodRequest(k) /\ spawn_queue'[k] = spawn_queue[k]
        BY <1>6, <3>1 DEF Inv, RequestInv
      <4> QED BY <1>1, <1>7, <4>1 DEF GoodRequest
    <3>2. CASE k = Len(spawn_queue) + 1
      <4>1. spawn_queue'[k] = request /\ request.h = Placed + k
        BY <1>0, <1>6, <3>2 DEF Placed, request
      <4>2. /\ request.parent = current
            /\ request.root = IF current = NoTask THEN NoTask ELSE TaskOf(current).root
        BY DEF request
      <4>3. KnownId(request.root) => request.root # NoTask
        BY NoneAssumption DEF KnownId
      <4> QED BY <1>1, <1>2, <1>7, <4>1, <4>2, <4>3 DEF GoodRequest, Present
    <3> QED BY <1>6, <3>1, <3>2
  <2>2. (\A h \in Handles : handles[h].owner = NoTask \/ KnownId(handles[h].owner))'
    <3>1. \A h \in Handles : handles'[h].owner = NoTask \/ KnownId(handles'[h].owner)
      BY <1>2, <1>4, <1>5 DEF Inv, RequestInv
    <3> QED BY <1>0, <3>1 DEF KnownId, tables
  <2>3. \A h \in Handles : h > spawned' => handles'[h].owner = NoTask
    <3>1. \A h \in Handles : h > spawned' => h > spawned /\ h # spawned + 1
      BY <1>0 DEF Handles
    <3> QED BY <1>5, <3>1 DEF Inv, RequestInv
  <2> QED BY <1>0, <1>1, <2>1, <2>2, <2>3 DEF Inv, RequestInv
<1>12. \A h \in 1 .. spawned' : h \in Handles /\ (h \in 1 .. spawned \/ h = spawned + 1)
  BY <1>0, TaskBounds DEF Handles
<1>13. ResultIffGone'
  BY <1>1, <1>4, <1>5, <1>12 DEF Inv, ResultIffGone
<1>14. WaiterIsWoken'
  BY <1>0, <1>1, <1>4, <1>5, <1>12 DEF Inv, WaiterIsWoken
<1> QED BY <1>8, <1>10, <1>11, <1>13, <1>14 DEF Inv

(* Steps that leave the tables, the requests and the number of tasks.      *)
LEMMA QuietStep ==
    ASSUME Inv, UNCHANGED tables, UNCHANGED <<spawned, spawn_queue>>,
           handles' \in [Handles -> TaskSlot],
           \A h \in Handles : /\ handles'[h].owner = handles[h].owner
                              /\ handles'[h].id = handles[h].id
                              /\ handles'[h].result = "none" <=> handles[h].result = "none",
           ready' \in Seq(Slots), pc' \in {"idle", "pick", "poll"},
           returned' \in {"none", "Done", "Blocked", "Progress"},
           pc' = "poll" => current' \in Tasks,
           pc' # "poll" => current' = NoTask,
           pc' = "pick" => spawn_queue = <<>>,
           WaiterIsWoken'
    PROVE  Inv'
<1>1. Placed' = Placed /\ RequestInv'
  BY SameRequests
<1>2. ResultIffGone'
  BY SameResults
<1>3. IdInv' /\ TreeInv'
  <2>1. \A h \in Handles : h > Placed => handles'[h].result = "none"
    BY DEF Inv, IdInv
  <2> QED BY <1>1, <2>1, SameIds
<1>4. TypeOK'
  <2>1. SlotAccounting'
    BY DEF Inv, TypeOK, SlotAccounting, tables
  <2>2. current' \in TaskId \cup {NoTask}
    BY DEF Tasks
  <2> QED BY <2>1, <2>2 DEF Inv, TypeOK, tables
<1> QED BY <1>1, <1>2, <1>3, <1>4 DEF Inv

LEMMA PollKeepsInv ==
    ASSUME Inv, PollReadyTask
    PROVE  Inv'
<1>0. PICK i \in FirstOccupied :
         /\ ready' = SubSeq(ready, i + 1, Len(ready))
         /\ current' = [slot |-> ready[i], generation |-> generations[ready[i]]]
         /\ handles' = [h \in Handles |->
              IF handles[h].owner = [slot |-> ready[i], generation |-> generations[ready[i]]]
              THEN [handles[h] EXCEPT !.awaited = FALSE] ELSE handles[h]]
  BY DEF PollReadyTask
<1>1. /\ UNCHANGED tables /\ UNCHANGED <<spawned, spawn_queue>> /\ UNCHANGED returned
      /\ pc = "pick" /\ pc' = "poll"
  BY DEF PollReadyTask
<1>2. /\ i \in 1 .. Len(ready) /\ Occupied(ready[i])
      /\ \A j \in 1 .. i - 1 : ~Occupied(ready[j])
      /\ ready \in Seq(Slots) /\ Len(ready) \in Nat /\ ready[i] \in Slots
      /\ generations[ready[i]] \in 0 .. MaxTasks
  BY DEF FirstOccupied, Inv, TypeOK
<1> DEFINE id == [slot |-> ready[i], generation |-> generations[ready[i]]]
<1>3. id \in Tasks /\ current' = id
  BY <1>0, <1>2, NoneAssumption DEF Tasks, Present, TaskId
<1>4. /\ handles' \in [Handles -> TaskSlot]
      /\ \A h \in Handles : /\ handles'[h].owner = handles[h].owner
                            /\ handles'[h].id = handles[h].id
                            /\ handles'[h].result = handles[h].result
                            /\ handles'[h].waker = handles[h].waker
                            /\ handles'[h].awaited => handles[h].awaited /\ handles[h].owner # id
  <2>1. handles \in [Handles -> TaskSlot]
    BY DEF Inv, TypeOK
  <2>2. \A h \in Handles :
           /\ handles'[h] = IF handles[h].owner = id
                            THEN [handles[h] EXCEPT !.awaited = FALSE] ELSE handles[h]
           /\ handles[h] \in TaskSlot
    BY <1>0, <2>1
  <2> HIDE DEF id
  <2>3. ASSUME NEW h \in Handles
        PROVE  /\ handles'[h] \in TaskSlot
               /\ handles'[h].owner = handles[h].owner
               /\ handles'[h].id = handles[h].id
               /\ handles'[h].result = handles[h].result
               /\ handles'[h].waker = handles[h].waker
               /\ handles'[h].awaited => handles[h].awaited /\ handles[h].owner # id
    BY <2>2 DEF TaskSlot
  <2>4. handles' = [h \in Handles |-> handles'[h]]
    BY <1>0
  <2> QED BY <2>3, <2>4
<1>5. /\ ready' \in Seq(Slots) /\ Len(ready') = Len(ready) - i
      /\ \A j \in 1 .. Len(ready') : ready'[j] = ready[i + j]
  BY <1>0, <1>2
<1>6. ASSUME NEW s \in Range(ready), Occupied(s), s # ready[i]
      PROVE  s \in Range(ready')
  <2>1. PICK j \in 1 .. Len(ready) : ready[j] = s
    BY <1>2, SeqRange
  <2>2. j > i
    BY <1>2, <1>6, <2>1
  <2>3. j - i \in 1 .. Len(ready') /\ i + (j - i) = j
    BY <1>2, <1>5, <2>1, <2>2
  <2>4. ready'[j - i] = s
    BY <1>5, <2>1, <2>3
  <2> QED BY <1>5, <2>3, <2>4, SeqRange
<1>7. ASSUME NEW h \in 1 .. spawned, handles'[h].awaited, Present(handles[h].owner)
      PROVE  \/ handles[h].result = "none" /\ handles[h].waker = handles[h].owner.slot
             \/ handles[h].owner.slot \in Range(ready')
             \/ handles[h].result = "taken"
  <2>1. h \in Handles
    BY TaskBounds DEF Handles, Inv, TypeOK
  <2>2. handles[h].awaited /\ handles[h].owner # id
    BY <1>4, <1>7, <2>1
  <2>3. handles[h].owner \in TaskId /\ Occupied(handles[h].owner.slot)
    BY <1>7, <2>1 DEF Inv, TypeOK, TaskSlot, Present
  <2>4. handles[h].owner.slot # ready[i]
    BY <1>7, <2>2, <2>3 DEF TaskId, Present
  <2> QED BY <1>6, <1>7, <2>2, <2>3, <2>4 DEF Inv, WaiterIsWoken
<1>8. WaiterIsWoken'
  <2>1. \A h \in 1 .. spawned : h \in Handles
    BY TaskBounds DEF Handles, Inv, TypeOK
  <2>2. ASSUME NEW h \in 1 .. spawned, handles'[h].awaited, Present(handles'[h].owner)
        PROVE  \/ handles'[h].result = "none" /\ handles'[h].waker = handles'[h].owner.slot
               \/ handles'[h].owner.slot \in Range(ready')
               \/ handles'[h].result = "taken"
    BY <1>4, <1>7, <2>1, <2>2
  <2>3. WaiterIsWoken' <=>
          \A h \in 1 .. spawned : handles'[h].awaited /\ Present(handles'[h].owner) =>
               \/ handles'[h].result = "none" /\ handles'[h].waker = handles'[h].owner.slot
               \/ handles'[h].owner.slot \in Range(ready')
               \/ handles'[h].result = "taken"
    BY <1>1 DEF WaiterIsWoken, Present, Occupied, tables
  <2> QED BY <2>2, <2>3
<1>9. spawn_queue = <<>>
  BY <1>1 DEF Inv, RequestInv
<1> HIDE DEF id
<1> QED BY <1>1, <1>3, <1>4, <1>5, <1>8, <1>9, QuietStep DEF Inv, TypeOK

(* What WaiterIsWoken says after a step that leaves the tables.            *)
LEMMA WaitersAfter ==
    ASSUME UNCHANGED tables, UNCHANGED spawned,
           \A h \in 1 .. spawned : handles'[h].awaited /\ Present(handles'[h].owner) =>
               \/ handles'[h].result = "none" /\ handles'[h].waker = handles'[h].owner.slot
               \/ handles'[h].owner.slot \in Range(ready')
               \/ handles'[h].result = "taken"
    PROVE  WaiterIsWoken'
BY DEF WaiterIsWoken, Present, Occupied, tables

LEMMA SpawnedAreHandles ==
    ASSUME TypeOK
    PROVE  \A h \in 1 .. spawned : h \in Handles
BY TaskBounds DEF Handles, TypeOK

LEMMA NothingReadyKeepsInv ==
    ASSUME Inv, NothingReady
    PROVE  Inv'
<1>1. /\ UNCHANGED tables /\ UNCHANGED <<spawned, spawn_queue>> /\ UNCHANGED handles
      /\ pc = "pick" /\ pc' = "idle" /\ ready' = <<>> /\ FirstOccupied = {}
      /\ returned' \in {"Done", "Blocked"} /\ current' = current
  BY DEF NothingReady
<1>2. ready \in Seq(Slots) /\ Len(ready) \in Nat
  BY DEF Inv, TypeOK
<1>3. ASSUME NEW s \in Range(ready) PROVE ~Occupied(s)
  <2> SUFFICES ASSUME Occupied(s) PROVE FALSE
    OBVIOUS
  <2> DEFINE at == {i \in 1 .. Len(ready) : Occupied(ready[i])}
  <2>1. at \in SUBSET Nat /\ at # {}
    BY <1>2, SeqRange
  <2>2. PICK i \in at : \A j \in at : i <= j
    <3> HIDE DEF at
    <3> QED BY <2>1, LeastNat
  <2>3. \A j \in 1 .. i - 1 : j \in 1 .. Len(ready) /\ ~(i <= j)
    BY <1>2, <2>2
  <2>4. i \in FirstOccupied
    BY <2>2, <2>3 DEF FirstOccupied
  <2> QED BY <1>1, <2>4
<1>4. WaiterIsWoken'
  <2>1. ASSUME NEW h \in 1 .. spawned, handles[h].awaited, Present(handles[h].owner)
        PROVE  \/ handles[h].result = "none" /\ handles[h].waker = handles[h].owner.slot
               \/ handles[h].result = "taken"
    BY <1>3, <2>1 DEF Inv, WaiterIsWoken, Present
  <2> QED BY <1>1, <2>1, WaitersAfter
<1>5. ready' \in Seq(Slots)
  BY <1>1
<1> QED BY <1>1, <1>4, <1>5, QuietStep DEF Inv, TypeOK, RequestInv

LEMMA WakeKeepsInv ==
    ASSUME Inv, NEW s \in Slots, Wake(s)
    PROVE  Inv'
<1>1. /\ UNCHANGED tables /\ UNCHANGED <<spawned, spawn_queue>> /\ UNCHANGED handles
      /\ pc' = pc /\ pc \in {"idle", "poll"} /\ ready' = Append(ready, s)
      /\ returned' = "none" /\ current' = current
  BY DEF Wake
<1>2. ready' \in Seq(Slots) /\ Range(ready) \subseteq Range(ready')
  BY <1>1, AppendRange DEF Inv, TypeOK
<1>3. WaiterIsWoken'
  <2>1. WaiterIsWoken
    BY DEF Inv
  <2> QED BY <1>1, <1>2, <2>1, WaitersAfter DEF WaiterIsWoken
<1> QED BY <1>1, <1>2, <1>3, QuietStep DEF Inv, TypeOK, RequestInv

LEMMA ReturnPendingKeepsInv ==
    ASSUME Inv, ReturnPending
    PROVE  Inv'
<1>1. /\ UNCHANGED tables /\ UNCHANGED <<spawned, spawn_queue>> /\ UNCHANGED handles
      /\ UNCHANGED ready
      /\ pc' = "idle" /\ returned' = "Progress" /\ current' = NoTask
  BY DEF ReturnPending
<1>2. WaiterIsWoken'
  <2>1. WaiterIsWoken
    BY DEF Inv
  <2> QED BY <1>1, <2>1, WaitersAfter DEF WaiterIsWoken
<1> QED BY <1>1, <1>2, QuietStep DEF Inv, TypeOK

(* A handle's result is taken.                                             *)
LEMMA TakeKeepsInv ==
    ASSUME Inv, NEW h \in Handles, handles[h].result \in {"exit", "cancelled"},
           handles' = [handles EXCEPT ![h].result = "taken"],
           returned' \in {"none", returned},
           UNCHANGED <<tables, ready, spawn_queue, spawned, pc, current>>
    PROVE  Inv'
<1>1. /\ UNCHANGED tables /\ UNCHANGED <<spawned, spawn_queue>>
      /\ UNCHANGED <<ready, pc, current>>
  OBVIOUS
<1>2. handles \in [Handles -> TaskSlot] /\ \A x \in Handles : handles[x] \in TaskSlot
  BY DEF Inv, TypeOK
<1>3. [handles[h] EXCEPT !.result = "taken"] \in TaskSlot
  BY <1>2 DEF TaskSlot
<1>4. /\ handles' \in [Handles -> TaskSlot]
      /\ handles'[h] = [handles[h] EXCEPT !.result = "taken"]
      /\ \A x \in Handles : x # h => handles'[x] = handles[x]
  BY <1>2, <1>3
<1>5. \A x \in Handles : /\ handles'[x].owner = handles[x].owner
                         /\ handles'[x].id = handles[x].id
                         /\ handles'[x].waker = handles[x].waker
                         /\ handles'[x].awaited = handles[x].awaited
                         /\ handles'[x].result = IF x = h THEN "taken" ELSE handles[x].result
  BY <1>2, <1>4 DEF TaskSlot
<1>6. WaiterIsWoken'
  <2>1. ASSUME NEW x \in 1 .. spawned, handles'[x].awaited, Present(handles'[x].owner)
        PROVE  \/ handles'[x].result = "none" /\ handles'[x].waker = handles'[x].owner.slot
               \/ handles'[x].owner.slot \in Range(ready')
               \/ handles'[x].result = "taken"
    BY <1>1, <1>5, <2>1, SpawnedAreHandles DEF Inv, WaiterIsWoken
  <2> QED BY <1>1, <2>1, WaitersAfter
<1>7. \A x \in Handles : handles'[x].result = "none" <=> handles[x].result = "none"
  BY <1>5
<1> QED BY <1>1, <1>4, <1>5, <1>6, <1>7, QuietStep DEF Inv, TypeOK, RequestInv

LEMMA AwaitKeepsInv ==
    ASSUME Inv, NEW h \in Handles, Await(h)
    PROVE  Inv'
<1>1. /\ UNCHANGED tables /\ UNCHANGED <<spawned, spawn_queue>>
      /\ UNCHANGED <<ready, pc, current, returned>>
      /\ pc = "poll" /\ handles[h].owner = current
  BY DEF Await
<1>2. CASE /\ handles[h].result \in {"exit", "cancelled"}
           /\ handles' = [handles EXCEPT ![h].result = "taken"]
  BY <1>1, <1>2, TakeKeepsInv
<1>3. CASE /\ handles[h].result = "none"
           /\ handles' = [handles EXCEPT ![h].waker = current.slot, ![h].awaited = TRUE]
  <2>1. handles \in [Handles -> TaskSlot] /\ \A x \in Handles : handles[x] \in TaskSlot
    BY DEF Inv, TypeOK
  <2>2. current.slot \in Slots /\ current \in Tasks
    BY <1>1, TaskFacts DEF Inv, RequestInv
  <2> DEFINE new == [handles[h] EXCEPT !.waker = current.slot, !.awaited = TRUE]
  <2>3. new \in TaskSlot
    BY <2>1, <2>2 DEF TaskSlot
  <2>4. /\ handles' \in [Handles -> TaskSlot] /\ handles'[h] = new
        /\ \A x \in Handles : x # h => handles'[x] = handles[x]
    BY <1>3, <2>1, <2>3
  <2>5. /\ new.owner = current /\ new.id = handles[h].id /\ new.result = "none"
        /\ new.waker = current.slot
    BY <1>1, <1>3, <2>1 DEF TaskSlot
  <2> HIDE DEF new
  <2>6. WaiterIsWoken'
    <3>1. ASSUME NEW x \in 1 .. spawned, handles'[x].awaited, Present(handles'[x].owner)
          PROVE  \/ handles'[x].result = "none" /\ handles'[x].waker = handles'[x].owner.slot
                 \/ handles'[x].owner.slot \in Range(ready')
                 \/ handles'[x].result = "taken"
      BY <1>1, <2>4, <2>5, <3>1, SpawnedAreHandles DEF Inv, WaiterIsWoken
    <3> QED BY <1>1, <3>1, WaitersAfter
  <2>7. \A x \in Handles : /\ handles'[x].owner = handles[x].owner
                           /\ handles'[x].id = handles[x].id
                           /\ handles'[x].result = handles[x].result
    BY <1>1, <1>3, <2>4, <2>5
  <2> QED BY <1>1, <2>2, <2>4, <2>6, <2>7, QuietStep DEF Inv, TypeOK
<1> QED BY <1>2, <1>3 DEF Await

LEMMA TryGetKeepsInv ==
    ASSUME Inv, NEW h \in Handles, TryGet(h)
    PROVE  Inv'
BY TakeKeepsInv DEF TryGet

-----------------------------------------------------------------------------
(* The end of a subtree, by a cancellation or by the completion of its     *)
(* root.                                                                   *)

LEMMA InjectiveCount ==
    ASSUME NEW S, NEW s \in Seq(S), IsInjective(s)
    PROVE  IsFiniteSet(Range(s)) /\ Cardinality(Range(s)) = Len(s)
<1>1. /\ Len(s) \in Nat /\ DOMAIN s = 1 .. Len(s) /\ s \in [1 .. Len(s) -> Range(s)]
      /\ \A x \in Range(s) : \E i \in 1 .. Len(s) : s[i] = x
      /\ \A i, j \in 1 .. Len(s) : s[i] = s[j] => i = j
  <2>1. /\ Len(s) \in Nat /\ DOMAIN s = 1 .. Len(s)
        /\ s = [i \in 1 .. Len(s) |-> s[i]]
    OBVIOUS
  <2> QED BY <2>1, SeqRange
<1>2. s \in Surjection(1 .. Len(s), Range(s)) /\ s \in Injection(1 .. Len(s), Range(s))
  BY <1>1 DEF Surjection, Injection, IsInjective
<1>3. IsFiniteSet(1 .. Len(s)) /\ Cardinality(1 .. Len(s)) = Len(s)
  <2> DEFINE n == Len(s)
  <2>1. n \in Int /\ 1 \in Int /\ n >= 0
    BY <1>1
  <2> HIDE DEF n
  <2>2. IsFiniteSet(1 .. n) /\ Cardinality(1 .. n) = IF 1 > n THEN 0 ELSE n - 1 + 1
    BY ONLY <2>1, FS_Interval
  <2> QED BY <2>1, <2>2 DEF n
<1> QED BY <1>2, <1>3, FS_Surjection

(* What the step that ends the subtree of id does to the tables.           *)
Buried(id, dead, result) ==
    /\ id \in Tasks
    /\ Subtree(dead, id)
    /\ tasks' = Unlink(id, dead)
    /\ Bury(dead)
    /\ handles' = Finish(dead, result)
    /\ \A h \in Handles : result[h] \in {"exit", "cancelled"}
    /\ UNCHANGED <<spawn_queue, spawned>>

SlotsOf(dead) == [i \in 1 .. Len(dead) |-> dead[i].slot]

LEMMA SlotsOfDead ==
    ASSUME TypeOK, NEW id, NEW dead, Subtree(dead, id)
    PROVE  /\ SlotsOf(dead) \in Seq(Slots) /\ Len(SlotsOf(dead)) = Len(dead)
           /\ Len(dead) \in Nat
           /\ IsInjective(SlotsOf(dead))
           /\ \A s : s \in Range(SlotsOf(dead)) <=> \E x \in Range(dead) : x.slot = s
           /\ \A s : s \in Range(SlotsOf(dead)) <=> \E i \in 1 .. Len(dead) : dead[i].slot = s
           /\ \A s \in Range(SlotsOf(dead)) : s \in Slots /\ s < nslots /\ tasks[s] # NoTask
           /\ \A x \in Tasks : x.slot \in Range(SlotsOf(dead)) <=> x \in Range(dead)
<1>1. /\ dead \in Seq(TaskId) /\ IsInjective(dead) /\ Range(dead) \subseteq Tasks
      /\ Len(dead) \in Nat
      /\ \A i \in 1 .. Len(dead) : dead[i] \in Tasks
      /\ \A i, j \in 1 .. Len(dead) : dead[i] = dead[j] => i = j
  BY SeqRange DEF Subtree
<1>2. \A x \in Tasks : x.slot \in Slots /\ x.slot < nslots /\ tasks[x.slot] # NoTask
  BY TaskFacts DEF Present, Occupied
<1>3. /\ SlotsOf(dead) \in Seq(Slots) /\ Len(SlotsOf(dead)) = Len(dead)
      /\ \A i \in 1 .. Len(dead) : SlotsOf(dead)[i] = dead[i].slot
  BY <1>1, <1>2 DEF SlotsOf
<1>4. IsInjective(SlotsOf(dead))
  <2>1. \A i, j \in 1 .. Len(dead) : SlotsOf(dead)[i] = SlotsOf(dead)[j] => i = j
    BY <1>1, <1>3, OneTaskPerSlot
  <2> QED BY <1>3, <2>1, SeqRange
<1>5. \A s : s \in Range(SlotsOf(dead)) <=> \E i \in 1 .. Len(dead) : dead[i].slot = s
  BY <1>3, SeqRange
<1>6. \A s : s \in Range(SlotsOf(dead)) <=> \E x \in Range(dead) : x.slot = s
  BY <1>1, <1>5, SeqRange
<1>7. \A x \in Tasks : x.slot \in Range(SlotsOf(dead)) <=> x \in Range(dead)
  BY <1>1, <1>6, OneTaskPerSlot
<1> QED BY <1>1, <1>2, <1>3, <1>4, <1>5, <1>6, <1>7

LEMMA TablesOfBuried ==
    ASSUME TypeOK, TreeInv, NEW id, NEW dead, NEW result, Buried(id, dead, result)
    PROVE  /\ DOMAIN tasks' = Slots
           /\ \A s \in Slots :
                /\ tasks'[s] = NoTask <=> tasks[s] = NoTask \/ s \in Range(SlotsOf(dead))
                /\ s \in Range(SlotsOf(dead)) \/ tasks[s] = NoTask \/
                     /\ tasks[s] \in Task /\ tasks'[s] \in Task
                     /\ tasks'[s].h = tasks[s].h /\ tasks'[s].parent = tasks[s].parent
                     /\ tasks'[s].root = tasks[s].root
                     /\ tasks'[s].children =
                          IF Present(TaskOf(id).parent) /\ s = TaskOf(id).parent.slot
                          THEN Filter(tasks[s].children, Range(tasks[s].children) \ {id})
                          ELSE tasks[s].children
<1> DEFINE p == TaskOf(id).parent
           cut(s) == [tasks[s] EXCEPT !.children = Filter(@, Range(@) \ {id})]
<1>1. tasks' = [s \in Slots |-> IF s \in Range(SlotsOf(dead)) THEN NoTask
                                ELSE IF Present(p) /\ s = p.slot THEN cut(s)
                                ELSE tasks[s]]
  BY SlotsOfDead DEF Buried, Unlink
<1>2. \A s \in Slots : tasks[s] = NoTask \/ tasks[s] \in Task
  BY DEF TypeOK
<1>3. NoTask \notin Task
  BY NoneAssumption
<1>4. ASSUME NEW s \in Slots, tasks[s] \in Task
      PROVE  /\ cut(s) \in Task
             /\ cut(s).h = tasks[s].h /\ cut(s).parent = tasks[s].parent
             /\ cut(s).root = tasks[s].root
             /\ cut(s).children = Filter(tasks[s].children, Range(tasks[s].children) \ {id})
  <2>1. tasks[s].children \in Seq(TaskId)
    BY <1>4 DEF Task
  <2>2. Filter(tasks[s].children, Range(tasks[s].children) \ {id}) \in Seq(TaskId)
    BY ONLY <2>1, FilterRange
  <2> QED BY <1>4, <2>2 DEF Task
<1>5. \A s \in Slots : Present(p) /\ s = p.slot => tasks[s] # NoTask
  BY DEF Present, Occupied
<1> HIDE DEF cut, p
<1>6. DOMAIN tasks' = Slots
  BY <1>1
<1>7. ASSUME NEW s \in Slots
      PROVE  tasks'[s] = IF s \in Range(SlotsOf(dead)) THEN NoTask
                         ELSE IF Present(p) /\ s = p.slot THEN cut(s)
                         ELSE tasks[s]
  BY <1>1
<1>8. ASSUME NEW s \in Slots
      PROVE  tasks'[s] = NoTask <=> tasks[s] = NoTask \/ s \in Range(SlotsOf(dead))
  BY <1>2, <1>3, <1>4, <1>5, <1>7
<1>9. ASSUME NEW s \in Slots, s \notin Range(SlotsOf(dead)), tasks[s] # NoTask
      PROVE  /\ tasks[s] \in Task /\ tasks'[s] \in Task
             /\ tasks'[s].h = tasks[s].h /\ tasks'[s].parent = tasks[s].parent
             /\ tasks'[s].root = tasks[s].root
             /\ tasks'[s].children = IF Present(p) /\ s = p.slot
                          THEN Filter(tasks[s].children, Range(tasks[s].children) \ {id})
                          ELSE tasks[s].children
  BY <1>2, <1>4, <1>7, <1>9
<1> QED BY <1>6, <1>8, <1>9 DEF p

LEMMA TasksOfBuried ==
    ASSUME TypeOK, TreeInv, NEW id, NEW dead, NEW result, Buried(id, dead, result)
    PROVE  /\ \A x \in TaskId : Present(x)' <=> Present(x) /\ x \notin Range(dead)
           /\ Tasks' = Tasks \ Range(dead)
<1>1. ASSUME NEW x \in TaskId
      PROVE  Present(x)' <=> Present(x) /\ x \notin Range(dead)
  <2>1. x.slot \in Slots /\ x # NoTask
    BY NoneAssumption DEF TaskId
  <2>2. tasks'[x.slot] = NoTask <=> tasks[x.slot] = NoTask \/ x.slot \in Range(SlotsOf(dead))
    BY <2>1, TablesOfBuried
  <2>3. generations' = generations /\ nslots' = nslots
    BY DEF Buried, Bury
  <2>4. Present(x) => (x.slot \in Range(SlotsOf(dead)) <=> x \in Range(dead))
    BY SlotsOfDead DEF Buried, Tasks
  <2>5. Present(x)' <=> /\ x.slot < nslots /\ tasks'[x.slot] # NoTask
                        /\ generations[x.slot] = x.generation
    BY <2>1, <2>3 DEF Present, Occupied
  <2>6. Present(x) <=> /\ x.slot < nslots /\ tasks[x.slot] # NoTask
                       /\ generations[x.slot] = x.generation
    BY <2>1 DEF Present, Occupied
  <2> QED BY <2>2, <2>4, <2>5, <2>6
<1>2. Tasks' = Tasks \ Range(dead)
  BY <1>1 DEF Tasks
<1> QED BY <1>1, <1>2

LEMMA AccountsOfBuried ==
    ASSUME TypeOK, TreeInv, NEW id, NEW dead, NEW result, Buried(id, dead, result)
    PROVE  /\ SlotAccounting'
           /\ free_slots' \in Seq(Slots) /\ active_count' \in 0 .. MaxTasks
<1> DEFINE ss == SlotsOf(dead)
           used == {s \in Slots : tasks[s] # NoTask}
<1>1. /\ ss \in Seq(Slots) /\ Len(ss) = Len(dead) /\ IsInjective(ss) /\ Len(dead) \in Nat
      /\ \A s \in Range(ss) : s \in Slots /\ s < nslots /\ tasks[s] # NoTask
  BY SlotsOfDead DEF Buried
<1>2. /\ free_slots' = free_slots \o ss /\ active_count' = active_count - Len(dead)
      /\ nslots' = nslots
  BY DEF Buried, Bury, SlotsOf
<1>3. {s \in Slots : tasks'[s] # NoTask} = used \ Range(ss)
  BY TablesOfBuried
<1>4. /\ free_slots \in Seq(Slots) /\ IsInjective(free_slots)
      /\ \A s \in Slots : s \in Range(free_slots) <=> (s < nslots /\ tasks[s] = NoTask)
      /\ active_count = Cardinality(used) /\ active_count \in 0 .. MaxTasks
  BY DEF TypeOK, SlotAccounting
<1>5. \A s \in Slots : tasks'[s] = NoTask <=> tasks[s] = NoTask \/ s \in Range(ss)
  BY TablesOfBuried
<1> HIDE DEF ss
<1>6. IsFiniteSet(Range(ss)) /\ Cardinality(Range(ss)) = Len(dead)
  BY <1>1, InjectiveCount
<1>7. Range(ss) \subseteq used
  BY <1>1
<1>8. IsFiniteSet(used) /\ Cardinality(used) \in Nat
  <2>1. IsFiniteSet(Slots)
    BY FS_Interval, TaskBounds DEF Slots
  <2> QED BY <2>1, FS_Subset, FS_CardinalityType
<1> HIDE DEF used
<1>9. Cardinality(used \ Range(ss)) = Cardinality(used) - Len(dead)
  <2>1. used \cap Range(ss) = Range(ss)
    BY <1>7
  <2>2. Cardinality(used \ Range(ss)) = Cardinality(used) - Cardinality(used \cap Range(ss))
    BY ONLY <1>8, FS_Difference
  <2> QED BY <1>6, <2>1, <2>2
<1>10. Cardinality(used \ Range(ss)) \in Nat
  BY <1>8, FS_Difference, FS_CardinalityType
<1>11. active_count' = Cardinality({s \in Slots : tasks'[s] # NoTask})
  BY <1>2, <1>3, <1>4, <1>9
<1>12. active_count' \in 0 .. MaxTasks
  BY <1>1, <1>2, <1>4, <1>8, <1>9, <1>10, TaskBounds
<1>13. /\ free_slots' \in Seq(Slots) /\ Range(free_slots') = Range(free_slots) \cup Range(ss)
       /\ IsInjective(free_slots')
  <2>1. Range(free_slots) \cap Range(ss) = {}
    BY <1>1, <1>4
  <2>2. ss \in Seq(Slots) /\ free_slots \in Seq(Slots) /\ IsInjective(ss) /\ IsInjective(free_slots)
    BY <1>1, <1>4
  <2>3. free_slots \o ss \in Seq(Slots)
    BY <2>2, Concatenation
  <2> QED BY <1>2, <2>1, <2>2, <2>3, ConcatRange
<1>14. \A s \in Slots : s \in Range(free_slots') <=> (s < nslots' /\ tasks'[s] = NoTask)
  BY <1>1, <1>2, <1>4, <1>5, <1>13
<1> QED BY <1>11, <1>12, <1>13, <1>14 DEF SlotAccounting

(* A handle is finished when its task ends.                                *)
Ended(dead, h) == h <= Placed /\ handles[h].id \in Range(dead)

LEMMA HandlesOfBuried ==
    ASSUME Inv, NEW id, NEW dead, NEW result, Buried(id, dead, result)
    PROVE  /\ handles' \in [Handles -> TaskSlot]
           /\ \A h \in Handles :
                /\ handles'[h].owner = handles[h].owner
                /\ handles'[h].id = handles[h].id
                /\ handles'[h].awaited = handles[h].awaited
                /\ ~Ended(dead, h) => handles'[h] = handles[h]
                /\ Ended(dead, h) =>
                     handles'[h].result = IF handles[h].result = "none" THEN result[h]
                                          ELSE handles[h].result
<1> DEFINE end(h) == \E i \in 1 .. Len(dead) : TaskOf(dead[i]).h = h
           done(h) == [handles[h] EXCEPT !.waker = NoWaker,
                         !.result = IF handles[h].result = "none" THEN result[h] ELSE @]
<1>1. handles' = [h \in Handles |-> IF end(h) THEN done(h) ELSE handles[h]]
  BY DEF Buried, Finish
<1>2. \A h \in Handles : handles[h] \in TaskSlot /\ result[h] \in {"exit", "cancelled"}
  BY DEF Inv, TypeOK, Buried
<1>3. ASSUME NEW h \in Handles
      PROVE  /\ done(h) \in TaskSlot
             /\ done(h).owner = handles[h].owner
             /\ done(h).id = handles[h].id
             /\ done(h).awaited = handles[h].awaited
             /\ done(h).result = IF handles[h].result = "none" THEN result[h]
                                 ELSE handles[h].result
  BY <1>2 DEF TaskSlot
<1>4. \A i \in 1 .. Len(dead) : dead[i] \in Tasks /\ dead[i] \in Range(dead)
  BY SeqRange DEF Buried, Subtree
<1>5. \A x \in Tasks : TaskOf(x).h <= Placed /\ TaskOf(x).h \in Handles
                       /\ handles[TaskOf(x).h].id = x
  BY TaskFacts DEF Inv, TreeInv, GoodTask
<1>6. ASSUME NEW h \in Handles PROVE end(h) <=> Ended(dead, h)
  <2>1. ASSUME end(h) PROVE Ended(dead, h)
    BY <1>4, <1>5, <2>1 DEF Ended
  <2>2. ASSUME Ended(dead, h) PROVE end(h)
    <3>1. PICK i \in 1 .. Len(dead) : dead[i] = handles[h].id
      BY <2>2, SeqRange DEF Ended, Buried, Subtree
    <3>2. TaskOf(dead[i]).h = h
      BY <1>4, <1>5, <2>2, <3>1 DEF Inv, IdInv, Ended
    <3> QED BY <3>2
  <2> QED BY <2>1, <2>2
<1> HIDE DEF end, done
<1>7. ASSUME NEW h \in Handles
      PROVE  handles'[h] = IF Ended(dead, h) THEN done(h) ELSE handles[h]
  BY <1>1, <1>6
<1>8. handles' = [h \in Handles |-> handles'[h]]
  BY <1>1
<1>9. \A h \in Handles : handles'[h] \in TaskSlot
  BY <1>2, <1>3, <1>7
<1> QED BY <1>3, <1>7, <1>8, <1>9

LEMMA TaskOfBuried ==
    ASSUME TypeOK, TreeInv, NEW id, NEW dead, NEW result, Buried(id, dead, result),
           NEW x \in Tasks, x \notin Range(dead)
    PROVE  /\ TaskOf(x)'.h = TaskOf(x).h /\ TaskOf(x)'.parent = TaskOf(x).parent
           /\ TaskOf(x)'.root = TaskOf(x).root
           /\ IsInjective(TaskOf(x)'.children)
           /\ Range(TaskOf(x)'.children) = Range(TaskOf(x).children) \ {id}
<1>1. /\ x.slot \in Slots /\ x.slot \notin Range(SlotsOf(dead)) /\ tasks[x.slot] # NoTask
      /\ TaskOf(x).children \in Seq(TaskId) /\ TaskOf(x) = tasks[x.slot]
  BY TaskFacts, SlotsOfDead DEF Buried, Present, Occupied
<1> DEFINE p == TaskOf(id).parent
           ch == TaskOf(x).children
<1>2. /\ TaskOf(x)' = tasks'[x.slot]
      /\ TaskOf(x)'.h = TaskOf(x).h /\ TaskOf(x)'.parent = TaskOf(x).parent
      /\ TaskOf(x)'.root = TaskOf(x).root
      /\ TaskOf(x)'.children = IF Present(p) /\ x.slot = p.slot
                               THEN Filter(ch, Range(ch) \ {id}) ELSE ch
  BY <1>1, TablesOfBuried DEF TaskOf
<1>3. IsInjective(ch) /\ Range(ch) = {c \in Tasks : TaskOf(c).parent = x}
  BY DEF TreeInv, GoodTask
<1>4. CASE Present(p) /\ x.slot = p.slot
  <2> HIDE DEF ch
  <2>1. /\ Range(Filter(ch, Range(ch) \ {id})) = Range(ch) \cap (Range(ch) \ {id})
        /\ IsInjective(Filter(ch, Range(ch) \ {id}))
    <3>1. ch \in Seq(TaskId) /\ IsInjective(ch)
      BY <1>1, <1>3 DEF ch
    <3> QED BY ONLY <3>1, FilterRange
  <2> QED BY <1>2, <1>4, <2>1 DEF ch
<1>5. CASE ~(Present(p) /\ x.slot = p.slot)
  <2>1. p # x
    BY <1>5, TaskFacts
  <2>2. id \notin Range(ch)
    BY <1>3, <2>1
  <2> QED BY <1>2, <1>3, <1>5, <2>2
<1> QED BY <1>4, <1>5

LEMMA TreeOfBuried ==
    ASSUME Inv, NEW id, NEW dead, NEW result, Buried(id, dead, result)
    PROVE  TreeInv'
<1>1. /\ \A x \in TaskId : Present(x)' <=> Present(x) /\ x \notin Range(dead)
      /\ Tasks' = Tasks \ Range(dead)
  BY TasksOfBuried DEF Inv
<1> SUFFICES ASSUME NEW x \in Tasks, x \notin Range(dead) PROVE GoodTask(x)'
  BY <1>1 DEF TreeInv
<1>2. /\ TaskOf(x)'.h = TaskOf(x).h /\ TaskOf(x)'.parent = TaskOf(x).parent
      /\ TaskOf(x)'.root = TaskOf(x).root
      /\ IsInjective(TaskOf(x)'.children)
      /\ Range(TaskOf(x)'.children) = Range(TaskOf(x).children) \ {id}
  BY TaskOfBuried DEF Inv
<1>3. GoodTask(x) /\ TaskOf(x).h \in Handles /\ TaskOf(x).parent \in TaskId \cup {NoTask}
  BY TaskFacts DEF Inv, TreeInv
<1>4. Placed' = Placed /\ generations' = generations /\ nslots' = nslots
  BY DEF Placed, Buried, Bury
<1>5. handles'[TaskOf(x).h].id = handles[TaskOf(x).h].id
  BY <1>3, HandlesOfBuried
<1>6. \A c \in Tasks \ Range(dead) : TaskOf(c)'.parent = TaskOf(c).parent
  BY TaskOfBuried DEF Inv
<1>7. Range(TaskOf(x)'.children) = {c \in Tasks \ Range(dead) : TaskOf(c)'.parent = x}
  <2>1. Range(TaskOf(x).children) = {c \in Tasks : TaskOf(c).parent = x}
    BY <1>3 DEF GoodTask
  <2>2. id \in Range(dead) /\ \A c \in Range(dead) : c # id => TaskOf(c).parent \in Range(dead)
    BY DEF Buried, Subtree
  <2>3. \A c \in Tasks : TaskOf(c).parent = x => (c \in Range(dead) <=> c = id)
    BY <2>2
  <2> QED BY <1>2, <1>6, <2>1, <2>3
<1>8. ASSUME NEW p \in Tasks, p = TaskOf(x).parent, p \notin Range(dead)
      PROVE  TaskOf(p)'.root = TaskOf(x).root /\ TaskOf(p)'.h < TaskOf(x).h
  <2>1. Present(p)
    BY DEF Tasks
  <2>2. TaskOf(p)'.root = TaskOf(p).root /\ TaskOf(p)'.h = TaskOf(p).h
    BY <1>8, TaskOfBuried DEF Inv
  <2> QED BY <1>3, <1>8, <2>1, <2>2 DEF GoodTask
<1>9. \A p : p = TaskOf(x).parent /\ Present(p)' => p \in Tasks /\ p \notin Range(dead)
  <2> SUFFICES ASSUME NEW p, p = TaskOf(x).parent, Present(p)'
               PROVE  p \in Tasks /\ p \notin Range(dead)
    OBVIOUS
  <2>1. p # NoTask
    BY DEF Present
  <2> QED BY <1>1, <1>3, <2>1 DEF Tasks
<1>10. \A p : p = TaskOf(x).parent /\ Present(p)' =>
                TaskOf(p)'.root = TaskOf(x).root /\ TaskOf(p)'.h < TaskOf(x).h
  BY <1>8, <1>9
<1>11. /\ TaskOf(x).h <= Placed' /\ handles'[TaskOf(x).h].id = x
       /\ TaskOf(x).parent = NoTask <=> TaskOf(x).root = x
       /\ TaskOf(x).parent = NoTask \/ KnownId(TaskOf(x).parent)
       /\ KnownId(TaskOf(x).root)
  BY <1>3, <1>4, <1>5 DEF GoodTask
<1>12. GoodTask(x)' <=>
         /\ TaskOf(x)'.h <= Placed' /\ handles'[TaskOf(x)'.h].id = x
         /\ IsInjective(TaskOf(x)'.children)
         /\ Range(TaskOf(x)'.children) = {c \in Tasks' : TaskOf(c)'.parent = x}
         /\ TaskOf(x)'.parent = NoTask <=> TaskOf(x)'.root = x
         /\ TaskOf(x)'.parent = NoTask \/ KnownId(TaskOf(x)'.parent)
         /\ KnownId(TaskOf(x)'.root)
         /\ \A p : p = TaskOf(x)'.parent /\ Present(p)' =>
                TaskOf(p)'.root = TaskOf(x)'.root /\ TaskOf(p)'.h < TaskOf(x)'.h
  BY <1>4 DEF GoodTask, KnownId, Present, Occupied, TaskOf
<1> QED BY <1>1, <1>2, <1>7, <1>10, <1>11, <1>12

LEMMA FunIsSeq ==
    ASSUME NEW T, NEW n \in Nat, NEW s \in [1 .. n -> T]
    PROVE  s \in Seq(T)
  OBVIOUS

LEMMA RangeInSeq ==
    ASSUME NEW S, NEW s \in Seq(S), NEW T, Range(s) \subseteq T
    PROVE  s \in Seq(T)
<1>1. \A i \in 1 .. Len(s) : s[i] \in T
  BY SeqRange
<1>2. Len(s) \in Nat /\ s = [i \in 1 .. Len(s) |-> s[i]]
  OBVIOUS
<1>3. s \in [1 .. Len(s) -> T]
  BY ONLY <1>1, <1>2
<1> QED BY ONLY <1>2, <1>3, FunIsSeq

LEMMA WaitersOfDead ==
    ASSUME Inv, NEW id, NEW dead, NEW result, Buried(id, dead, result)
    PROVE  /\ WaitersOf(dead) \in Seq(Slots)
           /\ \A h \in Handles : Ended(dead, h) /\ handles[h].waker \in Slots =>
                handles[h].waker \in Range(WaitersOf(dead))
<1> DEFINE ws == [i \in 1 .. Len(dead) |-> handles[TaskOf(dead[i]).h].waker]
<1>1. \A i \in 1 .. Len(dead) : dead[i] \in Tasks
  BY SeqRange DEF Buried, Subtree
<1>2. \A x \in Tasks : /\ TaskOf(x).h <= Placed /\ TaskOf(x).h \in Handles
                       /\ handles[TaskOf(x).h].id = x
  BY TaskFacts DEF Inv, TreeInv, GoodTask
<1>3. \A h \in Handles : handles[h].waker \in Slots \cup {NoWaker}
  BY DEF Inv, TypeOK, TaskSlot
<1>4. /\ ws \in Seq(Slots \cup {NoWaker}) /\ Len(ws) = Len(dead)
      /\ \A i \in 1 .. Len(dead) : ws[i] = handles[TaskOf(dead[i]).h].waker
  <2>1. Len(dead) \in Nat
    BY DEF Buried, Subtree
  <2> QED BY <1>1, <1>2, <1>3, <2>1
<1>5. WaitersOf(dead) = Filter(ws, Slots)
  BY DEF WaitersOf
<1> HIDE DEF ws
<1>6. /\ Filter(ws, Slots) \in Seq(Slots \cup {NoWaker})
      /\ Range(Filter(ws, Slots)) = Range(ws) \cap Slots
  BY ONLY <1>4, FilterRange
<1>7. Filter(ws, Slots) \in Seq(Slots)
  BY <1>6, RangeInSeq
<1>8. ASSUME NEW h \in Handles, Ended(dead, h), handles[h].waker \in Slots
      PROVE  handles[h].waker \in Range(ws)
  <2>1. PICK i \in 1 .. Len(dead) : dead[i] = handles[h].id
    BY <1>8, SeqRange DEF Ended, Buried, Subtree
  <2>2. TaskOf(dead[i]).h = h
    BY <1>1, <1>2, <1>8, <2>1 DEF Inv, IdInv, Ended
  <2> QED BY <1>4, <2>1, <2>2, SeqRange
<1> QED BY <1>5, <1>6, <1>7, <1>8

LEMMA BuriedKeepsInv ==
    ASSUME Inv, NEW id, NEW dead, NEW result, Buried(id, dead, result),
           ready' \in Seq(Slots),
           \A s \in Range(ready) \cup Range(WaitersOf(dead)) :
              tasks'[s] # NoTask => s \in Range(ready'),
           pc' \in {"idle", "poll"},
           pc' = "poll" => current' \in Tasks \ Range(dead),
           pc' # "poll" => current' = NoTask,
           returned' \in {"none", "Done", "Progress"}
    PROVE  Inv'
<1>1. /\ \A x \in TaskId : Present(x)' <=> Present(x) /\ x \notin Range(dead)
      /\ Tasks' = Tasks \ Range(dead)
  BY TasksOfBuried DEF Inv
<1>2. /\ Placed' = Placed /\ generations' = generations /\ nslots' = nslots
      /\ spawned' = spawned /\ spawn_queue' = spawn_queue
  BY DEF Placed, Buried, Bury
<1>3. /\ handles' \in [Handles -> TaskSlot]
      /\ \A h \in Handles :
           /\ handles'[h].owner = handles[h].owner
           /\ handles'[h].id = handles[h].id
           /\ handles'[h].awaited = handles[h].awaited
           /\ ~Ended(dead, h) => handles'[h] = handles[h]
           /\ Ended(dead, h) => handles'[h].result = IF handles[h].result = "none" THEN result[h]
                                                     ELSE handles[h].result
  BY HandlesOfBuried
<1>4. \A h \in Handles : result[h] \in {"exit", "cancelled"}
  BY DEF Buried
<1>5. TypeOK'
  <2>1. /\ SlotAccounting' /\ free_slots' \in Seq(Slots) /\ active_count' \in 0 .. MaxTasks
    BY AccountsOfBuried DEF Inv
  <2>2. DOMAIN tasks' = Slots /\ \A s \in Slots : tasks'[s] = NoTask \/ tasks'[s] \in Task
    BY TablesOfBuried DEF Inv
  <2>3. current' \in TaskId \cup {NoTask}
    BY DEF Tasks
  <2> QED BY <1>2, <1>3, <2>1, <2>2, <2>3 DEF Inv, TypeOK
<1>6. IdInv'
  <2>1. \A s \in Slots : tasks'[s] # NoTask => s < nslots'
    BY <1>2, TablesOfBuried DEF Inv, IdInv
  <2>2. \A h \in Handles : h > Placed' => handles'[h].id = NoTask /\ handles'[h].result = "none"
    <3>1. \A h \in Handles : h > Placed => ~Ended(dead, h)
      BY DEF Ended, Handles, Inv, IdInv
    <3> QED BY <1>2, <1>3, <3>1 DEF Inv, IdInv
  <2>3. (\A h \in Handles : h <= Placed => KnownId(handles[h].id))'
    <3>1. \A h \in Handles : h <= Placed' => KnownId(handles'[h].id)
      BY <1>2, <1>3 DEF Inv, IdInv
    <3> QED BY <1>2, <3>1 DEF KnownId
  <2>4. \A g, h \in Handles :
          g <= Placed' /\ h <= Placed' /\ handles'[g].id = handles'[h].id => g = h
    BY <1>2, <1>3 DEF Inv, IdInv
  <2>5. \A s \in Slots, g \in 0 .. MaxTasks : s < nslots' /\ g <= generations'[s] =>
          \E h \in Handles : h <= Placed' /\ handles'[h].id = [slot |-> s, generation |-> g]
    BY <1>2, <1>3 DEF Inv, IdInv
  <2> QED BY <1>2, <2>1, <2>2, <2>3, <2>4, <2>5 DEF Inv, IdInv
<1>7. RequestInv'
  <2>1. ASSUME NEW k \in 1 .. Len(spawn_queue) PROVE GoodRequest(k)'
    <3> DEFINE request == spawn_queue[k]
               p == request.parent
    <3>1. GoodRequest(k) /\ spawn_queue'[k] = request
      BY <1>2 DEF Inv, RequestInv
    <3>2. /\ request.h = Placed + k
          /\ p = NoTask \/ KnownId(p)
          /\ request.root = NoTask <=> p = NoTask
          /\ request.root = NoTask \/ KnownId(request.root)
          /\ Present(p) => TaskOf(p).root = request.root
      BY <3>1 DEF GoodRequest
    <3> HIDE DEF p, request
    <3>3. Present(p)' => TaskOf(p)'.root = request.root
      <4> SUFFICES ASSUME Present(p)' PROVE TaskOf(p)'.root = request.root
        OBVIOUS
      <4>0. p' = p
        BY <3>1 DEF p, request
      <4>1. tasks'[p.slot] # NoTask /\ p # NoTask /\ p.slot < nslots /\ generations[p.slot] = p.generation
        BY <1>2, <4>0 DEF Present, Occupied
      <4>2. p \in TaskId
        BY <3>2, <4>1 DEF KnownId
      <4>3. p.slot \in Slots
        BY <4>2 DEF TaskId
      <4>4. Present(p) /\ p \in Tasks /\ p \notin Range(dead)
        <5>1. tasks[p.slot] # NoTask /\ p.slot \notin Range(SlotsOf(dead))
          BY <4>1, <4>3, TablesOfBuried DEF Inv
        <5>2. Present(p) /\ p \in Tasks
          BY <4>1, <4>2, <5>1 DEF Present, Occupied, Tasks
        <5>3. Subtree(dead, id)
          BY DEF Buried
        <5> QED BY <5>1, <5>2, <5>3, SlotsOfDead DEF Inv
      <4>5. tasks'[p.slot].root = tasks[p.slot].root
        <5>1. tasks[p.slot] # NoTask /\ p.slot \notin Range(SlotsOf(dead))
          BY <4>1, <4>3, TablesOfBuried DEF Inv
        <5> QED BY <4>3, <5>1, TablesOfBuried DEF Inv
      <4> QED BY <3>2, <4>0, <4>4, <4>5 DEF TaskOf
    <3>4. p' = p /\ request' = request
      BY <3>1 DEF p, request
    <3> QED BY <1>2, <3>1, <3>2, <3>3, <3>4 DEF GoodRequest, KnownId, p, request
  <2>2. (\A h \in Handles : handles[h].owner = NoTask \/ KnownId(handles[h].owner))'
    <3>1. \A h \in Handles : handles'[h].owner = NoTask \/ KnownId(handles'[h].owner)
      BY <1>3 DEF Inv, RequestInv
    <3> QED BY <1>2, <3>1 DEF KnownId
  <2>3. \A h \in Handles : h > spawned' => handles'[h].owner = NoTask
    BY <1>2, <1>3 DEF Inv, RequestInv
  <2> QED BY <1>1, <1>2, <2>1, <2>2, <2>3 DEF RequestInv
<1>8. \A h \in 1 .. spawned : h \in Handles
  BY SpawnedAreHandles DEF Inv
<1>9. \A h \in Handles : handles'[h].result = "none" <=> handles[h].result = "none" /\ ~Ended(dead, h)
  BY <1>3, <1>4
<1>10. ASSUME NEW x \in TaskId
       PROVE  (/\ x.slot < nslots' /\ tasks'[x.slot] # NoTask
               /\ generations'[x.slot] = x.generation)
                <=> Present(x) /\ x \notin Range(dead)
  <2>1. x # NoTask
    BY NoneAssumption
  <2> QED BY <1>1, <2>1 DEF Present, Occupied
<1>11. \A h \in Handles : handles[h].id # NoTask => handles[h].id \in TaskId /\ h <= Placed
  <2>1. \A h \in Handles : handles[h].id \in TaskId \cup {NoTask}
    BY DEF Inv, TypeOK, TaskSlot
  <2>2. \A h \in Handles : h > Placed => handles[h].id = NoTask
    BY DEF Inv, IdInv
  <2>3. \A h \in Handles : h <= Placed \/ h > Placed
    BY DEF Handles, Inv, IdInv
  <2> QED BY <2>1, <2>2, <2>3
<1>12. ResultIffGone'
  <2>1. ASSUME NEW h \in 1 .. spawned, handles[h].id # NoTask
        PROVE  Present(handles[h].id) /\ handles[h].id \notin Range(dead)
                 <=> handles'[h].result = "none"
    BY <1>8, <1>9, <1>11, <2>1 DEF Inv, ResultIffGone, Ended
  <2>2. ASSUME NEW h \in 1 .. spawned', handles'[h].id # NoTask
        PROVE  (/\ handles'[h].id # NoTask
                /\ handles'[h].id.slot < nslots' /\ tasks'[handles'[h].id.slot] # NoTask
                /\ generations'[handles'[h].id.slot] = handles'[h].id.generation)
                 <=> handles'[h].result = "none"
    <3>1. h \in 1 .. spawned /\ h \in Handles /\ handles'[h].id = handles[h].id
          /\ handles[h].id # NoTask /\ handles[h].id \in TaskId
      BY <1>2, <1>3, <1>8, <1>11, <2>2
    <3>2. (/\ handles[h].id.slot < nslots' /\ tasks'[handles[h].id.slot] # NoTask
           /\ generations'[handles[h].id.slot] = handles[h].id.generation)
             <=> Present(handles[h].id) /\ handles[h].id \notin Range(dead)
      BY <1>10, <3>1
    <3> QED BY <2>1, <3>1, <3>2
  <2> QED BY <2>2 DEF ResultIffGone, Present, Occupied
<1>13. ASSUME NEW h \in 1 .. spawned, handles[h].awaited,
              Present(handles[h].owner), handles[h].owner \notin Range(dead)
       PROVE  \/ handles'[h].result = "none" /\ handles'[h].waker = handles[h].owner.slot
              \/ handles[h].owner.slot \in Range(ready')
              \/ handles'[h].result = "taken"
  <2> DEFINE s == handles[h].owner.slot
  <2>1. h \in Handles /\ handles[h].owner \in TaskId /\ s \in Slots /\ tasks'[s] # NoTask
    <3>1. h \in Handles /\ handles[h].owner \in TaskId
      BY <1>8, <1>13 DEF Inv, TypeOK, TaskSlot, Present
    <3> QED BY <1>10, <1>13, <3>1 DEF TaskId
  <2>2. \/ handles[h].result = "none" /\ handles[h].waker = s
        \/ s \in Range(ready)
        \/ handles[h].result = "taken"
    BY <1>13 DEF Inv, WaiterIsWoken
  <2>3. CASE s \in Range(ready)
    BY <2>1, <2>3
  <2>4. CASE handles[h].result = "taken"
    BY <1>3, <2>1, <2>4
  <2>5. CASE handles[h].result = "none" /\ handles[h].waker = s
    <3>1. CASE Ended(dead, h)
      BY <2>1, <2>5, <3>1, WaitersOfDead
    <3>2. CASE ~Ended(dead, h)
      BY <1>3, <2>1, <2>5, <3>2
    <3> QED BY <3>1, <3>2
  <2> QED BY <2>2, <2>3, <2>4, <2>5
<1>14. WaiterIsWoken'
  <2>1. ASSUME NEW h \in 1 .. spawned', handles'[h].awaited,
               handles'[h].owner # NoTask, handles'[h].owner.slot < nslots',
               tasks'[handles'[h].owner.slot] # NoTask,
               generations'[handles'[h].owner.slot] = handles'[h].owner.generation
        PROVE  \/ handles'[h].result = "none" /\ handles'[h].waker = handles'[h].owner.slot
               \/ handles'[h].owner.slot \in Range(ready')
               \/ handles'[h].result = "taken"
    <3>1. h \in 1 .. spawned /\ h \in Handles /\ handles'[h].owner = handles[h].owner
          /\ handles[h].awaited
      BY <1>2, <1>3, <1>8, <2>1
    <3>2. handles[h].owner \in TaskId
      BY <2>1, <3>1 DEF Inv, TypeOK, TaskSlot
    <3>3. Present(handles[h].owner) /\ handles[h].owner \notin Range(dead)
      BY <1>10, <2>1, <3>1, <3>2
    <3> QED BY <1>13, <3>1, <3>3
  <2> QED BY <2>1 DEF WaiterIsWoken, Present, Occupied
<1> QED BY <1>5, <1>6, <1>7, <1>12, <1>14, TreeOfBuried DEF Inv

LEMMA CancelBuries ==
    ASSUME Inv, NEW h \in Handles, CancelTask(h)
    PROVE  Buried(handles[h].id, Descendants(handles[h].id), [x \in Handles |-> "cancelled"])
<1>1. /\ Present(handles[h].id)
      /\ tasks' = Unlink(handles[h].id, Descendants(handles[h].id))
      /\ Bury(Descendants(handles[h].id))
      /\ handles' = Finish(Descendants(handles[h].id), [x \in Handles |-> "cancelled"])
      /\ UNCHANGED <<spawn_queue, spawned>>
  BY DEF CancelTask
<1>2. handles[h].id \in Tasks
  BY <1>1 DEF Tasks, Present, Inv, TypeOK, TaskSlot
<1>3. Subtree(Descendants(handles[h].id), handles[h].id)
  BY <1>2, DescendantsAreSubtree DEF Inv
<1> QED BY <1>1, <1>2, <1>3 DEF Buried

LEMMA CancelKeepsInv ==
    ASSUME Inv, NEW h \in Handles, CancelTask(h)
    PROVE  Inv'
<1> DEFINE id == handles[h].id
           dead == Descendants(id)
           result == [x \in Handles |-> "cancelled"]
           all == ready \o WaitersOf(dead)
           held == {s \in Slots : tasks'[s] # NoTask}
<1>1. /\ pc \in {"idle", "poll"}
      /\ \A i \in 1 .. Len(dead) : dead[i] # current
      /\ ready' = Filter(all, held)
      /\ returned' = "none" /\ pc' = pc /\ current' = current
  BY DEF CancelTask, Retain
<1>2. Buried(id, dead, result)
  BY CancelBuries
<1> HIDE DEF id, dead, result
<1>3. Subtree(dead, id)
  BY <1>2 DEF Buried
<1>4. ready \in Seq(Slots) /\ WaitersOf(dead) \in Seq(Slots)
  BY <1>2, WaitersOfDead DEF Inv, TypeOK
<1>5. all \in Seq(Slots) /\ Range(all) = Range(ready) \cup Range(WaitersOf(dead))
  BY ONLY <1>4, Concatenation, ConcatRange
<1> HIDE DEF all
<1>6. ready' \in Seq(Slots) /\ Range(ready') = Range(all) \cap held
  BY ONLY <1>1, <1>5, FilterRange
<1>7. \A s \in Range(ready) \cup Range(WaitersOf(dead)) :
         tasks'[s] # NoTask => s \in Range(ready')
  BY <1>5, <1>6, SeqRange
<1>8. pc' = "poll" => current' \in Tasks \ Range(dead)
  BY <1>1, <1>3, SeqRange DEF Inv, RequestInv, Subtree
<1>9. pc' # "poll" => current' = NoTask
  BY <1>1 DEF Inv, RequestInv
<1> QED BY <1>1, <1>2, <1>6, <1>7, <1>8, <1>9, BuriedKeepsInv

LEMMA ReturnReadyBuries ==
    ASSUME Inv, ReturnReady
    PROVE  \E result : Buried(current, Append(ChildrenOfTask(current), current), result)
<1> DEFINE dead == Append(ChildrenOfTask(current), current)
           own == TaskOf(current).h
           result == [h \in Handles |-> IF h = own THEN "exit" ELSE "cancelled"]
<1>1. /\ pc = "poll" /\ tasks' = Unlink(current, dead) /\ Bury(dead)
      /\ handles' = Finish(dead, result) /\ UNCHANGED <<spawn_queue, spawned>>
  BY DEF ReturnReady
<1>2. current \in Tasks
  BY <1>1 DEF Inv, RequestInv
<1>3. Subtree(dead, current)
  BY <1>2, ChildrenAreSubtree DEF Inv
<1>4. \A h \in Handles : result[h] \in {"exit", "cancelled"}
  OBVIOUS
<1>5. Buried(current, dead, result)
  BY <1>1, <1>2, <1>3, <1>4 DEF Buried
<1> QED BY <1>5

LEMMA ReturnReadyKeepsInv ==
    ASSUME Inv, ReturnReady
    PROVE  Inv'
<1> DEFINE dead == Append(ChildrenOfTask(current), current)
<1>1. /\ pc' = "idle" /\ ready' = ready \o WaitersOf(dead)
      /\ current' = NoTask /\ returned' \in {"Done", "Progress"}
  BY DEF ReturnReady
<1>2. PICK result : Buried(current, dead, result)
  BY ReturnReadyBuries
<1> HIDE DEF dead
<1>3. ready \in Seq(Slots) /\ WaitersOf(dead) \in Seq(Slots)
  BY <1>2, WaitersOfDead DEF Inv, TypeOK
<1>4. ready' \in Seq(Slots) /\ Range(ready') = Range(ready) \cup Range(WaitersOf(dead))
  BY ONLY <1>1, <1>3, Concatenation, ConcatRange
<1> QED BY <1>1, <1>2, <1>4, BuriedKeepsInv

-----------------------------------------------------------------------------
(* The spawn queue is processed.                                           *)

LEMMA InjectionBound ==
    ASSUME NEW m \in Nat, NEW n \in Nat, NEW f,
           \A i \in 0 .. m : f[i] \in 1 .. n,
           \A i, j \in 0 .. m : f[i] = f[j] => i = j
    PROVE  m + 1 <= n
<1> DEFINE g == [i \in 0 .. m |-> f[i]]
<1>1. g \in Injection(0 .. m, 1 .. n)
  BY DEF Injection, IsInjective
<1>2. IsFiniteSet(0 .. m) /\ Cardinality(0 .. m) = m + 1
  <2>1. 0 \in Int /\ m \in Int /\ ~(0 > m)
    OBVIOUS
  <2>2. IsFiniteSet(0 .. m) /\ Cardinality(0 .. m) = IF 0 > m THEN 0 ELSE m - 0 + 1
    BY ONLY <2>1, FS_Interval
  <2> QED BY <2>1, <2>2
<1>3. IsFiniteSet(1 .. n) /\ Cardinality(1 .. n) = n
  <2>1. 1 \in Int /\ n \in Int /\ n >= 0
    OBVIOUS
  <2>2. IsFiniteSet(1 .. n) /\ Cardinality(1 .. n) = IF 1 > n THEN 0 ELSE n - 1 + 1
    BY ONLY <2>1, FS_Interval
  <2> QED BY <2>1, <2>2
<1> HIDE DEF g
<1>4. Cardinality(0 .. m) <= Cardinality(1 .. n)
  BY ONLY <1>1, <1>3, FS_Injection
<1> QED BY <1>2, <1>3, <1>4

(* There are no more slots, and no more generations of a slot, than        *)
(* handles that got an ID.                                                 *)
LEMMA IdsAreBounded ==
    ASSUME Inv
    PROVE  /\ nslots <= Placed
           /\ \A s \in Slots : s < nslots => generations[s] + 1 <= Placed
<1>0. /\ Placed \in Nat /\ nslots \in 0 .. MaxTasks /\ MaxTasks \in Nat
      /\ \A s \in Slots : generations[s] \in 0 .. MaxTasks
      /\ \A h \in Handles : h <= Placed => h \in 1 .. Placed
  BY TaskBounds DEF Inv, TypeOK, IdInv, Handles
<1>1. \A s \in Slots, g \in 0 .. MaxTasks : s < nslots /\ g <= generations[s] =>
          \E h \in 1 .. Placed : handles[h].id = [slot |-> s, generation |-> g]
  BY <1>0 DEF Inv, IdInv
<1>2. ASSUME nslots # 0 PROVE nslots <= Placed
  <2> DEFINE f == [s \in 0 .. nslots - 1 |->
                     CHOOSE h \in 1 .. Placed : handles[h].id = [slot |-> s, generation |-> 0]]
  <2>1. ASSUME NEW s \in 0 .. nslots - 1
        PROVE  f[s] \in 1 .. Placed /\ handles[f[s]].id = [slot |-> s, generation |-> 0]
    <3>1. s \in Slots /\ s < nslots /\ 0 \in 0 .. MaxTasks /\ 0 <= generations[s]
      BY <1>0 DEF Slots
    <3> QED BY <1>1, <3>1
  <2>2. ASSUME NEW i \in 0 .. nslots - 1, NEW j \in 0 .. nslots - 1, f[i] = f[j] PROVE i = j
    <3> HIDE DEF f
    <3>1. [slot |-> i, generation |-> 0] = [slot |-> j, generation |-> 0]
      BY <2>1, <2>2
    <3>2. [slot |-> i, generation |-> 0].slot = i /\ [slot |-> j, generation |-> 0].slot = j
      OBVIOUS
    <3> QED BY <3>1, <3>2
  <2>3. nslots - 1 \in Nat
    BY <1>0, <1>2
  <2>4. nslots - 1 + 1 <= Placed
    <3> HIDE DEF f
    <3> QED BY <1>0, <2>1, <2>2, <2>3, InjectionBound
  <2> QED BY <1>0, <2>4
<1>3. ASSUME NEW s \in Slots, s < nslots PROVE generations[s] + 1 <= Placed
  <2> DEFINE f == [g \in 0 .. generations[s] |->
                     CHOOSE h \in 1 .. Placed : handles[h].id = [slot |-> s, generation |-> g]]
  <2>1. ASSUME NEW g \in 0 .. generations[s]
        PROVE  f[g] \in 1 .. Placed /\ handles[f[g]].id = [slot |-> s, generation |-> g]
    <3>1. g \in 0 .. MaxTasks /\ g <= generations[s]
      BY <1>0
    <3> QED BY <1>1, <1>3, <3>1
  <2>2. ASSUME NEW i \in 0 .. generations[s], NEW j \in 0 .. generations[s], f[i] = f[j] PROVE i = j
    <3> HIDE DEF f
    <3>1. [slot |-> s, generation |-> i] = [slot |-> s, generation |-> j]
      BY <2>1, <2>2
    <3>2. [slot |-> s, generation |-> i].generation = i /\ [slot |-> s, generation |-> j].generation = j
      OBVIOUS
    <3> QED BY <3>1, <3>2
  <2>3. generations[s] \in Nat
    BY <1>0
  <2> HIDE DEF f
  <2> QED BY <1>0, <2>1, <2>2, <2>3, InjectionBound
<1> QED BY <1>0, <1>2, <1>3

(* The free slots and those after the last one are what SlotFor gives.     *)
LEMMA SlotsGiven ==
    ASSUME Inv, NEW n, n = Len(spawn_queue), NEW F, F = Len(free_slots)
    PROVE  /\ n \in Nat /\ F \in Nat /\ Placed + n = spawned
           /\ \A k \in 1 .. n :
                /\ SlotFor(k) \in Slots /\ tasks[SlotFor(k)] = NoTask
                /\ k <= F => SlotFor(k) < nslots /\ SlotFor(k) \in Range(free_slots)
                /\ k > F => SlotFor(k) = nslots + k - F - 1 /\ SlotFor(k) >= nslots
           /\ \A j, k \in 1 .. n : SlotFor(j) = SlotFor(k) => j = k
<1>0. /\ n \in Nat /\ F \in Nat /\ Placed + n = spawned /\ spawned \in 0 .. MaxTasks
      /\ MaxTasks \in Nat /\ nslots \in Nat /\ nslots <= Placed /\ Placed \in Nat
  BY IdsAreBounded, TaskBounds DEF Inv, TypeOK, Placed, IdInv
<1>1. /\ free_slots \in Seq(Slots)
      /\ \A i, j \in 1 .. F : free_slots[i] = free_slots[j] => i = j
      /\ \A i \in 1 .. F : /\ free_slots[i] \in Slots /\ free_slots[i] \in Range(free_slots)
                           /\ free_slots[i] < nslots /\ tasks[free_slots[i]] = NoTask
  BY SeqRange DEF Inv, TypeOK, SlotAccounting
<1>2. ASSUME NEW k \in 1 .. n, k <= F
      PROVE  F - k + 1 \in 1 .. F /\ SlotFor(k) = free_slots[F - k + 1]
  BY <1>0, <1>2 DEF SlotFor
<1>3. ASSUME NEW k \in 1 .. n, k > F
      PROVE  /\ SlotFor(k) = nslots + k - F - 1 /\ SlotFor(k) >= nslots
             /\ SlotFor(k) \in Slots /\ tasks[SlotFor(k)] = NoTask
  <2>1. SlotFor(k) = nslots + k - F - 1 /\ ~(k <= F)
    BY <1>0, <1>3 DEF SlotFor
  <2>2. SlotFor(k) >= nslots /\ SlotFor(k) \in Slots
    BY <1>0, <1>3, <2>1 DEF Slots
  <2> QED BY <1>0, <2>1, <2>2 DEF Inv, IdInv, Slots
<1>4. \A k \in 1 .. n : k <= F \/ k > F
  BY <1>0
<1>5. ASSUME NEW j \in 1 .. n, NEW k \in 1 .. n, SlotFor(j) = SlotFor(k) PROVE j = k
  <2>1. CASE j <= F /\ k <= F
    <3>1. F - j + 1 = F - k + 1
      BY <1>1, <1>2, <1>5, <2>1
    <3> QED BY <1>0, <3>1
  <2>2. CASE j > F /\ k > F
    BY <1>0, <1>3, <1>5, <2>2
  <2>3. CASE j <= F /\ k > F
    <3>1. SlotFor(j) < nslots /\ SlotFor(k) >= nslots
      BY <1>1, <1>2, <1>3, <2>3
    <3>2. SlotFor(j) \in Nat
      BY <1>1, <1>2, <2>3 DEF Slots
    <3> QED BY <1>0, <1>5, <3>1, <3>2
  <2>4. CASE j > F /\ k <= F
    <3>1. SlotFor(k) < nslots /\ SlotFor(j) >= nslots
      BY <1>1, <1>2, <1>3, <2>4
    <3>2. SlotFor(k) \in Nat
      BY <1>1, <1>2, <2>4 DEF Slots
    <3> QED BY <1>0, <1>5, <3>1, <3>2
  <2> QED BY <1>4, <2>1, <2>2, <2>3, <2>4
<1>6. \A k \in 1 .. n :
        /\ SlotFor(k) \in Slots /\ tasks[SlotFor(k)] = NoTask
        /\ k <= F => SlotFor(k) < nslots /\ SlotFor(k) \in Range(free_slots)
        /\ k > F => SlotFor(k) = nslots + k - F - 1 /\ SlotFor(k) >= nslots
  <2>1. ASSUME NEW k \in 1 .. n, k <= F
        PROVE  /\ SlotFor(k) \in Slots /\ tasks[SlotFor(k)] = NoTask
               /\ SlotFor(k) < nslots /\ SlotFor(k) \in Range(free_slots)
    BY <1>1, <1>2, <2>1
  <2>2. \A k \in 1 .. n : ~(k <= F /\ k > F)
    BY <1>0
  <2> QED BY <1>3, <1>4, <2>1, <2>2
<1> QED BY <1>0, <1>5, <1>6

(* The IDs given are new.                                                  *)
LEMMA IdsGiven ==
    ASSUME Inv
    PROVE  \A k \in 1 .. Len(spawn_queue) :
              /\ IdFor(k) \in TaskId /\ ~KnownId(IdFor(k))
              /\ IdFor(k).slot = SlotFor(k)
              /\ IdFor(k).generation = IF k <= Len(free_slots)
                                       THEN generations[SlotFor(k)] + 1 ELSE 0
<1> SUFFICES ASSUME NEW k \in 1 .. Len(spawn_queue)
             PROVE  /\ IdFor(k) \in TaskId /\ ~KnownId(IdFor(k))
                    /\ IdFor(k).slot = SlotFor(k)
                    /\ IdFor(k).generation = IF k <= Len(free_slots)
                                             THEN generations[SlotFor(k)] + 1 ELSE 0
  OBVIOUS
<1> DEFINE F == Len(free_slots)
           s == SlotFor(k)
<1>1. /\ s \in Slots /\ F \in Nat /\ k \in Nat
      /\ k <= F => s < nslots
      /\ k > F => s >= nslots
      /\ Placed + Len(spawn_queue) = spawned /\ Len(spawn_queue) \in Nat
  BY SlotsGiven
<1>2. /\ generations[s] \in Nat /\ spawned <= MaxTasks /\ MaxTasks \in Nat /\ spawned \in Nat
      /\ Placed \in Nat /\ nslots \in Nat /\ s \in Nat
  BY <1>1, TaskBounds DEF Inv, TypeOK, IdInv, Slots
<1>3. s < nslots => generations[s] + 1 <= MaxTasks
  <2>1. s < nslots => generations[s] + 1 <= Placed
    BY <1>1, IdsAreBounded
  <2> HIDE DEF s
  <2> QED BY <1>1, <1>2, <2>1
<1>4. /\ IdFor(k).slot = s
      /\ IdFor(k).generation = IF k <= F THEN generations[s] + 1 ELSE 0
      /\ IdFor(k) = [slot |-> s, generation |-> IF k <= F THEN generations[s] + 1 ELSE 0]
  BY DEF IdFor
<1> HIDE DEF F, s
<1>5. IdFor(k).generation \in 0 .. MaxTasks
  BY <1>1, <1>2, <1>3, <1>4
<1>6. IdFor(k) \in TaskId
  BY <1>1, <1>4, <1>5 DEF TaskId
<1>7. ~KnownId(IdFor(k))
  <2>1. CASE k <= F
    BY <1>2, <1>4, <2>1 DEF KnownId
  <2>2. CASE ~(k <= F)
    <3>1. s >= nslots
      BY <1>1, <2>2
    <3> QED BY <1>2, <1>4, <3>1 DEF KnownId
  <2> QED BY <2>1, <2>2
<1> QED BY <1>4, <1>6, <1>7 DEF F, s

IsGiven(s) == \E k \in 1 .. Len(spawn_queue) : SlotFor(k) = s
Given == [k \in 1 .. Len(spawn_queue) |-> SlotFor(k)]

LEMMA GivenFacts ==
    ASSUME Inv
    PROVE  /\ Given \in Seq(Slots) /\ Len(Given) = Len(spawn_queue) /\ IsInjective(Given)
           /\ \A s : s \in Range(Given) <=> IsGiven(s)
           /\ \A s : IsGiven(s) => s \in Slots /\ tasks[s] = NoTask
<1>1. /\ Len(spawn_queue) \in Nat
      /\ \A k \in 1 .. Len(spawn_queue) : SlotFor(k) \in Slots /\ tasks[SlotFor(k)] = NoTask
      /\ \A j, k \in 1 .. Len(spawn_queue) : SlotFor(j) = SlotFor(k) => j = k
  BY SlotsGiven
<1>2. /\ Given \in Seq(Slots) /\ Len(Given) = Len(spawn_queue)
      /\ \A k \in 1 .. Len(spawn_queue) : Given[k] = SlotFor(k)
  BY <1>1 DEF Given
<1>3. IsInjective(Given) /\ \A s : s \in Range(Given) <=> IsGiven(s)
  BY <1>1, <1>2, SeqRange DEF IsGiven
<1> QED BY <1>1, <1>2, <1>3 DEF IsGiven

(* The slots in use, and those that are free, after the queue was          *)
(* processed.                                                              *)
LEMMA SlotsAfter ==
    ASSUME Inv, ProcessSpawnQueue
    PROVE  /\ nslots' \in 0 .. MaxTasks
           /\ \A s \in Slots : s < nslots' <=> s < nslots \/ IsGiven(s)
           /\ free_slots' \in Seq(Slots) /\ IsInjective(free_slots')
           /\ \A s \in Slots : s \in Range(free_slots')
                                 <=> s \in Range(free_slots) /\ ~IsGiven(s)
<1> DEFINE n == Len(spawn_queue)
           F == Len(free_slots)
           reused == IF n <= F THEN n ELSE F
<1>1. /\ nslots' = nslots + n - reused
      /\ free_slots' = SubSeq(free_slots, 1, F - reused)
  BY DEF ProcessSpawnQueue
<1>2. /\ n \in Nat /\ F \in Nat /\ Placed + n = spawned
      /\ \A k \in 1 .. n :
           /\ SlotFor(k) \in Slots /\ tasks[SlotFor(k)] = NoTask
           /\ k <= F => SlotFor(k) < nslots /\ SlotFor(k) \in Range(free_slots)
           /\ k > F => SlotFor(k) = nslots + k - F - 1 /\ SlotFor(k) >= nslots
      /\ \A j, k \in 1 .. n : SlotFor(j) = SlotFor(k) => j = k
  BY SlotsGiven
<1>3. /\ nslots \in Nat /\ nslots <= Placed /\ Placed \in Nat /\ spawned \in 0 .. MaxTasks
      /\ MaxTasks \in Nat
  BY IdsAreBounded, TaskBounds DEF Inv, TypeOK, IdInv
<1>4. \A k \in 1 .. n : k <= F => F - k + 1 \in 1 .. F /\ SlotFor(k) = free_slots[F - k + 1]
  BY <1>2 DEF SlotFor
<1>5. \A s : IsGiven(s) <=> \E k \in 1 .. n : SlotFor(k) = s
  BY DEF IsGiven
<1> HIDE DEF n, F
<1>6. reused \in Nat /\ reused <= F /\ reused <= n /\ (reused = n \/ reused = F)
  BY <1>2
<1> HIDE DEF reused
<1>7. nslots' \in 0 .. MaxTasks
  BY <1>1, <1>2, <1>3, <1>6
<1>8. ASSUME NEW s \in Slots PROVE s < nslots' <=> s < nslots \/ IsGiven(s)
  <2>1. s \in Nat
    BY <1>3 DEF Slots
  <2>2. ASSUME s < nslots', ~(s < nslots) PROVE IsGiven(s)
    <3> DEFINE k == s - nslots + F + 1
    <3>1. k \in 1 .. n /\ k > F /\ nslots + k - F - 1 = s
      BY <1>1, <1>2, <1>3, <1>6, <2>1, <2>2
    <3> HIDE DEF k
    <3>2. SlotFor(k) = s
      BY <1>2, <3>1
    <3> QED BY <1>5, <3>1, <3>2
  <2>3. ASSUME NEW k \in 1 .. n, SlotFor(k) = s PROVE s < nslots'
    <3>1. CASE k <= F
      <4>1. s < nslots
        BY <1>2, <2>3, <3>1
      <4> QED BY <1>1, <1>2, <1>3, <1>6, <2>1, <4>1
    <3>2. CASE ~(k <= F)
      <4>1. s = nslots + k - F - 1 /\ reused = F
        BY <1>2, <1>6, <2>3, <3>2
      <4> QED BY <1>1, <1>2, <1>3, <4>1
    <3> QED BY <3>1, <3>2
  <2>4. s < nslots => s < nslots'
    BY <1>1, <1>2, <1>3, <1>6, <2>1
  <2> QED BY <1>5, <2>2, <2>3, <2>4
<1>9. /\ free_slots \in Seq(Slots) /\ F = Len(free_slots)
      /\ \A i, j \in 1 .. F : free_slots[i] = free_slots[j] => i = j
  BY SeqRange DEF Inv, TypeOK, SlotAccounting, F
<1>10. /\ free_slots' \in Seq(Slots) /\ Len(free_slots') = F - reused
       /\ \A i \in 1 .. (F - reused) : free_slots'[i] = free_slots[i]
  <2>1. F - reused \in 0 .. F
    BY <1>2, <1>6
  <2> QED BY <1>1, <1>9, <2>1
<1>11. IsInjective(free_slots')
  <2>1. \A i \in 1 .. (F - reused) : i \in 1 .. F
    BY <1>2, <1>6
  <2> QED BY <1>9, <1>10, <2>1, SeqRange
<1>12. ASSUME NEW s \in Slots
       PROVE  s \in Range(free_slots') <=> s \in Range(free_slots) /\ ~IsGiven(s)
  <2>1. ASSUME NEW i \in 1 .. F, free_slots[i] = s
        PROVE  IsGiven(s) <=> ~(i \in 1 .. (F - reused))
    <3>1. ASSUME ~(i \in 1 .. (F - reused)) PROVE IsGiven(s)
      <4> DEFINE k == F - i + 1
      <4>1. k \in 1 .. n /\ k <= F /\ F - k + 1 = i
        BY <1>2, <1>6, <3>1
      <4> HIDE DEF k
      <4>2. SlotFor(k) = s
        BY <1>4, <2>1, <4>1
      <4> QED BY <1>5, <4>1, <4>2
    <3>2. ASSUME NEW k \in 1 .. n, SlotFor(k) = s PROVE ~(i \in 1 .. (F - reused))
      <4>1. s \in Range(free_slots) /\ s < nslots
        BY <1>9, <2>1, SeqRange DEF Inv, TypeOK, SlotAccounting
      <4>2. k <= F
        <5> SUFFICES ASSUME k > F PROVE FALSE
          BY <1>2
        <5>1. s >= nslots
          BY <1>2, <3>2
        <5> QED BY <1>3, <4>1, <5>1 DEF Slots
      <4>3. F - k + 1 = i
        BY <1>4, <1>9, <2>1, <3>2, <4>2
      <4> QED BY <1>2, <1>6, <4>2, <4>3
    <3> QED BY <1>5, <3>1, <3>2
  <2>2. ASSUME s \in Range(free_slots') PROVE s \in Range(free_slots) /\ ~IsGiven(s)
    <3>1. PICK i \in 1 .. (F - reused) : free_slots'[i] = s
      BY <1>10, <2>2, SeqRange
    <3>2. i \in 1 .. F /\ free_slots[i] = s
      BY <1>2, <1>6, <1>10, <3>1
    <3> QED BY <1>9, <2>1, <3>1, <3>2, SeqRange
  <2>3. ASSUME s \in Range(free_slots), ~IsGiven(s) PROVE s \in Range(free_slots')
    <3>1. PICK i \in 1 .. F : free_slots[i] = s
      BY <1>9, <2>3, SeqRange
    <3>2. i \in 1 .. (F - reused)
      BY <2>1, <2>3, <3>1
    <3> QED BY <1>10, <3>1, <3>2, SeqRange
  <2> QED BY <2>2, <2>3
<1> QED BY <1>7, <1>8, <1>10, <1>11, <1>12

LEMMA TablesAfter ==
    ASSUME Inv, ProcessSpawnQueue
    PROVE  /\ DOMAIN tasks' = Slots
           /\ generations' \in [Slots -> 0 .. MaxTasks]
           /\ \A k \in 1 .. Len(spawn_queue) :
                /\ tasks'[SlotFor(k)] = TaskFor(k)
                /\ generations'[SlotFor(k)] = IdFor(k).generation
           /\ \A s \in Slots : ~IsGiven(s) =>
                /\ generations'[s] = generations[s]
                /\ tasks'[s] = IF tasks[s] = NoTask THEN NoTask
                     ELSE [tasks[s] EXCEPT !.children =
                       @ \o [i \in 1 .. Len(ChildrenFor(s)) |-> IdFor(ChildrenFor(s)[i])]]
           /\ \A s \in Slots : generations[s] <= generations'[s] \/ s >= nslots
<1> DEFINE n == Len(spawn_queue)
           given(s) == CHOOSE k \in 1 .. n : SlotFor(k) = s
           more(s) == [tasks[s] EXCEPT !.children =
                       @ \o [i \in 1 .. Len(ChildrenFor(s)) |-> IdFor(ChildrenFor(s)[i])]]
<1>1. /\ tasks' = [s \in Slots |-> IF IsGiven(s) THEN TaskFor(given(s))
                                   ELSE IF tasks[s] = NoTask THEN NoTask ELSE more(s)]
      /\ generations' = [s \in Slots |-> IF IsGiven(s) THEN IdFor(given(s)).generation
                                         ELSE generations[s]]
  BY DEF ProcessSpawnQueue, IsGiven
<1>2. /\ \A k \in 1 .. n : SlotFor(k) \in Slots /\ IsGiven(SlotFor(k))
      /\ \A j, k \in 1 .. n : SlotFor(j) = SlotFor(k) => j = k
      /\ n \in Nat
      /\ \A k \in 1 .. n : k > Len(free_slots) => SlotFor(k) >= nslots
  BY SlotsGiven DEF IsGiven
<1>3. \A s : IsGiven(s) => given(s) \in 1 .. n /\ SlotFor(given(s)) = s
  BY DEF IsGiven
<1>4. /\ \A k \in 1 .. n : given(SlotFor(k)) = k
  <2> HIDE DEF given
  <2> QED BY <1>2, <1>3
<1> HIDE DEF given, more
<1>5. \A k \in 1 .. n : /\ tasks'[SlotFor(k)] = TaskFor(k)
                        /\ generations'[SlotFor(k)] = IdFor(k).generation
  BY <1>1, <1>2, <1>4
<1>6. \A k \in 1 .. n :
         IdFor(k).generation \in 0 .. MaxTasks /\
         IdFor(k).generation = IF k <= Len(free_slots) THEN generations[SlotFor(k)] + 1 ELSE 0
  BY IdsGiven DEF TaskId
<1>7. \A s \in Slots : generations[s] \in 0 .. MaxTasks
  BY DEF Inv, TypeOK
<1>8. \A s \in Slots : ~IsGiven(s) =>
         generations'[s] = generations[s] /\ tasks'[s] = IF tasks[s] = NoTask THEN NoTask ELSE more(s)
  BY <1>1
<1>9. ASSUME NEW s \in Slots
      PROVE  generations'[s] \in 0 .. MaxTasks /\ (generations[s] <= generations'[s] \/ s >= nslots)
  <2>1. CASE ~IsGiven(s)
    BY <1>7, <1>8, <2>1, TaskBounds
  <2>2. CASE IsGiven(s)
    <3>1. PICK k \in 1 .. n : SlotFor(k) = s
      BY <2>2 DEF IsGiven
    <3>2. generations'[s] \in 0 .. MaxTasks
      BY <1>5, <1>6, <3>1
    <3>3. CASE k <= Len(free_slots)
      <4>1. generations'[s] = generations[s] + 1
        BY <1>5, <1>6, <3>1, <3>3
      <4> QED BY <1>7, <3>2, <4>1, TaskBounds
    <3>4. CASE ~(k <= Len(free_slots))
      <4>1. k > Len(free_slots)
        BY <1>2, <3>4, SlotsGiven
      <4> QED BY <1>2, <3>1, <3>2, <4>1
    <3> QED BY <3>3, <3>4
  <2> QED BY <2>1, <2>2
<1>10. DOMAIN tasks' = Slots /\ generations' \in [Slots -> 0 .. MaxTasks]
  BY <1>1, <1>9
<1> QED BY <1>5, <1>8, <1>9, <1>10 DEF more

LEMMA RequestFacts ==
    ASSUME Inv, NEW k \in 1 .. Len(spawn_queue)
    PROVE  /\ GoodRequest(k) /\ spawn_queue[k] \in SpawnRequest
           /\ spawn_queue[k].h \in Handles
           /\ spawn_queue[k].parent \in TaskId \cup {NoTask}
           /\ spawn_queue[k].root \in TaskId \cup {NoTask}
<1>1. GoodRequest(k)
  BY DEF Inv, RequestInv
<1>2. spawn_queue[k] \in SpawnRequest
  BY DEF Inv, TypeOK
<1> QED BY <1>1, <1>2 DEF SpawnRequest

LEMMA TaskForFacts ==
    ASSUME Inv, NEW k \in 1 .. Len(spawn_queue)
    PROVE  /\ TaskFor(k) \in Task /\ TaskFor(k) # NoTask
           /\ TaskFor(k).h = Placed + k /\ TaskFor(k).parent = spawn_queue[k].parent
           /\ TaskFor(k).root = IF spawn_queue[k].root = NoTask THEN IdFor(k)
                                ELSE spawn_queue[k].root
           /\ TaskFor(k).children = <<>>
<1>1. spawn_queue[k].h = Placed + k
  BY RequestFacts DEF GoodRequest
<1>2. IdFor(k) \in TaskId
  BY IdsGiven
<1>3. <<>> \in Seq(TaskId)
  OBVIOUS
<1>4. TaskFor(k) \in Task
  BY <1>2, <1>3, RequestFacts DEF TaskFor, Task
<1> QED BY <1>1, <1>4, NoneAssumption DEF TaskFor

LEMMA ChildrenForFacts ==
    ASSUME Inv, NEW s
    PROVE  /\ ChildrenFor(s) \in Seq(1 .. Len(spawn_queue))
           /\ IsInjective(ChildrenFor(s))
           /\ Range(ChildrenFor(s)) = {k \in 1 .. Len(spawn_queue) :
                                         /\ Present(spawn_queue[k].parent)
                                         /\ spawn_queue[k].parent.slot = s}
<1> DEFINE n == Len(spawn_queue)
           all == [k \in 1 .. n |-> k]
           T == {k \in 1 .. n : Present(spawn_queue[k].parent) /\ spawn_queue[k].parent.slot = s}
<1>1. n \in Nat
  BY SlotsGiven
<1>2. ChildrenFor(s) = Filter(all, T) /\ T \subseteq 1 .. n
  BY DEF ChildrenFor
<1> HIDE DEF n, T
<1>3. all \in Seq(1 .. n) /\ Len(all) = n /\ \A k \in 1 .. n : all[k] = k
  BY <1>1
<1> HIDE DEF all
<1>4. IsInjective(all) /\ Range(all) = 1 .. n
  BY <1>3, SeqRange
<1>5. Filter(all, T) \in Seq(1 .. n) /\ Range(Filter(all, T)) = Range(all) \cap T
      /\ IsInjective(Filter(all, T))
  BY ONLY <1>3, <1>4, FilterRange
<1> QED BY <1>2, <1>4, <1>5 DEF n, T

(* The children that the task in slot s gets.                              *)
NewChildren(s) == [i \in 1 .. Len(ChildrenFor(s)) |-> IdFor(ChildrenFor(s)[i])]

LEMMA NewChildrenFacts ==
    ASSUME Inv, NEW s
    PROVE  /\ NewChildren(s) \in Seq(TaskId) /\ IsInjective(NewChildren(s))
           /\ \A c : c \in Range(NewChildren(s)) <=>
                       \E k \in 1 .. Len(spawn_queue) :
                          /\ c = IdFor(k) /\ Present(spawn_queue[k].parent)
                          /\ spawn_queue[k].parent.slot = s
<1> DEFINE n == Len(spawn_queue)
           ch == ChildrenFor(s)
           new == NewChildren(s)
<1>1. /\ \A k \in 1 .. n : IdFor(k) \in TaskId /\ IdFor(k).slot = SlotFor(k)
      /\ \A j, k \in 1 .. n : SlotFor(j) = SlotFor(k) => j = k
  BY IdsGiven, SlotsGiven
<1>2. /\ ch \in Seq(1 .. n) /\ IsInjective(ch)
      /\ \A k : k \in Range(ch) <=> k \in 1 .. n /\ Present(spawn_queue[k].parent)
                                    /\ spawn_queue[k].parent.slot = s
  BY ChildrenForFacts
<1> HIDE DEF ch, n
<1>3. /\ \A i \in 1 .. Len(ch) : ch[i] \in 1 .. n
      /\ \A i, j \in 1 .. Len(ch) : ch[i] = ch[j] => i = j
      /\ \A k : k \in Range(ch) <=> \E i \in 1 .. Len(ch) : ch[i] = k
      /\ Len(ch) \in Nat
  BY <1>2, SeqRange
<1>4. new = [i \in 1 .. Len(ch) |-> IdFor(ch[i])]
  BY DEF NewChildren, ch
<1>5. /\ new \in Seq(TaskId) /\ Len(new) = Len(ch)
      /\ \A i \in 1 .. Len(ch) : new[i] = IdFor(ch[i])
  BY <1>1, <1>3, <1>4
<1> HIDE DEF new
<1>6. \A i, j \in 1 .. Len(new) : new[i] = new[j] => i = j
  BY <1>1, <1>3, <1>5
<1>7. IsInjective(new)
  BY <1>5, <1>6, SeqRange
<1>8. \A c : c \in Range(new) <=> \E i \in 1 .. Len(ch) : c = IdFor(ch[i])
  BY <1>5, SeqRange
<1>9. \A c : c \in Range(new) <=> \E k \in Range(ch) : c = IdFor(k)
  BY <1>3, <1>8
<1> QED BY <1>2, <1>5, <1>7, <1>9 DEF new, n

LEMMA AccountsAfter ==
    ASSUME Inv, ProcessSpawnQueue
    PROVE  /\ \A s \in Slots : tasks'[s] = NoTask <=> tasks[s] = NoTask /\ ~IsGiven(s)
           /\ \A s \in Slots : tasks'[s] = NoTask \/ tasks'[s] \in Task
           /\ SlotAccounting' /\ active_count' \in 0 .. MaxTasks
<1>1. ASSUME NEW s \in Slots
      PROVE  /\ tasks'[s] = NoTask <=> tasks[s] = NoTask /\ ~IsGiven(s)
             /\ tasks'[s] = NoTask \/ tasks'[s] \in Task
  <2>1. CASE IsGiven(s)
    <3>1. PICK k \in 1 .. Len(spawn_queue) : SlotFor(k) = s
      BY <2>1 DEF IsGiven
    <3>2. tasks'[s] = TaskFor(k)
      BY <3>1, TablesAfter
    <3> QED BY <2>1, <3>2, TaskForFacts
  <2>2. CASE ~IsGiven(s) /\ tasks[s] = NoTask
    BY <2>2, TablesAfter
  <2>3. CASE ~IsGiven(s) /\ tasks[s] # NoTask
    <3>1. tasks[s] \in Task
      BY <2>3 DEF Inv, TypeOK
    <3>2. tasks'[s] = [tasks[s] EXCEPT !.children = @ \o NewChildren(s)]
      BY <2>3, TablesAfter DEF NewChildren
    <3>3. tasks[s].children \o NewChildren(s) \in Seq(TaskId)
      <4>1. tasks[s].children \in Seq(TaskId) /\ NewChildren(s) \in Seq(TaskId)
        BY <3>1, NewChildrenFacts DEF Task
      <4> QED BY ONLY <4>1, Concatenation
    <3>4. tasks'[s] \in Task
      BY <3>1, <3>2, <3>3 DEF Task
    <3> QED BY <2>3, <3>4, NoneAssumption
  <2> QED BY <2>1, <2>2, <2>3
<1> DEFINE used == {s \in Slots : tasks[s] # NoTask}
           n == Len(spawn_queue)
<1>2. /\ Given \in Seq(Slots) /\ Len(Given) = n /\ IsInjective(Given)
      /\ \A s : s \in Range(Given) <=> IsGiven(s)
      /\ \A s : IsGiven(s) => s \in Slots /\ tasks[s] = NoTask
  BY GivenFacts
<1>3. {s \in Slots : tasks'[s] # NoTask} = used \cup Range(Given)
  BY <1>1, <1>2
<1>4. /\ active_count = Cardinality(used) /\ active_count' = active_count + n
      /\ \A s \in Slots : s \in Range(free_slots) <=> (s < nslots /\ tasks[s] = NoTask)
  BY DEF ProcessSpawnQueue, Inv, TypeOK, SlotAccounting
<1>5. used \cap Range(Given) = {} /\ used \subseteq Slots /\ Range(Given) \subseteq Slots
  BY <1>2
<1> HIDE DEF used, n
<1>6. IsFiniteSet(Range(Given)) /\ Cardinality(Range(Given)) = n
  BY <1>2, InjectiveCount
<1>7. IsFiniteSet(Slots) /\ Cardinality(Slots) = MaxTasks /\ MaxTasks \in Nat
  <2>1. 0 \in Int /\ MaxTasks - 1 \in Int /\ MaxTasks \in Nat /\ ~(0 > MaxTasks - 1)
    BY TaskBounds
  <2>2. IsFiniteSet(0 .. MaxTasks - 1)
        /\ Cardinality(0 .. MaxTasks - 1) = IF 0 > MaxTasks - 1 THEN 0 ELSE MaxTasks - 1 - 0 + 1
    BY ONLY <2>1, FS_Interval
  <2> QED BY <2>1, <2>2 DEF Slots
<1>8. IsFiniteSet(used) /\ Cardinality(used) \in Nat
  BY <1>5, <1>7, FS_Subset, FS_CardinalityType
<1>9. Cardinality(used \cup Range(Given)) = Cardinality(used) + n
  <2>1. Cardinality(used \cup Range(Given))
          = Cardinality(used) + Cardinality(Range(Given)) - Cardinality(used \cap Range(Given))
    BY ONLY <1>6, <1>8, FS_Union
  <2>2. Cardinality(used \cap Range(Given)) = 0
    BY <1>5, FS_EmptySet
  <2>3. n \in Nat
    BY <1>6, FS_CardinalityType
  <2> QED BY <1>6, <1>8, <2>1, <2>2, <2>3
<1>10. /\ Cardinality(used \cup Range(Given)) <= MaxTasks
       /\ Cardinality(used \cup Range(Given)) \in Nat
  <2>1. used \cup Range(Given) \in SUBSET Slots
    BY <1>5
  <2> QED BY <1>7, <2>1, FS_Subset, FS_CardinalityType
<1>11. /\ active_count' = Cardinality({s \in Slots : tasks'[s] # NoTask})
       /\ active_count' \in 0 .. MaxTasks
  BY <1>3, <1>4, <1>7, <1>9, <1>10
<1>12. \A s \in Slots : s \in Range(free_slots') <=> (s < nslots' /\ tasks'[s] = NoTask)
  <2> SUFFICES ASSUME NEW s \in Slots
               PROVE  s \in Range(free_slots') <=> (s < nslots' /\ tasks'[s] = NoTask)
    OBVIOUS
  <2>1. s \in Range(free_slots') <=> s \in Range(free_slots) /\ ~IsGiven(s)
    BY SlotsAfter
  <2>2. s < nslots' <=> s < nslots \/ IsGiven(s)
    BY SlotsAfter
  <2> QED BY <1>1, <1>4, <2>1, <2>2
<1>13. IsInjective(free_slots')
  BY SlotsAfter
<1> QED BY <1>1, <1>11, <1>12, <1>13 DEF SlotAccounting

LEMMA TasksAfter ==
    ASSUME Inv, ProcessSpawnQueue
    PROVE  /\ \A x \in TaskId : Present(x)' <=>
                 Present(x) \/ \E k \in 1 .. Len(spawn_queue) : x = IdFor(k)
           /\ \A x : KnownId(x) => KnownId(x)'
           /\ \A x : KnownId(x) => ~\E k \in 1 .. Len(spawn_queue) : x = IdFor(k)
           /\ Tasks' = Tasks \cup {IdFor(k) : k \in 1 .. Len(spawn_queue)}
<1> DEFINE n == Len(spawn_queue)
<1>1. \A k \in 1 .. n : IdFor(k) \in TaskId /\ ~KnownId(IdFor(k)) /\ IdFor(k).slot = SlotFor(k)
  BY IdsGiven
<1>2. /\ \A s \in Slots : s < nslots' <=> s < nslots \/ IsGiven(s)
      /\ \A s \in Slots : tasks'[s] = NoTask <=> tasks[s] = NoTask /\ ~IsGiven(s)
      /\ \A s \in Slots : ~IsGiven(s) => generations'[s] = generations[s]
      /\ \A k \in 1 .. n : generations'[SlotFor(k)] = IdFor(k).generation
      /\ \A s \in Slots : generations[s] <= generations'[s] \/ s >= nslots
      /\ \A s : IsGiven(s) => s \in Slots /\ tasks[s] = NoTask
  BY SlotsAfter, AccountsAfter, TablesAfter, GivenFacts
<1>3. \A s : IsGiven(s) <=> \E k \in 1 .. n : SlotFor(k) = s
  BY DEF IsGiven
<1> HIDE DEF n
<1>4. ASSUME NEW x \in TaskId
      PROVE  Present(x)' <=> Present(x) \/ \E k \in 1 .. n : x = IdFor(k)
  <2>1. x.slot \in Slots /\ x # NoTask /\ x = [slot |-> x.slot, generation |-> x.generation]
    BY NoneAssumption DEF TaskId
  <2>2. Present(x)' <=> /\ x.slot < nslots' /\ tasks'[x.slot] # NoTask
                        /\ generations'[x.slot] = x.generation
    BY <2>1 DEF Present, Occupied
  <2>3. Present(x) <=> /\ x.slot < nslots /\ tasks[x.slot] # NoTask
                       /\ generations[x.slot] = x.generation
    BY <2>1 DEF Present, Occupied
  <2>4. CASE ~IsGiven(x.slot)
    <3>1. ~\E k \in 1 .. n : x = IdFor(k)
      BY <1>1, <1>3, <2>4
    <3> QED BY <1>2, <2>1, <2>2, <2>3, <2>4, <3>1
  <2>5. CASE IsGiven(x.slot)
    <3>1. PICK k \in 1 .. n : SlotFor(k) = x.slot
      BY <1>3, <2>5
    <3>2. ~Present(x) /\ x.slot < nslots' /\ tasks'[x.slot] # NoTask
      BY <1>2, <2>1, <2>3, <2>5
    <3>3. Present(x)' <=> IdFor(k).generation = x.generation
      BY <1>2, <2>2, <3>1, <3>2
    <3>4. IdFor(k) = [slot |-> IdFor(k).slot, generation |-> IdFor(k).generation]
      BY <1>1 DEF TaskId
    <3>5. IdFor(k).generation = x.generation => x = IdFor(k)
      BY <1>1, <2>1, <3>1, <3>4
    <3>6. \A j \in 1 .. n : x = IdFor(j) => IdFor(k).generation = x.generation
      BY <1>1, <1>2, <3>1
    <3> QED BY <3>2, <3>3, <3>5, <3>6
  <2> QED BY <2>4, <2>5
<1>5. ASSUME NEW x, KnownId(x) PROVE KnownId(x)'
  <2>1. x \in TaskId /\ x.slot < nslots /\ x.generation <= generations[x.slot]
    BY <1>5 DEF KnownId
  <2>2. x.slot \in Slots /\ x.generation \in Nat
    BY <2>1, TaskBounds DEF TaskId
  <2>3. x.slot < nslots'
    BY <1>2, <2>1, <2>2
  <2>4. generations[x.slot] \in Nat /\ generations'[x.slot] \in Nat
        /\ x.slot \in Nat /\ nslots \in Nat
    BY <2>2, TablesAfter, TaskBounds DEF Inv, TypeOK, Slots
  <2>5. x.generation <= generations'[x.slot]
    <3>1. generations[x.slot] <= generations'[x.slot] \/ x.slot >= nslots
      BY <1>2, <2>2
    <3> QED BY <2>1, <2>2, <2>4, <3>1
  <2> QED BY <2>1, <2>3, <2>5 DEF KnownId
<1>6. Tasks' = Tasks \cup {IdFor(k) : k \in 1 .. n}
  BY <1>1, <1>4 DEF Tasks
<1> QED BY <1>1, <1>4, <1>5, <1>6 DEF n

LEMMA HandlesAfter ==
    ASSUME Inv, ProcessSpawnQueue
    PROVE  /\ handles' \in [Handles -> TaskSlot]
           /\ \A h \in Handles :
                /\ handles'[h].owner = handles[h].owner /\ handles'[h].result = handles[h].result
                /\ handles'[h].waker = handles[h].waker /\ handles'[h].awaited = handles[h].awaited
                /\ h <= Placed \/ h > spawned => handles'[h].id = handles[h].id
           /\ \A k \in 1 .. Len(spawn_queue) :
                Placed + k \in Handles /\ handles'[Placed + k].id = IdFor(k)
<1> DEFINE n == Len(spawn_queue)
           at(h) == CHOOSE k \in 1 .. n : spawn_queue[k].h = h
           placed(h) == [handles[h] EXCEPT !.id = IdFor(at(h))]
<1>1. handles' = [h \in Handles |-> IF \E k \in 1 .. n : spawn_queue[k].h = h
                                    THEN placed(h) ELSE handles[h]]
  BY DEF ProcessSpawnQueue
<1>2. /\ n \in Nat /\ Placed \in Nat /\ Placed + n = spawned
      /\ \A k \in 1 .. n : spawn_queue[k].h = Placed + k /\ Placed + k \in Handles
      /\ \A k \in 1 .. n : IdFor(k) \in TaskId
  BY SlotsGiven, RequestFacts, IdsGiven DEF GoodRequest, Inv, IdInv
<1>3. \A h \in Handles : handles[h] \in TaskSlot
  BY DEF Inv, TypeOK
<1>4. \A k \in 1 .. n : at(Placed + k) = k
  <2> SUFFICES ASSUME NEW k \in 1 .. n PROVE at(Placed + k) = k
    OBVIOUS
  <2>1. at(Placed + k) \in 1 .. n /\ spawn_queue[at(Placed + k)].h = Placed + k
    BY <1>2
  <2> HIDE DEF at
  <2>2. Placed + at(Placed + k) = Placed + k
    BY <1>2, <2>1
  <2> QED BY <1>2, <2>1, <2>2
<1>5. \A h \in Handles : (\E k \in 1 .. n : spawn_queue[k].h = h) => at(h) \in 1 .. n
  OBVIOUS
<1> HIDE DEF at
<1>6. ASSUME NEW h \in Handles, at(h) \in 1 .. n
      PROVE  /\ placed(h) \in TaskSlot /\ placed(h).id = IdFor(at(h))
             /\ placed(h).owner = handles[h].owner /\ placed(h).result = handles[h].result
             /\ placed(h).waker = handles[h].waker /\ placed(h).awaited = handles[h].awaited
  BY <1>2, <1>3, <1>6 DEF TaskSlot
<1>7. ASSUME NEW h \in Handles, h <= Placed \/ h > spawned
      PROVE  ~\E k \in 1 .. n : spawn_queue[k].h = h
  BY <1>2, <1>7 DEF Handles
<1> HIDE DEF placed, n
<1>8. ASSUME NEW h \in Handles
      PROVE  /\ handles'[h] \in TaskSlot
             /\ handles'[h].owner = handles[h].owner /\ handles'[h].result = handles[h].result
             /\ handles'[h].waker = handles[h].waker /\ handles'[h].awaited = handles[h].awaited
             /\ h <= Placed \/ h > spawned => handles'[h].id = handles[h].id
  BY <1>1, <1>3, <1>5, <1>6, <1>7
<1>9. ASSUME NEW k \in 1 .. n PROVE handles'[Placed + k].id = IdFor(k)
  <2>1. at(Placed + k) = k /\ Placed + k \in Handles /\ spawn_queue[k].h = Placed + k
    BY <1>2, <1>4
  <2> QED BY <1>1, <1>6, <2>1
<1>10. handles' = [h \in Handles |-> handles'[h]]
  BY <1>1
<1>11. handles' \in [Handles -> TaskSlot]
  BY <1>8, <1>10
<1> QED BY <1>2, <1>8, <1>9, <1>11 DEF n

LEMMA TaskAfter ==
    ASSUME Inv, ProcessSpawnQueue, NEW x \in Tasks
    PROVE  /\ TaskOf(x)'.h = TaskOf(x).h /\ TaskOf(x)'.parent = TaskOf(x).parent
           /\ TaskOf(x)'.root = TaskOf(x).root
           /\ TaskOf(x)'.children = TaskOf(x).children \o NewChildren(x.slot)
<1>1. /\ x.slot \in Slots /\ tasks[x.slot] \in Task /\ TaskOf(x) = tasks[x.slot]
      /\ tasks[x.slot] # NoTask
  BY TaskFacts DEF Inv, Present, Occupied
<1>2. ~IsGiven(x.slot)
  BY <1>1, GivenFacts
<1>3. tasks'[x.slot] = [tasks[x.slot] EXCEPT !.children = @ \o NewChildren(x.slot)]
  BY <1>1, <1>2, TablesAfter DEF NewChildren
<1>4. TaskOf(x)' = tasks'[x.slot]
  BY DEF TaskOf
<1> QED BY <1>1, <1>3, <1>4 DEF Task

LEMMA TasksAreKnown ==
    ASSUME TypeOK, NEW x \in Tasks
    PROVE  KnownId(x)
<1>1. /\ x \in TaskId /\ x.slot \in Slots /\ x.slot < nslots
      /\ x.generation = generations[x.slot]
  BY TaskFacts DEF Present
<1>2. generations[x.slot] \in Nat
  BY <1>1, TaskBounds DEF TypeOK
<1> QED BY <1>1, <1>2 DEF KnownId

(* What it takes for a task to be good after a step.                       *)
LEMMA GoodTaskAfter ==
    ASSUME NEW x
    PROVE  GoodTask(x)' <=>
             /\ TaskOf(x)'.h <= Placed' /\ handles'[TaskOf(x)'.h].id = x
             /\ IsInjective(TaskOf(x)'.children)
             /\ Range(TaskOf(x)'.children) = {c \in Tasks' : TaskOf(c)'.parent = x}
             /\ TaskOf(x)'.parent = NoTask <=> TaskOf(x)'.root = x
             /\ \/ TaskOf(x)'.parent = NoTask
                \/ \E p : p = TaskOf(x)'.parent /\ KnownId(p)'
             /\ \E r : r = TaskOf(x)'.root /\ KnownId(r)'
             /\ \A p : p = TaskOf(x)'.parent /\ Present(p)' =>
                    TaskOf(p)'.root = TaskOf(x)'.root /\ TaskOf(p)'.h < TaskOf(x)'.h
BY DEF GoodTask, KnownId, Present, Occupied, TaskOf

LEMMA TreeAfter ==
    ASSUME Inv, ProcessSpawnQueue
    PROVE  TreeInv'
<1> DEFINE n == Len(spawn_queue)
           new == {IdFor(k) : k \in 1 .. n}
<1>1. /\ \A x \in TaskId : Present(x)' <=> Present(x) \/ \E k \in 1 .. n : x = IdFor(k)
      /\ \A x : KnownId(x) => KnownId(x)'
      /\ \A x : KnownId(x) => ~\E k \in 1 .. n : x = IdFor(k)
      /\ Tasks' = Tasks \cup new
  BY TasksAfter
<1>2. /\ \A k \in 1 .. n : IdFor(k) \in TaskId /\ ~KnownId(IdFor(k)) /\ IdFor(k).slot = SlotFor(k)
      /\ \A j, k \in 1 .. n : SlotFor(j) = SlotFor(k) => j = k
      /\ n \in Nat /\ Placed \in Nat /\ Placed + n = spawned
  BY IdsGiven, SlotsGiven DEF Inv, IdInv
<1>3. Placed' = spawned
  BY DEF ProcessSpawnQueue, Placed, Inv, TypeOK
<1>4. ASSUME NEW k \in 1 .. n, NEW x, x = IdFor(k)
      PROVE  TaskOf(x)' = TaskFor(k)
  <2>1. TaskOf(x)' = tasks'[x.slot] /\ x.slot = SlotFor(k)
    BY <1>2, <1>4 DEF TaskOf
  <2>2. tasks'[SlotFor(k)] = TaskFor(k)
    BY TablesAfter
  <2> QED BY <2>1, <2>2
<1>5. \A x \in Tasks : /\ TaskOf(x)'.h = TaskOf(x).h /\ TaskOf(x)'.parent = TaskOf(x).parent
                       /\ TaskOf(x)'.root = TaskOf(x).root
                       /\ TaskOf(x)'.children = TaskOf(x).children \o NewChildren(x.slot)
  BY TaskAfter
<1>6. /\ \A k \in 1 .. n : TaskFor(k).parent = spawn_queue[k].parent
      /\ \A k \in 1 .. n : /\ spawn_queue[k].parent = NoTask \/ KnownId(spawn_queue[k].parent)
                           /\ spawn_queue[k].parent \in TaskId \cup {NoTask}
  BY TaskForFacts, RequestFacts DEF GoodRequest
<1>7. \A x \in Tasks : KnownId(x)
  BY TasksAreKnown DEF Inv
<1>8. ASSUME NEW x \in Tasks PROVE GoodTask(x)'
  <2> DEFINE ch == TaskOf(x).children
             t == TaskOf(x)
  <2>1. /\ GoodTask(x) /\ ch \in Seq(TaskId) /\ t.h \in Handles /\ t.parent \in TaskId \cup {NoTask}
        /\ x \in TaskId /\ x.slot \in Slots
    BY TaskFacts DEF Inv, TreeInv
  <2>2. /\ t.h <= Placed /\ handles[t.h].id = x
        /\ IsInjective(ch) /\ Range(ch) = {c \in Tasks : TaskOf(c).parent = x}
        /\ t.parent = NoTask <=> t.root = x
        /\ t.parent = NoTask \/ KnownId(t.parent)
        /\ KnownId(t.root)
        /\ Present(t.parent) => TaskOf(t.parent).root = t.root /\ TaskOf(t.parent).h < t.h
    BY <2>1 DEF GoodTask
  <2> HIDE DEF ch, t
  <2>3. /\ NewChildren(x.slot) \in Seq(TaskId) /\ IsInjective(NewChildren(x.slot))
        /\ \A c : c \in Range(NewChildren(x.slot)) <=>
             \E k \in 1 .. n : /\ c = IdFor(k) /\ Present(spawn_queue[k].parent)
                               /\ spawn_queue[k].parent.slot = x.slot
    BY NewChildrenFacts
  <2>4. \A k \in 1 .. n :
           Present(spawn_queue[k].parent) /\ spawn_queue[k].parent.slot = x.slot
             <=> spawn_queue[k].parent = x
    <3> SUFFICES ASSUME NEW k \in 1 .. n
                 PROVE  Present(spawn_queue[k].parent) /\ spawn_queue[k].parent.slot = x.slot
                          <=> spawn_queue[k].parent = x
      OBVIOUS
    <3>1. Present(spawn_queue[k].parent) => spawn_queue[k].parent \in Tasks
      BY <1>6 DEF Present, Tasks
    <3>2. Present(x)
      BY DEF Tasks
    <3> QED BY <3>1, <3>2, OneTaskPerSlot DEF Inv
  <2>5. Range(ch \o NewChildren(x.slot)) = Range(ch) \cup Range(NewChildren(x.slot))
        /\ (Range(ch) \cap Range(NewChildren(x.slot)) = {} => IsInjective(ch \o NewChildren(x.slot)))
    <3>1. ch \in Seq(TaskId)
      BY <2>1
    <3> QED BY ONLY <2>2, <2>3, <3>1, ConcatRange
  <2>6. Range(ch) \cap Range(NewChildren(x.slot)) = {}
    BY <1>1, <1>7, <2>2, <2>3
  <2>7. {c \in Tasks' : TaskOf(c)'.parent = x} = Range(ch) \cup Range(NewChildren(x.slot))
    <3>1. \A c \in Tasks : TaskOf(c)'.parent = x <=> c \in Range(ch)
      BY <1>5, <2>2
    <3>2. \A c \in new : TaskOf(c)'.parent = x <=> c \in Range(NewChildren(x.slot))
      <4> SUFFICES ASSUME NEW k \in 1 .. n, NEW c, c = IdFor(k)
                   PROVE  TaskOf(c)'.parent = x <=> c \in Range(NewChildren(x.slot))
        OBVIOUS
      <4>1. TaskOf(c)'.parent = spawn_queue[k].parent
        BY <1>4, <1>6
      <4>2. \A j \in 1 .. n : c = IdFor(j) => j = k
        BY <1>2
      <4> QED BY <2>3, <2>4, <4>1, <4>2
    <3>3. Range(NewChildren(x.slot)) \subseteq new /\ Range(ch) \subseteq Tasks
      BY <2>2, <2>3
    <3>4. \A c : c \in Tasks => c \notin new
      BY <1>1, <1>7
    <3> QED BY <1>1, <3>1, <3>2, <3>3, <3>4
  <2>8. /\ TaskOf(x)'.h = t.h /\ TaskOf(x)'.parent = t.parent /\ TaskOf(x)'.root = t.root
        /\ TaskOf(x)'.children = ch \o NewChildren(x.slot)
    BY <1>5 DEF t, ch
  <2>9. t.h <= Placed' /\ handles'[t.h].id = x
    <3>1. handles'[t.h].id = handles[t.h].id
      BY <2>1, <2>2, HandlesAfter DEF t
    <3>2. t.h \in Nat
      BY <2>1, TaskBounds DEF Handles, t
    <3> QED BY <1>2, <1>3, <2>2, <3>1, <3>2
  <2>10. \A p : p = t.parent /\ Present(p)' => TaskOf(p)'.root = t.root /\ TaskOf(p)'.h < t.h
    <3> SUFFICES ASSUME NEW p, p = t.parent, Present(p)'
                 PROVE  TaskOf(p)'.root = t.root /\ TaskOf(p)'.h < t.h
      OBVIOUS
    <3>1. p # NoTask
      BY DEF Present
    <3>2. p \in TaskId /\ KnownId(p)
      BY <2>1, <2>2, <3>1 DEF t
    <3>3. Present(p) /\ p \in Tasks
      BY <1>1, <3>2 DEF Tasks
    <3>4. TaskOf(p)'.root = TaskOf(p).root /\ TaskOf(p)'.h = TaskOf(p).h
      BY <1>5, <3>3
    <3> QED BY <2>2, <3>3, <3>4
  <2>11. \/ t.parent = NoTask
         \/ \E p : p = t.parent /\ KnownId(p)'
    BY <1>1, <2>2
  <2>12. \E r : r = t.root /\ KnownId(r)'
    BY <1>1, <2>2
  <2> QED BY <2>2, <2>5, <2>6, <2>7, <2>8, <2>9, <2>10, <2>11, <2>12, GoodTaskAfter
<1>9. ASSUME NEW k \in 1 .. n, NEW x, x = IdFor(k) PROVE GoodTask(x)'
  <2> DEFINE request == spawn_queue[k]
             t == TaskFor(k)
             p0 == spawn_queue[k].parent
  <2>1. /\ t.h = Placed + k /\ t.parent = p0
        /\ t.root = IF request.root = NoTask THEN x ELSE request.root
        /\ t.children = <<>>
    BY <1>9, TaskForFacts
  <2>2. /\ p0 = NoTask \/ KnownId(p0)
        /\ request.root = NoTask <=> p0 = NoTask
        /\ request.root = NoTask \/ KnownId(request.root)
        /\ Present(p0) => TaskOf(p0).root = request.root
        /\ p0 \in TaskId \cup {NoTask}
    BY RequestFacts DEF GoodRequest
  <2>3. TaskOf(x)' = t
    BY <1>4, <1>9
  <2>4. ~KnownId(x) /\ x \in TaskId /\ x # NoTask
    BY <1>2, <1>9, NoneAssumption
  <2> HIDE DEF t, request, p0
  <2>5. t.h <= Placed' /\ handles'[t.h].id = x
    BY <1>2, <1>3, <1>9, <2>1, HandlesAfter
  <2>6. IsInjective(t.children) /\ Range(t.children) = {}
    BY <2>1 DEF IsInjective, Range
  <2>7. {c \in Tasks' : TaskOf(c)'.parent = x} = {}
    <3>1. ASSUME NEW c \in Tasks PROVE TaskOf(c)'.parent # x
      <4>1. TaskOf(c)'.parent = NoTask \/ KnownId(TaskOf(c).parent)
        BY <1>5 DEF Inv, TreeInv, GoodTask
      <4> QED BY <1>5, <2>4, <4>1
    <3>2. ASSUME NEW j \in 1 .. n, NEW c, c = IdFor(j) PROVE TaskOf(c)'.parent # x
      <4>1. TaskOf(c)'.parent = spawn_queue[j].parent
        BY <1>4, <1>6, <3>2
      <4> QED BY <1>6, <2>4, <4>1
    <3> QED BY <1>1, <3>1, <3>2
  <2>8. t.parent = NoTask <=> t.root = x
    BY <2>1, <2>2, <2>4
  <2>9. KnownId(x)'
    <3>1. x.slot = SlotFor(k) /\ x.generation = generations'[SlotFor(k)]
      BY <1>2, <1>9, TablesAfter
    <3>2. SlotFor(k) \in Slots /\ IsGiven(SlotFor(k))
      BY SlotsGiven DEF IsGiven
    <3>3. SlotFor(k) < nslots'
      BY <3>2, SlotsAfter
    <3>4. generations'[SlotFor(k)] \in Nat
      BY <3>2, TablesAfter, TaskBounds
    <3> QED BY <2>4, <3>1, <3>3, <3>4 DEF KnownId
  <2>10. \/ t.parent = NoTask
         \/ \E p : p = t.parent /\ KnownId(p)'
    BY <1>1, <2>1, <2>2
  <2>11. \E r : r = t.root /\ KnownId(r)'
    BY <1>1, <2>1, <2>2, <2>9
  <2>12. \A p : p = t.parent /\ Present(p)' => TaskOf(p)'.root = t.root /\ TaskOf(p)'.h < t.h
    <3> SUFFICES ASSUME NEW p, p = t.parent, Present(p)'
                 PROVE  TaskOf(p)'.root = t.root /\ TaskOf(p)'.h < t.h
      OBVIOUS
    <3>1. p # NoTask
      BY DEF Present
    <3>2. p = p0 /\ p \in TaskId /\ KnownId(p)
      BY <2>1, <2>2, <3>1
    <3>3. Present(p) /\ p \in Tasks
      BY <1>1, <3>2 DEF Tasks
    <3>4. TaskOf(p)'.root = TaskOf(p).root /\ TaskOf(p)'.h = TaskOf(p).h
      BY <1>5, <3>3
    <3>5. TaskOf(p).h <= Placed /\ TaskOf(p).h \in Nat
      BY <3>3, TaskFacts DEF Inv, TreeInv, GoodTask
    <3>6. TaskOf(p).h < t.h
      BY <1>2, <2>1, <3>5
    <3>7. TaskOf(p).root = t.root
      BY <2>1, <2>2, <3>1, <3>2, <3>3
    <3> QED BY <3>4, <3>6, <3>7
  <2> QED BY <2>3, <2>5, <2>6, <2>7, <2>8, <2>10, <2>11, <2>12, GoodTaskAfter
<1> HIDE DEF n
<1>10. \A x \in Tasks' : GoodTask(x)'
  BY <1>1, <1>8, <1>9
<1> QED BY <1>10 DEF TreeInv

LEMMA IdsAfter ==
    ASSUME Inv, ProcessSpawnQueue
    PROVE  IdInv'
<1> DEFINE n == Len(spawn_queue)
<1>1. /\ \A x : KnownId(x) => KnownId(x)'
      /\ \A x : KnownId(x) => ~\E k \in 1 .. n : x = IdFor(k)
      /\ Tasks' = Tasks \cup {IdFor(k) : k \in 1 .. n}
  BY TasksAfter
<1>2. /\ \A k \in 1 .. n : IdFor(k) \in TaskId /\ ~KnownId(IdFor(k)) /\ IdFor(k).slot = SlotFor(k)
      /\ \A j, k \in 1 .. n : SlotFor(j) = SlotFor(k) => j = k
      /\ n \in Nat /\ Placed \in Nat /\ Placed + n = spawned
      /\ \A h \in Handles : h \in Nat
  <2>1. \A h \in Handles : h \in Nat
    BY TaskBounds DEF Handles
  <2>2. Placed \in Nat
    BY DEF Inv, IdInv
  <2> QED BY <2>1, <2>2, IdsGiven, SlotsGiven
<1>3. Placed' = spawned
  BY DEF ProcessSpawnQueue, Placed, Inv, TypeOK
<1>4. /\ \A h \in Handles :
           /\ handles'[h].result = handles[h].result
           /\ h <= Placed \/ h > spawned => handles'[h].id = handles[h].id
      /\ \A k \in 1 .. n : Placed + k \in Handles /\ handles'[Placed + k].id = IdFor(k)
  BY HandlesAfter
<1>5. /\ \A h \in Handles : h > Placed => handles[h].id = NoTask /\ handles[h].result = "none"
      /\ \A h \in Handles : h <= Placed => KnownId(handles[h].id)
      /\ \A g, h \in Handles : g <= Placed /\ h <= Placed /\ handles[g].id = handles[h].id => g = h
      /\ \A s \in Slots, g \in 0 .. MaxTasks : s < nslots /\ g <= generations[s] =>
            \E h \in Handles : h <= Placed /\ handles[h].id = [slot |-> s, generation |-> g]
      /\ \A s \in Slots : tasks[s] # NoTask => s < nslots
  BY DEF Inv, IdInv
<1>6. \A h \in Handles : h <= spawned => h <= Placed \/ \E k \in 1 .. n : h = Placed + k
  <2> SUFFICES ASSUME NEW h \in Handles, h <= spawned, ~(h <= Placed)
               PROVE  \E k \in 1 .. n : h = Placed + k
    OBVIOUS
  <2>1. h - Placed \in 1 .. n /\ h = Placed + (h - Placed)
    BY <1>2
  <2> QED BY <2>1
<1>7. \A s \in Slots : tasks'[s] # NoTask => s < nslots'
  BY <1>5, AccountsAfter, SlotsAfter
<1>8. \A h \in Handles : h > spawned => handles'[h].id = NoTask /\ handles'[h].result = "none"
  <2>1. \A h \in Handles : h > spawned => h > Placed
    BY <1>2
  <2> QED BY <1>4, <1>5, <2>1
<1> HIDE DEF n
<1>9. \A k \in 1 .. n : \A x : x = IdFor(k) => KnownId(x)'
  <2> SUFFICES ASSUME NEW k \in 1 .. n, NEW x, x = IdFor(k) PROVE KnownId(x)'
    OBVIOUS
  <2>1. x.slot = SlotFor(k) /\ x.generation = generations'[SlotFor(k)] /\ x \in TaskId
    BY <1>2, TablesAfter DEF n
  <2>2. SlotFor(k) \in Slots /\ IsGiven(SlotFor(k))
    BY SlotsGiven DEF IsGiven, n
  <2>3. SlotFor(k) < nslots'
    BY <2>2, SlotsAfter
  <2>4. generations'[SlotFor(k)] \in Nat
    BY <2>2, TablesAfter, TaskBounds
  <2> QED BY <2>1, <2>3, <2>4 DEF KnownId
<1>10. (\A h \in Handles : h <= Placed => KnownId(handles[h].id))'
  <2>1. ASSUME NEW h \in Handles, h <= spawned
        PROVE  \E x : x = handles'[h].id /\ KnownId(x)'
    <3>1. CASE h <= Placed
      <4>1. handles'[h].id = handles[h].id /\ KnownId(handles[h].id)
        BY <1>4, <1>5, <3>1
      <4> QED BY <1>1, <4>1
    <3>2. CASE \E k \in 1 .. n : h = Placed + k
      BY <1>4, <1>9, <3>2
    <3> QED BY <1>6, <2>1, <3>1, <3>2
  <2> QED BY <1>3, <2>1 DEF KnownId
<1>11. ASSUME NEW g \in Handles, NEW h \in Handles, g <= spawned, h <= spawned,
              handles'[g].id = handles'[h].id
       PROVE  g = h
  <2>1. \A k \in 1 .. n, f \in Handles : f <= Placed => handles[f].id # IdFor(k)
    BY <1>1, <1>5
  <2>2. CASE g <= Placed /\ h <= Placed
    BY <1>4, <1>5, <1>11, <2>2
  <2>3. CASE g <= Placed /\ \E k \in 1 .. n : h = Placed + k
    BY <1>4, <1>11, <2>1, <2>3
  <2>4. CASE h <= Placed /\ \E k \in 1 .. n : g = Placed + k
    BY <1>4, <1>11, <2>1, <2>4
  <2>5. CASE (\E k \in 1 .. n : h = Placed + k) /\ (\E k \in 1 .. n : g = Placed + k)
    <3>1. PICK j \in 1 .. n : g = Placed + j
      BY <2>5
    <3>2. PICK k \in 1 .. n : h = Placed + k
      BY <2>5
    <3>3. IdFor(j) = IdFor(k)
      BY <1>4, <1>11, <3>1, <3>2
    <3>4. j = k
      BY <1>2, <3>3
    <3> QED BY <3>1, <3>2, <3>4
  <2> QED BY <1>6, <1>11, <2>2, <2>3, <2>4, <2>5
<1>12. ASSUME NEW s \in Slots, NEW g \in 0 .. MaxTasks, s < nslots', g <= generations'[s]
       PROVE  \E h \in Handles : h <= spawned /\ handles'[h].id = [slot |-> s, generation |-> g]
  <2>1. ASSUME s < nslots, g <= generations[s]
        PROVE  \E h \in Handles : h <= spawned /\ handles'[h].id = [slot |-> s, generation |-> g]
    <3>1. PICK h \in Handles : h <= Placed /\ handles[h].id = [slot |-> s, generation |-> g]
      BY <1>5, <2>1
    <3>2. h <= spawned /\ handles'[h].id = handles[h].id
      BY <1>2, <1>4, <3>1
    <3> QED BY <3>1, <3>2
  <2>2. ASSUME NEW k \in 1 .. n, SlotFor(k) = s, g = IdFor(k).generation
        PROVE  \E h \in Handles : h <= spawned /\ handles'[h].id = [slot |-> s, generation |-> g]
    <3>1. IdFor(k) = [slot |-> s, generation |-> g]
      BY <1>2, <2>2 DEF TaskId
    <3>2. Placed + k \in Handles /\ Placed + k <= spawned /\ handles'[Placed + k].id = IdFor(k)
      BY <1>2, <1>4
    <3> QED BY <3>1, <3>2
  <2>3. CASE ~IsGiven(s)
    BY <1>12, <2>1, <2>3, SlotsAfter, TablesAfter
  <2>4. CASE IsGiven(s)
    <3>1. PICK k \in 1 .. n : SlotFor(k) = s
      BY <2>4 DEF IsGiven, n
    <3>2. generations'[s] = IdFor(k).generation
      BY <3>1, TablesAfter DEF n
    <3>3. IdFor(k).generation = IF k <= Len(free_slots) THEN generations[s] + 1 ELSE 0
      BY <3>1, IdsGiven DEF n
    <3>4. generations[s] \in Nat /\ g \in Nat /\ Len(free_slots) \in Nat /\ k \in Nat
      BY <1>2, TaskBounds DEF Inv, TypeOK
    <3>5. CASE g = IdFor(k).generation
      BY <2>2, <3>1, <3>5
    <3>6. CASE g # IdFor(k).generation
      <4>1. k <= Len(free_slots) /\ g <= generations[s]
        BY <1>12, <3>2, <3>3, <3>4, <3>6
      <4>2. s < nslots
        BY <3>1, <4>1, SlotsGiven DEF n
      <4> QED BY <2>1, <4>1, <4>2
    <3> QED BY <3>5, <3>6
  <2> QED BY <2>3, <2>4
<1>13. spawned \in Nat
  BY <1>2
<1> QED BY <1>3, <1>7, <1>8, <1>10, <1>11, <1>12, <1>13 DEF IdInv

LEMMA ProcessKeepsInv ==
    ASSUME Inv, ProcessSpawnQueue
    PROVE  Inv'
<1> DEFINE n == Len(spawn_queue)
<1>1. /\ \A x \in TaskId : Present(x)' <=> Present(x) \/ \E k \in 1 .. n : x = IdFor(k)
      /\ \A x : KnownId(x) => KnownId(x)'
      /\ \A x : KnownId(x) => ~\E k \in 1 .. n : x = IdFor(k)
  BY TasksAfter
<1>2. /\ \A k \in 1 .. n : IdFor(k) \in TaskId
      /\ n \in Nat /\ Placed \in Nat /\ Placed + n = spawned
      /\ \A h \in Handles : h \in Nat
  <2>1. \A h \in Handles : h \in Nat
    BY TaskBounds DEF Handles
  <2>2. Placed \in Nat
    BY DEF Inv, IdInv
  <2> QED BY <2>1, <2>2, IdsGiven, SlotsGiven
<1>3. /\ pc = "idle" /\ pc' = "pick" /\ returned' = "none" /\ current' = current
      /\ spawn_queue' = <<>> /\ spawned' = spawned /\ ready' = ready \o Given
  BY DEF ProcessSpawnQueue, Given
<1>4. /\ handles' \in [Handles -> TaskSlot]
      /\ \A h \in Handles :
           /\ handles'[h].owner = handles[h].owner /\ handles'[h].result = handles[h].result
           /\ handles'[h].waker = handles[h].waker /\ handles'[h].awaited = handles[h].awaited
           /\ h <= Placed \/ h > spawned => handles'[h].id = handles[h].id
      /\ \A k \in 1 .. n : Placed + k \in Handles /\ handles'[Placed + k].id = IdFor(k)
  BY HandlesAfter
<1>5. ready' \in Seq(Slots) /\ Range(ready') = Range(ready) \cup Range(Given)
  <2>1. ready \in Seq(Slots) /\ Given \in Seq(Slots)
    BY GivenFacts DEF Inv, TypeOK
  <2> QED BY ONLY <1>3, <2>1, Concatenation, ConcatRange
<1>6. TypeOK'
  <2>1. SlotAccounting' /\ active_count' \in 0 .. MaxTasks
        /\ \A s \in Slots : tasks'[s] = NoTask \/ tasks'[s] \in Task
    BY AccountsAfter
  <2>2. /\ DOMAIN tasks' = Slots /\ generations' \in [Slots -> 0 .. MaxTasks]
        /\ nslots' \in 0 .. MaxTasks /\ free_slots' \in Seq(Slots)
    BY TablesAfter, SlotsAfter
  <2>3. spawn_queue' \in Seq(SpawnRequest)
    BY <1>3
  <2> QED BY <1>3, <1>4, <1>5, <2>1, <2>2, <2>3 DEF Inv, TypeOK
<1>7. RequestInv'
  <2>1. (\A h \in Handles : handles[h].owner = NoTask \/ KnownId(handles[h].owner))'
    <3>1. \A h \in Handles : \E x : x = handles'[h].owner /\ (x = NoTask \/ KnownId(x)')
      BY <1>1, <1>4 DEF Inv, RequestInv
    <3> QED BY <3>1 DEF KnownId
  <2>2. \A h \in Handles : h > spawned' => handles'[h].owner = NoTask
    BY <1>3, <1>4 DEF Inv, RequestInv
  <2> QED BY <1>3, <2>1, <2>2 DEF Inv, RequestInv
<1>8. \A h \in 1 .. spawned : h \in Handles
  BY SpawnedAreHandles DEF Inv
<1>9. \A x : (Present(x)' <=> /\ x # NoTask /\ x.slot < nslots' /\ tasks'[x.slot] # NoTask
                              /\ generations'[x.slot] = x.generation)
  BY DEF Present, Occupied
<1> HIDE DEF n
<1>10. ResultIffGone'
  <2>1. ASSUME NEW h \in 1 .. spawned, handles'[h].id # NoTask
        PROVE  \E x : x = handles'[h].id /\ (Present(x)' <=> handles'[h].result = "none")
    <3>0. h \in Handles
      BY <1>8
    <3>1. CASE h <= Placed
      <4>1. /\ handles'[h].id = handles[h].id /\ KnownId(handles[h].id)
            /\ handles[h].id \in TaskId
        BY <1>4, <3>0, <3>1 DEF Inv, IdInv, KnownId
      <4>2. handles[h].id # NoTask /\ (Present(handles[h].id) <=> handles[h].result = "none")
        BY <2>1, <4>1 DEF Inv, ResultIffGone
      <4>3. \E x : x = handles[h].id /\ (Present(x)' <=> Present(handles[h].id))
        BY <1>1, <4>1
      <4> QED BY <1>4, <3>0, <4>1, <4>2, <4>3
    <3>2. CASE ~(h <= Placed)
      <4>1. h - Placed \in 1 .. n /\ h = Placed + (h - Placed)
        BY <1>2, <3>0, <3>2
      <4>2. PICK k \in 1 .. n : h = Placed + k
        BY <4>1
      <4>3. handles'[h].id = IdFor(k)
        BY <1>4, <4>2
      <4>4. \E x : x = IdFor(k) /\ Present(x)'
        BY <1>1, <1>2
      <4>5. handles'[h].result = "none"
        BY <1>2, <1>4, <3>0, <3>2 DEF Inv, IdInv
      <4> QED BY <4>3, <4>4, <4>5
    <3> QED BY <3>1, <3>2
  <2> QED BY <1>3, <2>1 DEF ResultIffGone, Present, Occupied
<1>11. ASSUME NEW h \in 1 .. spawned, handles'[h].awaited,
              \E x : x = handles'[h].owner /\ Present(x)'
       PROVE  \/ handles'[h].result = "none" /\ handles'[h].waker = handles'[h].owner.slot
              \/ handles'[h].owner.slot \in Range(ready')
              \/ handles'[h].result = "taken"
  <2>1. h \in Handles /\ handles[h].awaited /\ handles'[h].owner = handles[h].owner
    BY <1>4, <1>8, <1>11
  <2>2. handles[h].owner # NoTask
    BY <1>9, <1>11, <2>1
  <2>3. KnownId(handles[h].owner) /\ handles[h].owner \in TaskId
    BY <2>1, <2>2 DEF Inv, RequestInv, KnownId
  <2>4. Present(handles[h].owner)
    BY <1>1, <1>11, <2>1, <2>3
  <2> QED BY <1>4, <1>5, <2>1, <2>4 DEF Inv, WaiterIsWoken
<1>12. WaiterIsWoken'
  BY <1>3, <1>11 DEF WaiterIsWoken, Present, Occupied
<1> QED BY <1>6, <1>7, <1>10, <1>12, IdsAfter, TreeAfter DEF Inv

-----------------------------------------------------------------------------
(* The theorems.                                                           *)

LEMMA InitInv == Init => Inv
<1> SUFFICES ASSUME Init PROVE Inv
  OBVIOUS
<1>1. /\ tasks = [s \in Slots |-> NoTask] /\ generations = [s \in Slots |-> 0]
      /\ nslots = 0 /\ free_slots = <<>> /\ ready = <<>> /\ spawn_queue = <<>>
      /\ active_count = 0 /\ handles = [h \in Handles |-> NewHandle(NoTask)]
      /\ spawned = 0 /\ pc = "idle" /\ current = NoTask /\ returned = "none"
  BY DEF Init
<1>2. MaxTasks \in Nat /\ \A s \in Slots : tasks[s] = NoTask /\ s \in Nat
  BY <1>1, TaskBounds DEF Slots
<1>3. Range(free_slots) = {} /\ IsInjective(free_slots)
  BY <1>1 DEF Range, IsInjective
<1>4. SlotAccounting
  <2>1. {s \in Slots : tasks[s] # NoTask} = {}
    BY <1>2
  <2>2. Cardinality({s \in Slots : tasks[s] # NoTask}) = 0
    BY <2>1, FS_EmptySet
  <2>3. \A s \in Slots : ~(s < nslots)
    BY <1>1, <1>2
  <2> QED BY <1>1, <1>3, <2>2, <2>3 DEF SlotAccounting
<1>5. NewHandle(NoTask) \in TaskSlot
  BY DEF NewHandle, TaskSlot
<1>6. \A h \in Handles : handles[h] = NewHandle(NoTask)
  BY <1>1
<1>7. TypeOK
  BY <1>1, <1>2, <1>4, <1>5 DEF TypeOK
<1>8. Placed = 0 /\ \A h \in Handles : h > 0
  <2>1. \A h \in Handles : h > 0
    BY TaskBounds DEF Handles
  <2>2. spawned = 0 /\ Len(spawn_queue) = 0
    BY <1>1
  <2>3. Placed = 0
    BY ONLY <2>2 DEF Placed
  <2> QED BY <2>1, <2>3
<1>9. \A x \in TaskId : ~Present(x)
  BY <1>1, <1>2 DEF Present, Occupied, TaskId
<1>10. IdInv
  <2>1. \A h \in Handles : h > Placed => handles[h].id = NoTask /\ handles[h].result = "none"
    BY <1>6 DEF NewHandle
  <2>2. \A h \in Handles : ~(h <= Placed)
    BY <1>8 DEF Handles
  <2>3. \A s \in Slots : ~(s < nslots)
    BY <1>1, <1>2
  <2> QED BY <1>2, <1>8, <2>1, <2>2, <2>3 DEF IdInv
<1>11. RequestInv
  BY <1>1, <1>6 DEF RequestInv, NewHandle
<1>12. TreeInv
  BY <1>9 DEF TreeInv, Tasks
<1>13. ResultIffGone /\ WaiterIsWoken
  BY <1>1 DEF ResultIffGone, WaiterIsWoken
<1> QED BY <1>7, <1>10, <1>11, <1>12, <1>13 DEF Inv

LEMMA StutterKeepsInv ==
    ASSUME Inv, UNCHANGED vars
    PROVE  Inv'
<1>1. UNCHANGED tables /\ UNCHANGED <<spawned, spawn_queue>>
      /\ UNCHANGED <<ready, handles, pc, current, returned>>
  BY DEF vars, tables
<1>2. WaiterIsWoken'
  BY <1>1 DEF Inv, WaiterIsWoken, Present, Occupied, tables
<1> QED BY <1>1, <1>2, QuietStep DEF Inv, TypeOK, RequestInv

(* Every step keeps the invariant.                                         *)
LEMMA StepKeepsInv ==
    ASSUME Inv, [Next]_vars
    PROVE  Inv'
<1>1. CASE Spawn
  BY <1>1, SpawnKeepsInv
<1>2. CASE ProcessSpawnQueue
  BY <1>2, ProcessKeepsInv
<1>3. CASE PollReadyTask
  BY <1>3, PollKeepsInv
<1>4. CASE NothingReady
  BY <1>4, NothingReadyKeepsInv
<1>5. ASSUME NEW h \in Handles, CancelTask(h) PROVE Inv'
  BY <1>5, CancelKeepsInv
<1>6. ASSUME NEW h \in Handles, Await(h) PROVE Inv'
  BY <1>6, AwaitKeepsInv
<1>7. ASSUME NEW h \in Handles, TryGet(h) PROVE Inv'
  BY <1>7, TryGetKeepsInv
<1>8. ASSUME NEW s \in Slots, Wake(s) PROVE Inv'
  BY <1>8, WakeKeepsInv
<1>9. CASE ReturnPending
  BY <1>9, ReturnPendingKeepsInv
<1>10. CASE ReturnReady
  BY <1>10, ReturnReadyKeepsInv
<1>11. CASE UNCHANGED vars
  BY <1>11, StutterKeepsInv
<1> QED BY <1>1, <1>2, <1>3, <1>4, <1>5, <1>6, <1>7, <1>8, <1>9, <1>10, <1>11 DEF Next

(* The tables, the IDs, the requests and the tree are consistent in every *)
(* state.                                                                  *)
THEOREM InvHolds == Spec => []Inv
<1>1. Inv /\ [Next]_vars => Inv'
  BY StepKeepsInv
<1> QED BY InitInv, <1>1, PTL DEF Spec

(* The tables are typed and accounted for: active_count counts the tasks,  *)
(* the free list holds each empty slot once, and neither a slot number nor *)
(* a generation exceeds the number of spawns, after any mix of completions *)
(* and nested cancellations.                                               *)
THEOREM TablesAreAccounted == Spec => []TypeOK
<1>1. Inv => TypeOK
  BY DEF Inv
<1> QED BY InvHolds, <1>1, PTL

(* Children and parents agree, every child is listed once, and the stored  *)
(* root is the top of the chain while that chain exists.                   *)
THEOREM TreeStaysConsistent == Spec => []TreeConsistent
<1>1. ASSUME Inv PROVE TreeConsistent
  <2> SUFFICES ASSUME NEW id \in Tasks
               PROVE  /\ IsInjective(TaskOf(id).children)
                      /\ Range(TaskOf(id).children) = {c \in Tasks : TaskOf(c).parent = id}
                      /\ root_task[id] \in {NoTask, TaskOf(id).root}
                      /\ TaskOf(id).parent = NoTask <=> TaskOf(id).root = id
    BY DEF TreeConsistent
  <2>1. GoodTask(id)
    BY <1>1 DEF Inv, TreeInv
  <2>2. root_task[id] \in {NoTask, TaskOf(id).root}
    BY <1>1, TopIsRoot DEF Inv
  <2> QED BY <2>1, <2>2 DEF GoodTask
<1> QED BY InvHolds, <1>1, PTL

(* A handle has a result exactly when its task is gone.                    *)
THEOREM ResultsTellTheEnd == Spec => []ResultIffGone
<1>1. Inv => ResultIffGone
  BY DEF Inv
<1> QED BY InvHolds, <1>1, PTL

(* The task that waits for another is woken when that one ends, whether it *)
(* completed, was cancelled, or was cancelled as a descendant.             *)
THEOREM WaitersAreWoken == Spec => []WaiterIsWoken
<1>1. Inv => WaiterIsWoken
  BY DEF Inv
<1> QED BY InvHolds, <1>1, PTL

(* What a step does to a child and its parent.                             *)
Kept(x) == TaskOf(x)'.parent = TaskOf(x).parent
             /\ \E p : p = TaskOf(x).parent /\ Present(p)'
LEMMA BuriedWithChildren ==
    ASSUME TypeOK, TreeInv, NEW id, NEW dead, NEW result, Buried(id, dead, result),
           NEW x \in Tasks, Present(x)', Present(TaskOf(x).parent)
    PROVE  Kept(x)
<1>1. x \notin Range(dead) /\ x \in TaskId
  BY TasksOfBuried DEF Tasks
<1>2. TaskOf(x).parent \in Tasks
  BY TaskFacts DEF Present, Tasks
<1>3. TaskOf(x).parent \notin Range(dead)
  BY <1>1, <1>2 DEF Buried, Subtree
<1>4. \E p : p = TaskOf(x).parent /\ Present(p)'
  BY <1>2, <1>3, TasksOfBuried DEF Tasks
<1>5. TaskOf(x)'.parent = TaskOf(x).parent
  BY <1>1, TaskOfBuried
<1> QED BY <1>4, <1>5 DEF Kept

(* Structured concurrency: once a task is in its parent's list, no step    *)
(* ends the parent and leaves the child.                                   *)
THEOREM ChildrenEndFirst == Spec => NoChildOutlivesParent
<1> DEFINE Stays == \A id \in Tasks : Present(id)' /\ Present(TaskOf(id).parent) =>
                                       Present(TaskOf(id).parent)'
<1>1. ASSUME Inv, [Next]_vars PROVE Stays
  <2> SUFFICES ASSUME NEW x \in Tasks, Present(x)', Present(TaskOf(x).parent)
               PROVE  Kept(x)
    BY DEF Kept, Present, Occupied, TaskOf
  <2>1. CASE UNCHANGED tables
    <3>1. \A id : (Present(id)' <=> Present(id)) /\ TaskOf(id)' = TaskOf(id)
      BY <2>1, SameTable
    <3> QED BY <3>1 DEF Kept
  <2>2. CASE ProcessSpawnQueue
    <3>1. TaskOf(x)'.parent = TaskOf(x).parent
      BY <1>1, <2>2, TaskAfter
    <3>2. TaskOf(x).parent \in TaskId
      BY <1>1, TaskFacts DEF Inv, Present
    <3>3. \A p \in TaskId : Present(p) => Present(p)'
      BY <1>1, <2>2, TasksAfter
    <3> QED BY <3>1, <3>2, <3>3 DEF Kept
  <2>3. ASSUME NEW h \in Handles, CancelTask(h) PROVE Kept(x)
    BY <1>1, <2>3, CancelBuries, BuriedWithChildren DEF Inv
  <2>4. CASE ReturnReady
    BY <1>1, <2>4, ReturnReadyBuries, BuriedWithChildren DEF Inv
  <2>5. \/ UNCHANGED tables \/ ProcessSpawnQueue \/ ReturnReady
        \/ \E h \in Handles : CancelTask(h)
    <3>1. UNCHANGED vars => UNCHANGED tables
      BY DEF vars, tables
    <3>2. Spawn \/ PollReadyTask \/ NothingReady \/ ReturnPending => UNCHANGED tables
      BY DEF Spawn, PollReadyTask, NothingReady, ReturnPending
    <3>3. \A h \in Handles : Await(h) \/ TryGet(h) => UNCHANGED tables
      BY DEF Await, TryGet
    <3>4. \A s \in Slots : Wake(s) => UNCHANGED tables
      BY DEF Wake
    <3> QED BY <1>1, <3>1, <3>2, <3>3, <3>4 DEF Next
  <2> QED BY <2>1, <2>2, <2>3, <2>4, <2>5
<1>2. Inv /\ [Next]_vars => [Stays]_vars
  BY <1>1
<1> HIDE DEF Stays
<1>3. Spec => [][Stays]_vars
  BY InvHolds, <1>2, PTL DEF Spec
<1> QED BY <1>3 DEF Stays, NoChildOutlivesParent
=============================================================================
