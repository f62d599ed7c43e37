--------------------------- MODULE AsyncVfsProofs ---------------------------
(***************************************************************************)
(* What holds of open files, for any tree, any number of handles, any      *)
(* block size and any limit of the cache: FilesInv is inductive, and from  *)
(* it follow that the tree stays a tree, that a handle sees its file, that *)
(* what is protected stays, and that a close saves the whole file.         *)
(*                                                                         *)
(* The first half is about the operators: a file cut into blocks and put   *)
(* together again, with the recursions of Populate, Reconstruct and        *)
(* Visited taken by the least number they could fail at; then the tree's   *)
(* operations (Keep); then one lemma for each step of a handle.            *)
(***************************************************************************)
EXTENDS AsyncVfs, FiniteSetTheorems, SequenceTheorems, NaturalsInduction,
        WellFoundedInduction, TLAPS

-----------------------------------------------------------------------------
(* Numbers.                                                                *)

LEMMA Division ==
    ASSUME NEW n \in Nat, NEW B \in Nat \ {0}
    PROVE  /\ n \div B \in Nat /\ (n % B) \in 0 .. B - 1
           /\ n = (n \div B) * B + (n % B)
  OBVIOUS

LEMMA DivisionIs ==
    ASSUME NEW n \in Nat, NEW B \in Nat \ {0}, NEW k \in Nat, k * B <= n, n < (k + 1) * B
    PROVE  n \div B = k
  OBVIOUS

LEMMA Multiples ==
    ASSUME NEW B \in Nat \ {0}, NEW i \in Nat, NEW j \in Nat
    PROVE  /\ i * B \in Nat /\ j * B \in Nat /\ (i + 1) * B \in Nat
           /\ (i + 1) * B = i * B + B
           /\ i < j => (i + 1) * B <= j * B
  OBVIOUS

(* A set of numbers that has a member has a least one.                     *)
LEMMA LeastNat ==
    ASSUME NEW T \in SUBSET Nat, T # {}
    PROVE  \E x \in T : \A y \in T : x <= y
<1>1. IsWellFoundedOn(OpToRel(<, Nat), Nat)
  BY NatLessThanWellFounded
<1>2. PICK x \in T : \A y \in T : ~(<<y, x>> \in OpToRel(<, Nat))
  BY <1>1, WFMin
<1>3. \A y \in T : ~(y < x)
  BY <1>2 DEF OpToRel
<1> QED BY <1>3

(* What holds of the first number and with each of the next holds of all.  *)
LEMMA Upward ==
    ASSUME NEW n \in Nat, NEW a \in Nat, NEW Good,
           a \in Good, \A i \in (a + 1) .. n : i - 1 \in Good => i \in Good
    PROVE  \A i \in a .. n : i \in Good
<1> DEFINE Bad == {i \in a .. n : i \notin Good}
<1> SUFFICES ASSUME Bad # {} PROVE FALSE
  OBVIOUS
<1>1. Bad \in SUBSET Nat
  OBVIOUS
<1>2. PICK i \in Bad : \A j \in Bad : i <= j
  <2> HIDE DEF Bad
  <2> QED BY <1>1, LeastNat
<1>3. i \in a .. n /\ i \notin Good /\ i # a
  BY <1>2
<1>4. i \in (a + 1) .. n /\ i - 1 \in a .. n /\ ~(i <= i - 1)
  BY <1>3
<1>5. i - 1 \notin Bad
  <2> HIDE DEF Bad
  <2> QED BY <1>2, <1>4
<1> QED BY <1>3, <1>4, <1>5

(* Block b is one of the file's when it begins before the file ends.       *)
LEMMA NumBlocksIs ==
    ASSUME NEW n \in Nat
    PROVE  /\ NumBlocks(n) \in Nat
           /\ \A b \in Nat : b < NumBlocks(n) <=> b * BlockSize < n
           /\ \A b \in Nat : b <= NumBlocks(n) => b * BlockSize < n + BlockSize
           /\ n <= NumBlocks(n) * BlockSize
<1> DEFINE B == BlockSize
           k == NumBlocks(n)
           r == (n + B - 1) % B
<1>0. B \in Nat \ {0}
  BY BlockSizeIsPositive
<1>1. k \in Nat /\ r \in 0 .. B - 1 /\ n + B - 1 = k * B + r
  <2>1. n + B - 1 \in Nat
    BY <1>0
  <2> QED BY <1>0, <2>1, Division DEF NumBlocks
<1> HIDE DEF k, r, B
<1>2. k * B \in Nat
  BY <1>0, <1>1
<1>3. n <= k * B /\ k * B < n + B
  BY <1>0, <1>1, <1>2
<1>4. ASSUME NEW b \in Nat PROVE (b < k <=> b * B < n) /\ (b <= k => b * B < n + B)
  <2>0. b * B \in Nat /\ (b + 1) * B = b * B + B
    BY <1>0
  <2>1. b < k => b * B < n
    <3>1. b < k => (b + 1) * B <= k * B
      BY <1>0, <1>1, Multiples
    <3> QED BY <1>0, <1>2, <1>3, <2>0, <3>1
  <2>2. ~(b < k) => k * B <= b * B
    <3>1. k < b => (k + 1) * B <= b * B /\ (k + 1) * B = k * B + B
      BY <1>0, <1>1, Multiples
    <3> QED BY <1>0, <1>1, <1>2, <2>0, <3>1
  <2>3. b <= k => b * B <= k * B
    <3>1. b < k => (b + 1) * B <= k * B
      BY <1>0, <1>1, Multiples
    <3> QED BY <1>0, <1>1, <1>2, <2>0, <3>1
  <2> QED BY <1>0, <1>2, <1>3, <2>0, <2>1, <2>2, <2>3
<1> QED BY <1>1, <1>3, <1>4 DEF k, B

-----------------------------------------------------------------------------
(* Bytes.                                                                  *)

LEMMA GrownIs ==
    ASSUME NEW s \in Seq(Nat), NEW n \in Nat
    PROVE  /\ Grown(s, n) \in Seq(Nat) /\ Len(Grown(s, n)) = Max2(Len(s), n)
           /\ \A i \in 1 .. Max2(Len(s), n) :
                Grown(s, n)[i] = IF i <= Len(s) THEN s[i] ELSE 0
  BY DEF Grown, Max2

LEMMA PatchedIs ==
    ASSUME NEW s \in Seq(Nat), NEW offset \in Nat, NEW t \in Seq(Nat), offset <= Len(s)
    PROVE  /\ Patched(s, offset, t) \in Seq(Nat)
           /\ Len(Patched(s, offset, t)) = Max2(Len(s), offset + Len(t))
           /\ \A i \in 1 .. Max2(Len(s), offset + Len(t)) :
                Patched(s, offset, t)[i] =
                  IF i > offset /\ i <= offset + Len(t) THEN t[i - offset] ELSE s[i]
  BY DEF Patched, Max2

LEMMA BlockIs ==
    ASSUME NEW s \in Seq(Nat), NEW b \in Nat
    PROVE  /\ BlockOf(s, b) \in Seq(Nat)
           /\ Len(BlockOf(s, b)) = IF b * BlockSize < Len(s)
                                   THEN Min2((b + 1) * BlockSize, Len(s)) - b * BlockSize ELSE 0
           /\ \A i \in 1 .. Len(BlockOf(s, b)) : BlockOf(s, b)[i] = s[b * BlockSize + i]
<1> DEFINE lo == b * BlockSize + 1
           hi == Min2((b + 1) * BlockSize, Len(s))
<1>0. b * BlockSize \in Nat /\ (b + 1) * BlockSize = b * BlockSize + BlockSize
      /\ BlockSize \in Nat \ {0} /\ Len(s) \in Nat
  BY BlockSizeIsPositive, Multiples
<1>1. /\ lo \in Int /\ hi \in Nat /\ \A i \in lo .. hi : s[i] \in Nat
  BY <1>0 DEF Min2
<1>2. BlockOf(s, b) = SubSeq(s, lo, hi)
  BY DEF BlockOf
<1> HIDE DEF lo, hi
<1>3. /\ SubSeq(s, lo, hi) \in Seq(Nat) /\ Len(SubSeq(s, lo, hi)) = IF lo <= hi THEN hi - lo + 1 ELSE 0
      /\ \A i \in 1 .. hi - lo + 1 : SubSeq(s, lo, hi)[i] = s[lo + i - 1]
  BY ONLY <1>1, SubSeqProperties
<1>4. lo = b * BlockSize + 1 /\ (lo <= hi <=> b * BlockSize < Len(s))
  BY <1>0 DEF lo, hi, Min2
<1>5. Len(BlockOf(s, b)) = IF b * BlockSize < Len(s)
                           THEN Min2((b + 1) * BlockSize, Len(s)) - b * BlockSize ELSE 0
  BY <1>0, <1>1, <1>2, <1>3, <1>4 DEF hi
<1>6. ASSUME NEW i \in 1 .. Len(BlockOf(s, b)) PROVE BlockOf(s, b)[i] = s[b * BlockSize + i]
  <2>1. i \in 1 .. hi - lo + 1
    BY <1>1, <1>2, <1>3, <1>6
  <2>2. lo + i - 1 = b * BlockSize + i
    BY <1>0, <1>4
  <2> QED BY <1>2, <1>3, <2>1, <2>2
<1> QED BY <1>2, <1>3, <1>5, <1>6

-----------------------------------------------------------------------------
(* Caches.                                                                 *)

LEMMA TouchIs ==
    ASSUME NEW c, IsCache(c), NEW b
    PROVE  IsCache(touch(c, b)) /\ touch(c, b).blocks = c.blocks
<1> DEFINE o == Append(RemoveFirst(c.lru, b), b)
<1>1. touch(c, b) = [c EXCEPT !.lru = o]
  BY DEF touch
<1> HIDE DEF o
<1>2. touch(c, b) = [blocks |-> c.blocks, lru |-> o]
  BY <1>1 DEF IsCache
<1> QED BY <1>2 DEF IsCache, Cached

LEMMA InsertIs ==
    ASSUME NEW c, IsCache(c), NEW b \in Nat, NEW data \in Seq(Nat)
    PROVE  /\ IsCache(insert(c, b, data))
           /\ ~Full(c, b) => /\ Cached(insert(c, b, data)) = Cached(c) \cup {b}
                             /\ \A n \in Cached(c) \cup {b} :
                                  get(insert(c, b, data), n) = IF n = b THEN data ELSE get(c, n)
<1> DEFINE e == IF Full(c, b) THEN evict_lru(c) ELSE c
           p == put(e, b, data)
<1>1. IsCache(e) /\ (~Full(c, b) => e = c)
  <2>1. IsCache(evict_lru(c))
    BY DEF IsCache, evict_lru, Cached
  <2> QED BY <2>1
<1>2. insert(c, b, data) = touch(p, b)
  BY DEF insert
<1> HIDE DEF e
<1> DEFINE blocks == [n \in Cached(e) \cup {b} |-> IF n = b THEN data ELSE e.blocks[n]]
<1>3. p = [blocks |-> blocks, lru |-> e.lru]
  <2>1. p = [e EXCEPT !.blocks = blocks]
    BY DEF put
  <2> HIDE DEF p, blocks
  <2> QED BY <1>1, <2>1 DEF IsCache
<1> HIDE DEF p
<1>4. IsCache(p) /\ Cached(p) = Cached(e) \cup {b}
      /\ \A n \in Cached(e) \cup {b} : p.blocks[n] = IF n = b THEN data ELSE e.blocks[n]
  BY <1>1, <1>3 DEF IsCache, Cached
<1>5. IsCache(touch(p, b)) /\ touch(p, b).blocks = p.blocks
  BY <1>4, TouchIs
<1> QED BY <1>1, <1>2, <1>4, <1>5 DEF Cached, get

-----------------------------------------------------------------------------
(* The functions that go through the blocks.                               *)

Filled(f, c, content, n) ==
  IF n = 0 THEN c ELSE insert(f[n - 1], n - 1, BlockOf(content, n - 1))
FilledBy(f, c, content, n) == f = [i \in 0 .. n |-> Filled(f, c, content, i)]
LEMMA FilledExists ==
    ASSUME NEW c, NEW content, NEW n \in Nat
    PROVE  \E f : FilledBy(f, c, content, n)
<1> DEFINE Has(m) == \E f : f = [i \in 0 .. m |-> Filled(f, c, content, i)]
           Good == {m \in 0 .. n : Has(m)}
<1>1. Has(0)
  <2> DEFINE g == [i \in 0 .. 0 |-> c]
  <2>1. g = [i \in 0 .. 0 |-> Filled(g, c, content, i)]
    BY DEF Filled
  <2> QED BY <2>1
<1>2. ASSUME NEW m \in 1 .. n, Has(m - 1) PROVE Has(m)
  <2>1. PICK f : f = [i \in 0 .. (m - 1) |-> Filled(f, c, content, i)]
    BY <1>2
  <2> DEFINE g == [i \in 0 .. m |-> IF i < m THEN f[i] ELSE Filled(f, c, content, i)]
  <2>2. ASSUME NEW i \in 0 .. m PROVE g[i] = Filled(g, c, content, i)
    <3>1. i # 0 => g[i - 1] = f[i - 1]
      OBVIOUS
    <3>2. i < m => f[i] = Filled(f, c, content, i)
      <4>1. i < m => i \in 0 .. (m - 1)
        OBVIOUS
      <4> QED BY <2>1, <4>1
    <3>3. g[i] = Filled(f, c, content, i)
      BY <3>2
    <3> HIDE DEF g
    <3> QED BY <3>1, <3>3 DEF Filled
  <2>3. g = [i \in 0 .. m |-> g[i]]
    OBVIOUS
  <2> HIDE DEF g
  <2>4. g = [i \in 0 .. m |-> Filled(g, c, content, i)]
    BY <2>2, <2>3
  <2> QED BY <2>4
<1>3. \A m \in 0 .. n : m \in Good
  <2> HIDE DEF Has
  <2>1. 0 \in Good
    BY <1>1
  <2>2. ASSUME NEW m \in (0 + 1) .. n, m - 1 \in Good PROVE m \in Good
    BY <1>2, <2>2
  <2> HIDE DEF Good
  <2> QED BY <2>1, <2>2, Upward
<1>4. Has(n)
  <2> HIDE DEF Has
  <2> QED BY <1>3
<1> QED BY <1>4 DEF FilledBy

Joined(f, c, n) ==
  IF n = 0 THEN <<>>
  ELSE IF n - 1 \in Cached(c) THEN f[n - 1] \o get(c, n - 1) ELSE f[n - 1]
LEMMA JoinedExists ==
    ASSUME NEW c, NEW n \in Nat
    PROVE  \E f : f = [i \in 0 .. n |-> Joined(f, c, i)]
<1> DEFINE Has(m) == \E f : f = [i \in 0 .. m |-> Joined(f, c, i)]
           Good == {m \in 0 .. n : Has(m)}
<1>1. Has(0)
  <2> DEFINE g == [i \in 0 .. 0 |-> <<>>]
  <2>1. g = [i \in 0 .. 0 |-> Joined(g, c, i)]
    BY DEF Joined
  <2> QED BY <2>1
<1>2. ASSUME NEW m \in 1 .. n, Has(m - 1) PROVE Has(m)
  <2>1. PICK f : f = [i \in 0 .. (m - 1) |-> Joined(f, c, i)]
    BY <1>2
  <2> DEFINE g == [i \in 0 .. m |-> IF i < m THEN f[i] ELSE Joined(f, c, i)]
  <2>2. ASSUME NEW i \in 0 .. m PROVE g[i] = Joined(g, c, i)
    <3>1. i # 0 => g[i - 1] = f[i - 1]
      OBVIOUS
    <3>2. i < m => f[i] = Joined(f, c, i)
      <4>1. i < m => i \in 0 .. (m - 1)
        OBVIOUS
      <4> QED BY <2>1, <4>1
    <3>3. g[i] = Joined(f, c, i)
      BY <3>2
    <3> HIDE DEF g
    <3> QED BY <3>1, <3>3 DEF Joined
  <2>3. g = [i \in 0 .. m |-> g[i]]
    OBVIOUS
  <2> HIDE DEF g
  <2>4. g = [i \in 0 .. m |-> Joined(g, c, i)]
    BY <2>2, <2>3
  <2> QED BY <2>4
<1>3. \A m \in 0 .. n : m \in Good
  <2> HIDE DEF Has
  <2>1. 0 \in Good
    BY <1>1
  <2>2. ASSUME NEW m \in (0 + 1) .. n, m - 1 \in Good PROVE m \in Good
    BY <1>2, <2>2
  <2> HIDE DEF Good
  <2> QED BY <2>1, <2>2, Upward
<1>4. Has(n)
  <2> HIDE DEF Has
  <2> QED BY <1>3
<1> QED BY <1>4

Touched(f, c, n) ==
  IF n = 0 THEN c
  ELSE IF n - 1 \in Cached(c) THEN touch(f[n - 1], n - 1) ELSE f[n - 1]
LEMMA TouchedExists ==
    ASSUME NEW c, NEW n \in Nat
    PROVE  \E f : f = [i \in 0 .. n |-> Touched(f, c, i)]
<1> DEFINE Has(m) == \E f : f = [i \in 0 .. m |-> Touched(f, c, i)]
           Good == {m \in 0 .. n : Has(m)}
<1>1. Has(0)
  <2> DEFINE g == [i \in 0 .. 0 |-> c]
  <2>1. g = [i \in 0 .. 0 |-> Touched(g, c, i)]
    BY DEF Touched
  <2> QED BY <2>1
<1>2. ASSUME NEW m \in 1 .. n, Has(m - 1) PROVE Has(m)
  <2>1. PICK f : f = [i \in 0 .. (m - 1) |-> Touched(f, c, i)]
    BY <1>2
  <2> DEFINE g == [i \in 0 .. m |-> IF i < m THEN f[i] ELSE Touched(f, c, i)]
  <2>2. ASSUME NEW i \in 0 .. m PROVE g[i] = Touched(g, c, i)
    <3>1. i # 0 => g[i - 1] = f[i - 1]
      OBVIOUS
    <3>2. i < m => f[i] = Touched(f, c, i)
      <4>1. i < m => i \in 0 .. (m - 1)
        OBVIOUS
      <4> QED BY <2>1, <4>1
    <3>3. g[i] = Touched(f, c, i)
      BY <3>2
    <3> HIDE DEF g
    <3> QED BY <3>1, <3>3 DEF Touched
  <2>3. g = [i \in 0 .. m |-> g[i]]
    OBVIOUS
  <2> HIDE DEF g
  <2>4. g = [i \in 0 .. m |-> Touched(g, c, i)]
    BY <2>2, <2>3
  <2> QED BY <2>4
<1>3. \A m \in 0 .. n : m \in Good
  <2> HIDE DEF Has
  <2>1. 0 \in Good
    BY <1>1
  <2>2. ASSUME NEW m \in (0 + 1) .. n, m - 1 \in Good PROVE m \in Good
    BY <1>2, <2>2
  <2> HIDE DEF Good
  <2> QED BY <2>1, <2>2, Upward
<1>4. Has(n)
  <2> HIDE DEF Has
  <2> QED BY <1>3
<1> QED BY <1>4

LEMMA PopulateIs ==
    ASSUME NEW c, IsCache(c), NEW content \in Seq(Nat)
    PROVE  /\ IsCache(Populate(c, content))
           /\ (c = EmptyCache /\ (MaxBlocks = 0 \/ NumBlocks(Len(content)) <= MaxBlocks))
                => Holds(Populate(c, content), content)
<1> DEFINE K == NumBlocks(Len(content))
           F == CHOOSE f : f = [i \in 0 .. K |-> Filled(f, c, content, i)]
<1>1. K \in Nat
  BY NumBlocksIs
<1>2. Populate(c, content) = F[K]
  BY DEF Populate, Filled
<1>3. F = [i \in 0 .. K |-> Filled(F, c, content, i)]
  <2> HIDE DEF K
  <2>1. \E f : FilledBy(f, c, content, K)
    BY <1>1, FilledExists
  <2> QED BY <2>1 DEF FilledBy
<1> HIDE DEF F, K
<1>4. F[0] = c /\ \A i \in 1 .. K : F[i] = insert(F[i - 1], i - 1, BlockOf(content, i - 1))
  BY <1>1, <1>3 DEF Filled
<1>5. \A i \in 0 .. K : IsCache(F[i])
  <2> DEFINE Good == {i \in 0 .. K : IsCache(F[i])}
  <2>1. 0 \in Good
    BY <1>1, <1>4
  <2>2. ASSUME NEW i \in (0 + 1) .. K, i - 1 \in Good PROVE i \in Good
    <3>1. i - 1 \in Nat /\ BlockOf(content, i - 1) \in Seq(Nat)
      BY <1>1, BlockIs
    <3> QED BY <1>1, <1>4, <2>2, <3>1, InsertIs
  <2>3. \A i \in 0 .. K : i \in Good
    <3> HIDE DEF Good
    <3> QED BY <1>1, <2>1, <2>2, Upward
  <2> QED BY <2>3
<1>6. ASSUME c = EmptyCache, MaxBlocks = 0 \/ K <= MaxBlocks
      PROVE  /\ Cached(F[K]) = 0 .. K - 1
             /\ \A b \in 0 .. K - 1 : get(F[K], b) = BlockOf(content, b)
  <2> DEFINE Has(i) == /\ Cached(F[i]) = 0 .. i - 1
                       /\ \A b \in 0 .. i - 1 : get(F[i], b) = BlockOf(content, b)
             Good == {i \in 0 .. K : Has(i)}
  <2>1. Has(0)
    BY <1>4, <1>6 DEF EmptyCache, Cached
  <2>2. ASSUME NEW i \in 1 .. K, Has(i - 1) PROVE Has(i)
    <3> DEFINE d == F[i - 1]
               data == BlockOf(content, i - 1)
    <3>0. i \in Nat /\ i - 1 \in Nat /\ i - 1 \in 0 .. K /\ i <= K
      BY <1>1
    <3>1. IsCache(d) /\ data \in Seq(Nat) /\ F[i] = insert(d, i - 1, data)
      BY <1>4, <1>5, <3>0, BlockIs
    <3>2. Cached(d) = 0 .. i - 2 /\ \A b \in 0 .. i - 2 : get(d, b) = BlockOf(content, b)
      BY <2>2, <3>0
    <3>3. ~Full(d, i - 1)
      <4>1. Cardinality(0 .. i - 2) = i - 1
        BY <3>0, FS_Interval
      <4> QED BY <1>1, <1>6, <3>0, <3>2, <4>1, CacheLimit DEF Full
    <3> HIDE DEF d
    <3>4. /\ Cached(F[i]) = (0 .. i - 2) \cup {i - 1}
          /\ \A n \in (0 .. i - 2) \cup {i - 1} :
               get(F[i], n) = IF n = i - 1 THEN data ELSE get(d, n)
      <4> HIDE DEF data
      <4>1. /\ Cached(F[i]) = Cached(d) \cup {i - 1}
            /\ \A n \in Cached(d) \cup {i - 1} :
                 get(F[i], n) = IF n = i - 1 THEN data ELSE get(d, n)
        BY <3>0, <3>1, <3>3, InsertIs
      <4> QED BY <3>2, <4>1
    <3>5. (0 .. i - 2) \cup {i - 1} = 0 .. i - 1
      BY <3>0
    <3> QED BY <3>2, <3>4, <3>5
  <2>3. \A i \in 0 .. K : i \in Good
    <3> HIDE DEF Has
    <3>1. 0 \in Good
      BY <1>1, <2>1
    <3>2. ASSUME NEW i \in (0 + 1) .. K, i - 1 \in Good PROVE i \in Good
      BY <2>2, <3>2
    <3> HIDE DEF Good
    <3> QED BY <1>1, <3>1, <3>2, Upward
  <2> QED BY <1>1, <2>3
<1> QED BY <1>1, <1>2, <1>5, <1>6 DEF Holds, K

LEMMA VisitedIs ==
    ASSUME NEW c, IsCache(c), NEW size \in Nat
    PROVE  IsCache(Visited(c, size))
<1> DEFINE K == NumBlocks(size)
           F == CHOOSE f : f = [i \in 0 .. K |-> Touched(f, c, i)]
<1>1. K \in Nat
  BY NumBlocksIs
<1>2. Visited(c, size) = F[K]
  BY DEF Visited, Touched
<1>3. F = [i \in 0 .. K |-> Touched(F, c, i)]
  BY <1>1, TouchedExists
<1> HIDE DEF F, K
<1> DEFINE Good == {i \in 0 .. K : IsCache(F[i])}
<1>4. 0 \in Good
  BY <1>1, <1>3 DEF Touched
<1>5. ASSUME NEW i \in (0 + 1) .. K, i - 1 \in Good PROVE i \in Good
  <2>1. F[i] = touch(F[i - 1], i - 1) \/ F[i] = F[i - 1]
    BY <1>1, <1>3 DEF Touched
  <2> QED BY <1>5, <2>1, TouchIs
<1>6. \A i \in 0 .. K : i \in Good
  <2> HIDE DEF Good
  <2> QED BY <1>1, <1>4, <1>5, Upward
<1> QED BY <1>1, <1>2, <1>6

LEMMA ReconstructIs ==
    ASSUME NEW c, IsCache(c), NEW size \in Nat
    PROVE  /\ Reconstruct(c, size) \in Seq(Nat)
           /\ \A file \in Seq(Nat) :
                size = Len(file) /\ Holds(c, file) => Reconstruct(c, size) = file
<1> DEFINE K == NumBlocks(size)
           F == CHOOSE f : f = [i \in 0 .. K |-> Joined(f, c, i)]
           all == F[K]
<1>1. K \in Nat
  BY NumBlocksIs
<1>2. Reconstruct(c, size) = SubSeq(all, 1, Min2(size, Len(all)))
  BY DEF Reconstruct, Joined
<1>3. F = [i \in 0 .. K |-> Joined(F, c, i)]
  BY <1>1, JoinedExists
<1> HIDE DEF F
<1>4. /\ F[0] = <<>>
      /\ \A i \in 1 .. K : F[i] = IF i - 1 \in Cached(c) THEN F[i - 1] \o get(c, i - 1) ELSE F[i - 1]
  <2> HIDE DEF K
  <2>1. \A i \in 0 .. K : F[i] = Joined(F, c, i)
    BY <1>3
  <2>2. F[0] = <<>>
    BY <1>1, <2>1 DEF Joined
  <2>3. ASSUME NEW i \in 1 .. K
        PROVE  F[i] = IF i - 1 \in Cached(c) THEN F[i - 1] \o get(c, i - 1) ELSE F[i - 1]
    <3>1. i \in 0 .. K /\ i # 0
      BY <1>1
    <3>2. F[i] = Joined(F, c, i)
      BY <2>1, <3>1
    <3> QED BY <3>1, <3>2 DEF Joined
  <2> QED BY <2>2, <2>3
<1>5. \A i \in 0 .. K : F[i] \in Seq(Nat)
  <2> HIDE DEF K
  <2> DEFINE Good == {i \in 0 .. K : F[i] \in Seq(Nat)}
  <2>1. 0 \in Good
    <3>1. <<>> \in Seq(Nat) /\ 0 \in 0 .. K
      BY <1>1
    <3> QED BY <1>4, <3>1
  <2>2. ASSUME NEW i \in (0 + 1) .. K, i - 1 \in Good PROVE i \in Good
    <3>1. i - 1 \in Cached(c) => get(c, i - 1) \in Seq(Nat)
      BY DEF IsCache, get
    <3>2. i \in 1 .. K /\ i \in 0 .. K /\ F[i - 1] \in Seq(Nat)
      BY <1>1, <2>2
    <3>3. F[i] = IF i - 1 \in Cached(c) THEN F[i - 1] \o get(c, i - 1) ELSE F[i - 1]
      BY <1>4, <3>2
    <3>4. CASE i - 1 \in Cached(c)
      <4> DEFINE t == F[i - 1]
                 u == get(c, i - 1)
      <4>1. F[i] = t \o u /\ t \in Seq(Nat) /\ u \in Seq(Nat)
        BY <3>1, <3>2, <3>3, <3>4
      <4> HIDE DEF t, u
      <4>2. t \o u \in Seq(Nat)
        BY <4>1
      <4> QED BY <3>2, <4>1, <4>2
    <3>5. CASE i - 1 \notin Cached(c)
      BY <3>2, <3>3, <3>5
    <3> QED BY <3>4, <3>5
  <2>3. \A i \in 0 .. K : i \in Good
    <3> HIDE DEF Good
    <3> QED BY <1>1, <2>1, <2>2, Upward
  <2> QED BY <2>3
<1>6. all \in Seq(Nat) /\ Len(all) \in Nat
  <2> HIDE DEF K
  <2> QED BY <1>1, <1>5
<1>7. Reconstruct(c, size) \in Seq(Nat)
  <2> HIDE DEF all
  <2> QED BY <1>2, <1>6, SubSeqProperties DEF Min2
<1>8. ASSUME NEW file \in Seq(Nat), size = Len(file), Holds(c, file)
      PROVE  Reconstruct(c, size) = file
  <2> DEFINE Has(i) == /\ Len(F[i]) = Min2(i * BlockSize, size)
                       /\ \A k \in 1 .. Min2(i * BlockSize, size) : F[i][k] = file[k]
             Good == {i \in 0 .. K : Has(i)}
  <2>1. Has(0)
    BY <1>4, <1>1, BlockSizeIsPositive DEF Min2
  <2>2. ASSUME NEW i \in 1 .. K, Has(i - 1) PROVE Has(i)
    <3> DEFINE B == BlockSize
               lo == (i - 1) * B
               t == F[i - 1]
               u == BlockOf(file, i - 1)
    <3>0. i - 1 \in Nat /\ i - 1 < K /\ i - 1 \in 0 .. K /\ i \in Nat /\ B \in Nat \ {0}
      BY <1>1, BlockSizeIsPositive
    <3>1. lo \in Nat /\ lo < size /\ i * B = lo + B /\ (i - 1) + 1 = i
      <4>1. lo < size
        BY <3>0, NumBlocksIs
      <4>2. (i - 1) + 1 = i
        BY <3>0
      <4>3. lo \in Nat /\ ((i - 1) + 1) * B = lo + B
        BY <3>0, Multiples
      <4> QED BY <4>1, <4>2, <4>3
    <3>2. F[i] = t \o u /\ t \in Seq(Nat)
      <4>1. i - 1 \in Cached(c) /\ get(c, i - 1) = u
        BY <1>1, <1>8, <3>0 DEF Holds
      <4> QED BY <1>4, <1>5, <3>0, <4>1
    <3>3. /\ u \in Seq(Nat) /\ Len(u) = Min2(lo + B, size) - lo
          /\ \A k \in 1 .. Len(u) : u[k] = file[lo + k]
      BY <1>8, <3>0, <3>1, BlockIs
    <3>4. Len(t) = lo /\ \A k \in 1 .. lo : t[k] = file[k]
      BY <2>2, <3>0, <3>1 DEF Min2
    <3> HIDE DEF t, u, lo, B
    <3>5. Len(t \o u) = Min2(lo + B, size)
      <4>0. t \in Seq(Nat) /\ u \in Seq(Nat)
        BY <3>2, <3>3
      <4>1. Len(t \o u) = Len(t) + Len(u)
        BY ONLY <4>0
      <4>2. Min2(lo + B, size) \in Int
        BY <3>0, <3>1 DEF Min2
      <4> QED BY <3>1, <3>3, <3>4, <4>1, <4>2
    <3>6. ASSUME NEW k \in 1 .. Min2(lo + B, size) PROVE (t \o u)[k] = file[k]
      <4>0. k \in Nat /\ k \in 1 .. Len(t \o u)
        BY <3>0, <3>1, <3>5 DEF Min2
      <4>1. (t \o u)[k] = IF k <= Len(t) THEN t[k] ELSE u[k - Len(t)]
        BY <3>2, <3>3, <4>0
      <4>2. CASE k <= lo
        BY <3>4, <4>0, <4>1, <4>2
      <4>3. CASE ~(k <= lo)
        <5>1. k - lo \in 1 .. Len(u) /\ lo + (k - lo) = k
          BY <3>0, <3>1, <3>3, <4>3 DEF Min2
        <5> QED BY <3>3, <3>4, <4>1, <4>3, <5>1
      <4> QED BY <4>2, <4>3
    <3>7. i * BlockSize = lo + B
      BY <3>1 DEF B
    <3> QED BY <3>2, <3>5, <3>6, <3>7
  <2>3. \A i \in 0 .. K : i \in Good
    <3> HIDE DEF Has, K
    <3>1. 0 \in Good
      BY <1>1, <2>1
    <3>2. ASSUME NEW i \in (0 + 1) .. K, i - 1 \in Good PROVE i \in Good
      BY <2>2, <3>2
    <3> HIDE DEF Good
    <3> QED BY <1>1, <3>1, <3>2, Upward
  <2>4. Has(K) /\ size <= K * BlockSize
    <3> HIDE DEF Has
    <3>1. size <= K * BlockSize
      BY NumBlocksIs
    <3> HIDE DEF K
    <3> QED BY <1>1, <2>3, <3>1
  <2>5. K * BlockSize \in Nat
    BY <1>1, BlockSizeIsPositive, Multiples
  <2>6. Len(all) = Len(file) /\ \A k \in 1 .. Len(file) : all[k] = file[k]
    <3> HIDE DEF K
    <3> QED BY <1>8, <2>4, <2>5 DEF Min2
  <2> HIDE DEF all, Has
  <2>7. all = file
    BY <1>6, <1>8, <2>6
  <2>8. SubSeq(file, 1, Len(file)) = file
    BY <1>8, SubSeqFull
  <2> QED BY <1>2, <1>8, <2>7, <2>8 DEF Min2
<1> QED BY <1>7, <1>8

-----------------------------------------------------------------------------
(* A write.                                                                *)

(* The block written back is that of the file with the bytes in it, and no *)
(* other block of the file changes.                                        *)
Writes(file, c, pos, bytes, pad, b, offset, block, new) ==
  /\ file \in Seq(Nat) /\ Holds(c, file) /\ pos \in Nat /\ bytes \in Seq(Nat) /\ pad \in BOOLEAN
  /\ Len(bytes) > 0 /\ (pos % BlockSize) + Len(bytes) <= BlockSize
  /\ SafeHole(pos, Len(file))
  /\ ~(pad /\ pos \div BlockSize \notin Cached(c) /\ Len(bytes) < BlockSize)
  /\ b = pos \div BlockSize /\ offset = pos % BlockSize
  /\ block = Merged(c, b, offset, bytes, pad)
  /\ new = Patched(Grown(file, pos + Len(bytes)), pos, bytes)

LEMMA WriteIs ==
    ASSUME NEW file, NEW c, NEW pos, NEW bytes, NEW pad, NEW b, NEW offset, NEW block, NEW new,
           Writes(file, c, pos, bytes, pad, b, offset, block, new)
    PROVE  /\ b \in Nat /\ b * BlockSize \in Nat /\ b * BlockSize <= pos
           /\ new \in Seq(Nat) /\ Len(new) = Max2(Len(file), pos + Len(bytes))
           /\ block = BlockOf(new, b)
           /\ Max2(Len(file), b * BlockSize + Len(block)) = Len(new)
           /\ \A k \in Nat : k # b /\ k < NumBlocks(Len(file)) => BlockOf(new, k) = BlockOf(file, k)
           /\ 0 .. NumBlocks(Len(new)) - 1 = (0 .. NumBlocks(Len(file)) - 1) \cup {b}
<1>0. /\ file \in Seq(Nat) /\ Holds(c, file) /\ pos \in Nat /\ bytes \in Seq(Nat) /\ pad \in BOOLEAN
      /\ Len(bytes) > 0 /\ (pos % BlockSize) + Len(bytes) <= BlockSize
      /\ SafeHole(pos, Len(file))
      /\ ~(pad /\ pos \div BlockSize \notin Cached(c) /\ Len(bytes) < BlockSize)
      /\ b = pos \div BlockSize /\ offset = pos % BlockSize
      /\ block = Merged(c, b, offset, bytes, pad)
      /\ new = Patched(Grown(file, pos + Len(bytes)), pos, bytes)
  BY DEF Writes
<1> USE <1>0
<1> DEFINE B == BlockSize
           n == Len(file)
           L == Len(bytes)
           lo == b * B
           e == pos + L
           grown == Grown(file, e)
<1>1. B \in Nat \ {0} /\ n \in Nat /\ L \in Nat /\ L > 0
  BY BlockSizeIsPositive
<1>2. b \in Nat /\ offset \in Nat /\ offset < B /\ pos = lo + offset /\ offset + L <= B
  <2> HIDE DEF lo
  <2>1. /\ pos \div B \in Nat /\ (pos % B) \in 0 .. B - 1
        /\ pos = (pos \div B) * B + (pos % B)
    BY ONLY <1>1, pos \in Nat, Division
  <2> QED BY <1>1, <2>1 DEF lo
<1>3. lo \in Nat /\ (b + 1) * B = lo + B
  BY <1>1, <1>2, Multiples
<1>4. lo <= n
  <2> DEFINE q == n \div B
  <2>1. q \in Nat /\ n = q * B + (n % B) /\ (n % B) \in 0 .. B - 1
    BY ONLY <1>1, pos \in Nat, Division
  <2>2. b <= q
    BY DEF SafeHole
  <2> HIDE DEF q
  <2>3. q * B \in Nat /\ q * B <= n
    BY <1>1, <2>1, Multiples
  <2>4. b < q => (b + 1) * B <= q * B
    BY <1>1, <1>2, <2>1, Multiples
  <2>5. b = q => lo = q * B
    OBVIOUS
  <2> QED BY <1>1, <1>2, <1>3, <2>1, <2>2, <2>3, <2>4, <2>5
<1> HIDE DEF B, n, L, lo
<1>5. e \in Nat /\ e = lo + offset + L /\ e <= lo + B /\ lo < e /\ lo <= pos /\ e = pos + L
      /\ pos \in Nat
  <2>1. e = pos + L /\ pos \in Nat
    OBVIOUS
  <2> HIDE DEF e
  <2> QED BY ONLY <1>1, <1>2, <1>3, <2>1
<1>6. /\ grown \in Seq(Nat) /\ Len(grown) = Max2(n, e)
      /\ \A i \in 1 .. Max2(n, e) : grown[i] = IF i <= n THEN file[i] ELSE 0
  BY <1>5, GrownIs DEF n
<1>7. new = Patched(grown, pos, bytes)
  BY DEF L
<1> HIDE DEF grown, e
<1>8. pos \in Nat /\ pos <= Max2(n, e) /\ Max2(Max2(n, e), pos + L) = Max2(n, e) /\ e = pos + L
      /\ Max2(n, e) \in Nat /\ n <= Max2(n, e) /\ e <= Max2(n, e)
      /\ Max2(n, e) = (IF e > n THEN e ELSE n)
  <2> DEFINE M == Max2(n, e)
  <2>1. M = (IF e > n THEN e ELSE n)
    BY ONLY <1>1, <1>5 DEF Max2
  <2> HIDE DEF M
  <2>2. M \in Nat /\ n <= M /\ e <= M
    BY ONLY <1>1, <1>5, <2>1
  <2>3. Max2(M, e) = M
    BY ONLY <1>5, <2>2 DEF Max2
  <2>4. pos <= M
    BY ONLY <1>1, <1>5, <2>2
  <2> QED BY <1>5, <2>1, <2>2, <2>3, <2>4 DEF M
<1>9. /\ new \in Seq(Nat) /\ Len(new) = Max2(n, e)
      /\ \A i \in 1 .. Max2(n, e) :
           new[i] = IF i > pos /\ i <= e THEN bytes[i - pos]
                    ELSE IF i <= n THEN file[i] ELSE 0
  <2>1. /\ new \in Seq(Nat) /\ Len(new) = Max2(Len(grown), pos + Len(bytes))
        /\ \A i \in 1 .. Max2(Len(grown), pos + Len(bytes)) :
             new[i] = IF i > pos /\ i <= pos + Len(bytes) THEN bytes[i - pos] ELSE grown[i]
    <3>1. bytes \in Seq(Nat) /\ grown \in Seq(Nat) /\ pos \in Nat /\ pos <= Len(grown)
      BY <1>6, <1>8
    <3> QED BY ONLY <1>7, <3>1, PatchedIs
  <2>2. Max2(Len(grown), pos + Len(bytes)) = Max2(n, e)
    BY <1>6, <1>8 DEF L
  <2> QED BY <1>6, <1>8, <2>1, <2>2 DEF L
<1> DEFINE m == Min2(lo + B, Max2(n, e)) - lo
<1>10. m \in Nat /\ lo + m <= Max2(n, e) /\ offset + L <= m /\ m <= B /\ m > 0
  BY ONLY <1>1, <1>2, <1>3, <1>4, <1>5, <1>8 DEF Min2
<1>11. /\ BlockOf(new, b) \in Seq(Nat) /\ Len(BlockOf(new, b)) = m
       /\ \A i \in 1 .. m : BlockOf(new, b)[i] = new[lo + i]
  <2>1. /\ BlockOf(new, b) \in Seq(Nat)
        /\ Len(BlockOf(new, b)) = IF lo < Len(new) THEN Min2((b + 1) * B, Len(new)) - lo ELSE 0
        /\ \A i \in 1 .. Len(BlockOf(new, b)) : BlockOf(new, b)[i] = new[lo + i]
    BY <1>2, <1>9, BlockIs DEF lo, B
  <2>2. lo < Len(new) /\ Min2((b + 1) * B, Len(new)) - lo = m
    <3>1. lo < Len(new)
      BY ONLY <1>1, <1>3, <1>5, <1>8, <1>9
    <3>2. Min2((b + 1) * B, Len(new)) = Min2(lo + B, Max2(n, e))
      BY ONLY <1>3, <1>9
    <3> QED BY ONLY <3>1, <3>2 DEF m
  <2> QED BY <2>1, <2>2
<1> HIDE DEF m
<1>12. /\ block \in Seq(Nat) /\ Len(block) = m
       /\ \A i \in 1 .. m : block[i] = IF i > offset /\ i <= offset + L THEN bytes[i - offset]
                                       ELSE IF lo + i <= n THEN file[lo + i] ELSE 0
  <2>1. CASE offset = 0 /\ L = B
    <3>1. block = bytes /\ bytes \in Seq(Nat) /\ Len(bytes) = L
      BY <2>1 DEF Merged, L, B
    <3>2. m = L
      BY ONLY <1>1, <1>10, <2>1
    <3>3. ASSUME NEW i \in 1 .. m PROVE i > offset /\ i <= offset + L /\ i - offset = i
      BY ONLY <1>1, <1>10, <2>1, <3>2
    <3> HIDE DEF m
    <3> QED BY ONLY <3>1, <3>2, <3>3
  <2>2. CASE ~(offset = 0 /\ L = B)
    <3> DEFINE existing == IF b \in Cached(c) THEN get(c, b)
                           ELSE Grown(<<>>, IF pad THEN BlockSize ELSE offset + Len(bytes))
               over == Grown(existing, offset + L)
    <3>1. block = Patched(over, offset, bytes)
      BY <2>2 DEF Merged, L, B
    <3>2. /\ existing \in Seq(Nat) /\ Max2(Len(existing), offset + L) = m
          /\ \A i \in 1 .. m : (IF i <= Len(existing) THEN existing[i] ELSE 0)
                               = (IF lo + i <= n THEN file[lo + i] ELSE 0)
      <4>1. CASE b \in Cached(c)
        <5>1. existing = BlockOf(file, b)
          BY <4>1 DEF Holds
        <5>2. lo < n
          <6>1. b < NumBlocks(n)
            BY <1>1, <4>1, NumBlocksIs DEF Holds, n
          <6> QED BY <1>1, <1>2, <6>1, NumBlocksIs DEF lo, B
        <5>3. /\ existing \in Seq(Nat) /\ Len(existing) = Min2(lo + B, n) - lo
              /\ \A i \in 1 .. Len(existing) : existing[i] = file[lo + i]
          <6>1. /\ BlockOf(file, b) \in Seq(Nat)
                /\ Len(BlockOf(file, b)) = IF lo < n THEN Min2((b + 1) * B, n) - lo ELSE 0
                /\ \A i \in 1 .. Len(BlockOf(file, b)) : BlockOf(file, b)[i] = file[lo + i]
            BY <1>2, BlockIs DEF lo, B, n
          <6> QED BY ONLY <1>3, <5>1, <5>2, <6>1
        <5> HIDE DEF existing
        <5>4. Max2(Len(existing), offset + L) = m
          <6> DEFINE M == Max2(n, e)
          <6>1. M \in Nat /\ e = pos + L /\ M = (IF e > n THEN e ELSE n)
            BY ONLY <1>8
          <6> HIDE DEF M
          <6>2. m = (IF lo + B < M THEN lo + B ELSE M) - lo
            BY DEF m, Min2, M
          <6> HIDE DEF m
          <6>3. Len(existing) = (IF lo + B < n THEN lo + B ELSE n) - lo
            BY ONLY <5>3 DEF Min2
          <6>4. CASE e <= n
            <7>1. M = n
              BY ONLY <1>1, <1>5, <6>1, <6>4
            <7>2. Len(existing) = m
              BY ONLY <6>2, <6>3, <7>1
            <7>3. offset + L \in Nat /\ m \in Nat /\ offset + L <= m
              BY ONLY <1>1, <1>2, <1>5, <1>10
            <7> QED BY ONLY <7>2, <7>3 DEF Max2
          <6>5. CASE e > n
            <7>1. M = e
              BY ONLY <6>1, <6>5
            <7>2. offset + L \in Nat /\ e = lo + (offset + L) /\ offset + L <= B /\ lo \in Nat /\ B \in Nat
              BY ONLY <1>1, <1>2, <1>3, <1>5, <6>1
            <7>3. m = offset + L
              BY ONLY <6>2, <7>1, <7>2
            <7>4. Len(existing) \in Nat /\ Len(existing) < offset + L
              BY ONLY <1>1, <1>5, <5>2, <6>3, <6>5, <7>2
            <7> QED BY ONLY <7>2, <7>3, <7>4 DEF Max2
          <6> QED BY ONLY <1>1, <1>5, <6>4, <6>5
        <5>5. ASSUME NEW i \in 1 .. m PROVE i <= Len(existing) <=> lo + i <= n
          <6>1. i \in Nat /\ i <= m /\ i > 0
            BY ONLY <1>10, <5>5
          <6>2. i <= B
            BY ONLY <1>1, <1>10, <6>1
          <6> QED BY ONLY <1>1, <1>3, <5>2, <5>3, <6>1, <6>2 DEF Min2
        <5>6. ASSUME NEW i \in 1 .. m, i <= Len(existing) PROVE existing[i] = file[lo + i]
          <6>1. i \in 1 .. Len(existing)
            BY ONLY <1>10, <5>3, <5>6
          <6> QED BY <5>3, <6>1
        <5> HIDE DEF m
        <5> QED BY ONLY <5>3, <5>4, <5>5, <5>6
      <4>2. CASE b \notin Cached(c)
        <5>1. existing = Grown(<<>>, offset + L)
          <6>1. ~pad
            BY <1>1, <1>2, <2>2, <4>2 DEF B, L
          <6> QED BY <4>2, <6>1 DEF L
        <5>2. lo = n
          <6>1. ~(b < NumBlocks(n)) /\ NumBlocks(n) \in Nat
            <7>1. b \notin 0 .. NumBlocks(n) - 1
              BY <4>2 DEF Holds, n
            <7>2. NumBlocks(n) \in Nat
              BY <1>1, NumBlocksIs
            <7> QED BY ONLY <1>2, <7>1, <7>2
          <6>2. ~(lo < n)
            BY <1>1, <1>2, <6>1, NumBlocksIs DEF lo, B
          <6> QED BY ONLY <1>1, <1>3, <1>4, <6>2
        <5>3. offset + L \in Nat
          BY ONLY <1>1, <1>2
        <5>4. /\ existing \in Seq(Nat) /\ Len(existing) = Max2(0, offset + L)
              /\ \A i \in 1 .. Max2(0, offset + L) : existing[i] = IF i <= 0 THEN <<>>[i] ELSE 0
          <6> DEFINE none == <<>>
          <6>1. none \in Seq(Nat) /\ Len(none) = 0
            OBVIOUS
          <6>2. existing = Grown(none, offset + L)
            BY <5>1
          <6> HIDE DEF none, existing
          <6>3. /\ existing \in Seq(Nat) /\ Len(existing) = Max2(Len(none), offset + L)
                /\ \A i \in 1 .. Max2(Len(none), offset + L) :
                     existing[i] = IF i <= Len(none) THEN none[i] ELSE 0
            BY ONLY <5>3, <6>1, <6>2, GrownIs
          <6> QED BY <6>1, <6>3 DEF none
        <5>5. Max2(0, offset + L) = offset + L
          BY ONLY <5>3 DEF Max2
        <5> HIDE DEF existing
        <5>6. Max2(Len(existing), offset + L) = m
          BY ONLY <1>1, <1>2, <1>3, <1>5, <1>8, <5>2, <5>3, <5>4, <5>5 DEF m, Min2, Max2
        <5>7. m = offset + L
          BY ONLY <5>3, <5>4, <5>5, <5>6 DEF Max2
        <5> HIDE DEF m
        <5>8. ASSUME NEW i \in 1 .. m
              PROVE  i <= Len(existing) /\ existing[i] = 0 /\ ~(lo + i <= n)
          <6>1. i \in Nat /\ i > 0 /\ i <= m /\ i \in 1 .. Max2(0, offset + L)
            BY ONLY <5>3, <5>5, <5>7, <5>8
          <6>2. i <= Len(existing) /\ ~(lo + i <= n)
            BY ONLY <1>1, <5>2, <5>3, <5>4, <5>5, <5>7, <6>1
          <6>3. existing[i] = 0
            BY ONLY <5>4, <6>1
          <6> QED BY <6>2, <6>3
        <5> QED BY ONLY <5>4, <5>6, <5>8
      <4> QED BY <4>1, <4>2
    <3> HIDE DEF existing
    <3>3. /\ over \in Seq(Nat) /\ Len(over) = m
          /\ \A i \in 1 .. m : over[i] = IF lo + i <= n THEN file[lo + i] ELSE 0
      <4>1. offset + L \in Nat
        BY ONLY <1>1, <1>2
      <4>2. /\ over \in Seq(Nat) /\ Len(over) = Max2(Len(existing), offset + L)
            /\ \A i \in 1 .. Max2(Len(existing), offset + L) :
                 over[i] = IF i <= Len(existing) THEN existing[i] ELSE 0
        BY ONLY <3>2, <4>1, GrownIs
      <4> QED BY ONLY <3>2, <4>2
    <3> HIDE DEF over
    <3>4. offset <= Len(over) /\ Max2(Len(over), offset + L) = m
      <4> HIDE DEF m
      <4> QED BY ONLY <1>1, <1>2, <1>10, <3>3 DEF Max2
    <3>5. /\ block \in Seq(Nat) /\ Len(block) = Max2(Len(over), offset + Len(bytes))
          /\ \A i \in 1 .. Max2(Len(over), offset + Len(bytes)) :
               block[i] = IF i > offset /\ i <= offset + Len(bytes) THEN bytes[i - offset] ELSE over[i]
      <4>1. bytes \in Seq(Nat) /\ offset \in Nat /\ over \in Seq(Nat) /\ offset <= Len(over)
        BY <1>2, <3>3, <3>4
      <4> QED BY ONLY <3>1, <4>1, PatchedIs
    <3>6. Max2(Len(over), offset + Len(bytes)) = m
      BY <3>4 DEF L
    <3> HIDE DEF m
    <3> QED BY ONLY <3>3, <3>5, <3>6 DEF L
  <2> QED BY <2>1, <2>2
<1>13. block = BlockOf(new, b)
  <2>1. ASSUME NEW i \in 1 .. m PROVE block[i] = BlockOf(new, b)[i]
    <3>1. lo + i \in 1 .. Max2(n, e) /\ (lo + i > pos <=> i > offset)
          /\ (lo + i <= e <=> i <= offset + L) /\ (lo + i) - pos = i - offset
      <4>1. i \in Nat /\ i > 0 /\ i <= m
        BY <1>10
      <4> QED BY ONLY <4>1, <1>1, <1>2, <1>3, <1>5, <1>8, <1>10
    <3>2. BlockOf(new, b)[i] = new[lo + i]
      BY <1>11
    <3>3. block[i] = IF i > offset /\ i <= offset + L THEN bytes[i - offset]
                     ELSE IF lo + i <= n THEN file[lo + i] ELSE 0
      BY <1>12
    <3>4. ASSUME NEW k, k = lo + i PROVE block[i] = new[k]
      <4>1. /\ k \in 1 .. Max2(n, e) /\ (k > pos <=> i > offset) /\ (k <= e <=> i <= offset + L)
            /\ k - pos = i - offset
        BY ONLY <3>1, <3>4
      <4>2. new[k] = IF k > pos /\ k <= e THEN bytes[k - pos] ELSE IF k <= n THEN file[k] ELSE 0
        BY ONLY <1>9, <4>1
      <4>3. block[i] = IF i > offset /\ i <= offset + L THEN bytes[i - offset]
                       ELSE IF k <= n THEN file[k] ELSE 0
        BY ONLY <3>3, <3>4
      <4> QED BY ONLY <4>1, <4>2, <4>3
    <3> QED BY ONLY <3>2, <3>4
  <2> QED BY ONLY <1>11, <1>12, <2>1
<1>14. Max2(n, lo + Len(block)) = Len(new)
  BY ONLY <1>1, <1>3, <1>4, <1>5, <1>8, <1>9, <1>12 DEF m, Max2, Min2
<1>15. ASSUME NEW k \in Nat, k # b, k < NumBlocks(n) PROVE BlockOf(new, k) = BlockOf(file, k)
  <2> DEFINE at == k * B
  <2>1. at \in Nat /\ (k + 1) * B = at + B /\ at < n
    <3>1. at < n
      BY <1>1, <1>15, NumBlocksIs DEF B
    <3> QED BY <1>1, <3>1, Multiples
  <2>2. at + B <= lo \/ e <= at
    <3>1. k < b => (k + 1) * B <= b * B
      BY ONLY <1>1, <1>2, <1>15, Multiples
    <3>2. b < k => (b + 1) * B <= k * B
      BY ONLY <1>1, <1>2, <1>15, Multiples
    <3>3. k < b \/ b < k
      BY ONLY <1>2, <1>15
    <3> HIDE DEF at
    <3>4. k < b => at + B <= lo
      BY <2>1, <3>1 DEF lo
    <3>5. b < k => e <= at
      <4>1. b < k => lo + B <= at
        BY <1>3, <3>2 DEF at
      <4> QED BY ONLY <1>1, <1>3, <1>5, <2>1, <4>1
    <3> QED BY <3>3, <3>4, <3>5
  <2> DEFINE len == Min2(at + B, n) - at
  <2>3. /\ BlockOf(file, k) \in Seq(Nat) /\ Len(BlockOf(file, k)) = len
        /\ \A i \in 1 .. len : BlockOf(file, k)[i] = file[at + i]
    <3>1. /\ BlockOf(file, k) \in Seq(Nat)
          /\ Len(BlockOf(file, k)) = IF at < n THEN Min2((k + 1) * B, n) - at ELSE 0
          /\ \A i \in 1 .. Len(BlockOf(file, k)) : BlockOf(file, k)[i] = file[at + i]
      BY BlockIs DEF B, n
    <3> HIDE DEF at
    <3> QED BY ONLY <2>1, <3>1
  <2>4. /\ BlockOf(new, k) \in Seq(Nat) /\ Len(BlockOf(new, k)) = len
        /\ \A i \in 1 .. len : BlockOf(new, k)[i] = new[at + i]
    <3>1. /\ BlockOf(new, k) \in Seq(Nat)
          /\ Len(BlockOf(new, k)) = IF at < Len(new) THEN Min2((k + 1) * B, Len(new)) - at ELSE 0
          /\ \A i \in 1 .. Len(BlockOf(new, k)) : BlockOf(new, k)[i] = new[at + i]
      BY <1>9, BlockIs DEF B
    <3> HIDE DEF at
    <3>2. at < Len(new)
      BY ONLY <1>1, <1>5, <1>8, <1>9, <2>1
    <3>3. Min2(at + B, Len(new)) = Min2(at + B, n)
      <4>1. Len(new) = IF e > n THEN e ELSE n
        BY ONLY <1>8, <1>9
      <4>2. at \in Nat /\ at < n
        BY ONLY <2>1
      <4> HIDE DEF len
      <4>3. CASE ~(e > n)
        BY ONLY <1>1, <1>5, <4>1, <4>3
      <4>4. CASE e > n
        <5>1. at + B <= lo
          BY ONLY <1>1, <1>3, <1>5, <2>2, <4>2, <4>4
        <5> QED BY ONLY <1>1, <1>3, <1>4, <1>5, <4>1, <4>2, <4>4, <5>1 DEF Min2
      <4> QED BY <4>3, <4>4
    <3> QED BY ONLY <2>1, <3>1, <3>2, <3>3
  <2>5. ASSUME NEW i \in 1 .. len PROVE new[at + i] = file[at + i]
    <3> HIDE DEF at
    <3> DEFINE j == at + i
    <3>1. i \in Nat /\ i > 0 /\ i <= len
      BY ONLY <1>1, <2>1, <2>5 DEF Min2
    <3>2. j \in 1 .. Max2(n, e) /\ j <= n /\ ~(j > pos /\ j <= e)
      BY ONLY <1>1, <1>3, <1>5, <1>8, <2>1, <2>2, <3>1 DEF Min2
    <3> HIDE DEF j
    <3>3. new[j] = IF j > pos /\ j <= e THEN bytes[j - pos] ELSE IF j <= n THEN file[j] ELSE 0
      BY ONLY <1>9, <3>2
    <3> QED BY <3>2, <3>3 DEF j
  <2> HIDE DEF len
  <2> DEFINE x == BlockOf(new, k)
             y == BlockOf(file, k)
  <2>6. /\ x \in Seq(Nat) /\ y \in Seq(Nat) /\ Len(x) = len /\ Len(y) = len
        /\ \A i \in 1 .. len : x[i] = y[i]
    BY ONLY <2>3, <2>4, <2>5
  <2> HIDE DEF x, y
  <2>7. x = y
    BY ONLY <2>6
  <2> QED BY <2>7 DEF x, y
<1>16. ASSUME NEW k \in Nat PROVE k < NumBlocks(Len(new)) <=> k < NumBlocks(n) \/ k = b
  <2> DEFINE at == k * B
  <2>1. (k < NumBlocks(Len(new)) <=> at < Len(new)) /\ (k < NumBlocks(n) <=> at < n)
    BY <1>1, <1>8, <1>9, NumBlocksIs DEF B
  <2>2. at \in Nat /\ (k + 1) * B = at + B
    BY ONLY <1>1, <1>16, Multiples
  <2>3. /\ k < b => (k + 1) * B <= b * B
        /\ b < k => (b + 1) * B <= k * B
    BY ONLY <1>1, <1>2, <1>16, Multiples
  <2>4. k < b \/ b < k \/ k = b
    BY ONLY <1>2, <1>16
  <2>5. (k < b => at + B <= lo) /\ (b < k => lo + B <= at) /\ (k = b => at = lo)
    BY <1>3, <2>2, <2>3 DEF lo
  <2> HIDE DEF at
  <2>6. CASE k < b
    <3>1. at < n /\ at < Len(new)
      BY ONLY <1>1, <1>3, <1>4, <1>8, <1>9, <2>2, <2>5, <2>6
    <3> QED BY <2>1, <3>1
  <2>7. CASE b < k
    <3>1. at < Len(new) <=> at < n
      BY ONLY <1>1, <1>3, <1>4, <1>5, <1>8, <1>9, <2>2, <2>5, <2>7
    <3>2. k # b
      BY ONLY <1>2, <1>16, <2>7
    <3> QED BY <2>1, <3>1, <3>2
  <2>8. CASE k = b
    <3>1. at < Len(new)
      BY ONLY <1>1, <1>3, <1>5, <1>8, <1>9, <2>5, <2>8
    <3> QED BY <2>1, <2>8, <3>1
  <2> QED BY <2>4, <2>6, <2>7, <2>8
<1>17. 0 .. NumBlocks(Len(new)) - 1 = (0 .. NumBlocks(n) - 1) \cup {b}
  <2>1. NumBlocks(n) \in Nat /\ NumBlocks(Len(new)) \in Nat
    BY <1>1, <1>8, <1>9, NumBlocksIs
  <2> QED BY <1>2, <1>16, <2>1
<1>18. lo + Len(block) = b * BlockSize + Len(block)
  BY DEF lo, B
<1> QED
  BY <1>2, <1>3, <1>5, <1>8, <1>9, <1>13, <1>14, <1>15, <1>17 DEF n, L, lo, B

-----------------------------------------------------------------------------
(* Paths.                                                                  *)

LEMMA PrefixIs ==
    ASSUME NEW S, NEW s \in Seq(S), NEW n \in 0 .. Len(s)
    PROVE  /\ Prefix(s, n) \in Seq(S) /\ Len(Prefix(s, n)) = n
           /\ \A i \in 1 .. n : Prefix(s, n)[i] = s[i]
<1>1. n \in Nat /\ \A i \in 1 .. n : s[i] \in S
  OBVIOUS
<1>2. /\ SubSeq(s, 1, n) \in Seq(S) /\ Len(SubSeq(s, 1, n)) = IF 1 <= n THEN n - 1 + 1 ELSE 0
      /\ \A i \in 1 .. n - 1 + 1 : SubSeq(s, 1, n)[i] = s[1 + i - 1]
  BY <1>1, SubSeqProperties
<1>3. Len(SubSeq(s, 1, n)) = n
  BY ONLY <1>1, <1>2
<1>4. ASSUME NEW i \in 1 .. n PROVE SubSeq(s, 1, n)[i] = s[i]
  <2>1. i \in 1 .. n - 1 + 1 /\ 1 + i - 1 = i
    BY ONLY <1>1, <1>4
  <2> QED BY ONLY <1>2, <2>1
<1> QED BY <1>2, <1>3, <1>4 DEF Prefix

LEMMA PrefixWhole ==
    ASSUME NEW S, NEW s \in Seq(S)
    PROVE  Prefix(s, Len(s)) = s
  BY SubSeqFull DEF Prefix

LEMMA PrefixOfPrefix ==
    ASSUME NEW S, NEW s \in Seq(S), NEW n \in 0 .. Len(s), NEW m \in 0 .. n
    PROVE  Prefix(Prefix(s, n), m) = Prefix(s, m)
<1> DEFINE t == Prefix(s, n)
           u == Prefix(t, m)
           v == Prefix(s, m)
<1>1. t \in Seq(S) /\ Len(t) = n /\ \A i \in 1 .. n : t[i] = s[i]
  BY PrefixIs
<1>2. m \in 0 .. Len(s) /\ m \in 0 .. Len(t)
  BY <1>1
<1>3. v \in Seq(S) /\ Len(v) = m /\ \A i \in 1 .. m : v[i] = s[i]
  BY <1>2, PrefixIs
<1> HIDE DEF t, v
<1>4. u \in Seq(S) /\ Len(u) = m /\ \A i \in 1 .. m : u[i] = t[i]
  BY <1>1, <1>2, PrefixIs
<1> HIDE DEF u
<1>5. u = v
  BY <1>1, <1>3, <1>4
<1> QED BY <1>5 DEF t, u, v

LEMMA ParentIs ==
    ASSUME NEW p \in Paths, p # Root
    PROVE  /\ p \in Seq(STRING) /\ Len(p) \in Nat /\ Len(p) > 0
           /\ parent_of(p) \in Paths /\ parent_of(p) \in Seq(STRING)
           /\ Len(parent_of(p)) = Len(p) - 1 /\ parent_of(p) # p
<1>1. p \in Seq(STRING) /\ Len(p) \in Nat /\ Len(p) > 0
  BY PathsAreTrees DEF Root
<1>2. parent_of(p) \in Paths
  BY PathsAreTrees DEF Root, parent_of, Prefix
<1>3. Len(p) - 1 \in 0 .. Len(p)
  BY <1>1
<1>4. parent_of(p) \in Seq(STRING) /\ Len(parent_of(p)) = Len(p) - 1
  BY <1>1, <1>3, PrefixIs DEF parent_of
<1>5. parent_of(p) # p
  BY ONLY <1>1, <1>4
<1> QED BY <1>1, <1>2, <1>4, <1>5

LEMMA PrefixesArePaths ==
    ASSUME NEW p \in Paths, NEW n \in 0 .. Len(p)
    PROVE  /\ Prefix(p, n) \in Paths /\ Prefix(p, n) \in Seq(STRING) /\ Len(Prefix(p, n)) = n
           /\ n > 0 => /\ Prefix(p, n) # Root
                       /\ parent_of(Prefix(p, n)) = Prefix(p, n - 1)
<1>1. p \in Seq(STRING) /\ Len(p) \in Nat
  BY PathsAreTrees
<1>2. ASSUME NEW m \in 0 .. Len(p)
      PROVE  Prefix(p, m) \in Seq(STRING) /\ Len(Prefix(p, m)) = m
  BY <1>1, PrefixIs
<1>3. ASSUME NEW m \in 1 .. Len(p)
      PROVE  Prefix(p, m) # Root /\ parent_of(Prefix(p, m)) = Prefix(p, m - 1)
  <2>1. m \in 0 .. Len(p) /\ m - 1 \in 0 .. m
    BY <1>1
  <2>2. Prefix(Prefix(p, m), m - 1) = Prefix(p, m - 1)
    BY <1>1, <2>1, PrefixOfPrefix
  <2>3. Prefix(p, m) # Root
    BY <1>1, <1>2, <2>1 DEF Root
  <2> QED BY <1>2, <2>1, <2>2, <2>3 DEF parent_of
<1> DEFINE len == Len(p)
           Good == {i \in 0 .. len : Prefix(p, len - i) \in Paths}
<1>4. len \in Nat /\ 0 \in Good
  <2>1. Prefix(p, len) = p
    BY <1>1, PrefixWhole
  <2>2. len - 0 = len /\ len \in Nat
    BY <1>1
  <2> QED BY <2>1, <2>2
<1>5. ASSUME NEW i \in (0 + 1) .. len, i - 1 \in Good PROVE i \in Good
  <2>1. len - (i - 1) \in 1 .. len /\ (len - (i - 1)) - 1 = len - i /\ i \in 0 .. len
    BY <1>1
  <2>2. parent_of(Prefix(p, len - (i - 1))) = Prefix(p, len - i) /\ Prefix(p, len - (i - 1)) # Root
    BY <1>3, <2>1
  <2>3. Prefix(p, len - (i - 1)) \in Paths
    BY <1>5
  <2> QED BY <2>1, <2>2, <2>3, ParentIs
<1>6. \A i \in 0 .. len : i \in Good
  <2> HIDE DEF Good
  <2> QED BY <1>4, <1>5, Upward
<1>7. Prefix(p, n) \in Paths
  <2>1. len - n \in 0 .. len /\ len - (len - n) = n
    BY <1>1
  <2> QED BY <1>6, <2>1
<1>8. n > 0 => n \in 1 .. Len(p)
  BY <1>1
<1> QED BY <1>2, <1>3, <1>7, <1>8

-----------------------------------------------------------------------------
(* The tree.                                                               *)

LEMMA NewEntriesTyped ==
    /\ \A content \in Seq(Nat), permission \in Permissions : File(content, permission) \in Entry
    /\ \A permission \in Permissions : Directory(permission) \in Entry
<1>1. <<>> \in Seq(Nat)
  OBVIOUS
<1> QED BY <1>1 DEF File, Directory, Entry

LEMMA WithIs ==
    ASSUME NEW e, Typed(e), NEW p \in Paths, NEW entry \in Entry
    PROVE  LET f == With(e, p, entry) IN
           /\ Typed(f) /\ DOMAIN f = DOMAIN e \cup {p} /\ f[p] = entry
           /\ \A q \in DOMAIN e : q # p => f[q] = e[q]
<1> DEFINE f == With(e, p, entry)
<1>1. f = [q \in DOMAIN e \cup {p} |-> IF q = p THEN entry ELSE e[q]]
  BY DEF With
<1> HIDE DEF f
<1>2. DOMAIN f = DOMAIN e \cup {p}
  BY <1>1
<1>3. \A q \in DOMAIN f : f[q] = IF q = p THEN entry ELSE e[q]
  BY <1>1, <1>2
<1>4. \A q \in DOMAIN f : f[q] \in Entry
  BY <1>2, <1>3 DEF Typed
<1>5. f \in [DOMAIN f -> Entry]
  BY <1>1, <1>2, <1>4
<1>6. DOMAIN f \subseteq Paths
  BY <1>2 DEF Typed
<1> QED BY <1>2, <1>3, <1>5, <1>6 DEF Typed, f

LEMMA WithAllIs ==
    ASSUME NEW e, Typed(e), NEW S \in SUBSET Paths, NEW entry \in Entry
    PROVE  LET f == WithAll(e, S, entry) IN
           /\ Typed(f) /\ DOMAIN f = DOMAIN e \cup S
           /\ \A q \in DOMAIN e : f[q] = e[q]
           /\ \A q \in S : q \notin DOMAIN e => f[q] = entry
<1> DEFINE f == WithAll(e, S, entry)
<1>1. f = [q \in DOMAIN e \cup S |-> IF q \in DOMAIN e THEN e[q] ELSE entry]
  BY DEF WithAll
<1> HIDE DEF f
<1>2. DOMAIN f = DOMAIN e \cup S
  BY <1>1
<1>3. \A q \in DOMAIN f : f[q] = IF q \in DOMAIN e THEN e[q] ELSE entry
  BY <1>1, <1>2
<1>4. \A q \in DOMAIN f : f[q] \in Entry
  BY <1>2, <1>3 DEF Typed
<1>5. f \in [DOMAIN f -> Entry]
  BY <1>1, <1>2, <1>4
<1>6. DOMAIN f \subseteq Paths
  BY <1>2 DEF Typed
<1> QED BY <1>2, <1>3, <1>5, <1>6 DEF Typed, f

LEMMA WithoutAllIs ==
    ASSUME NEW e, Typed(e), NEW S
    PROVE  LET f == WithoutAll(e, S) IN
           Typed(f) /\ DOMAIN f = DOMAIN e \ S /\ \A q \in DOMAIN f : f[q] = e[q]
<1> DEFINE f == WithoutAll(e, S)
<1>1. f = [q \in DOMAIN e \ S |-> e[q]]
  BY DEF WithoutAll
<1> HIDE DEF f
<1>2. DOMAIN f = DOMAIN e \ S /\ \A q \in DOMAIN f : f[q] = e[q]
  BY <1>1
<1>3. \A q \in DOMAIN f : f[q] \in Entry
  BY <1>2 DEF Typed
<1>4. f \in [DOMAIN f -> Entry] /\ DOMAIN f \subseteq Paths
  BY <1>1, <1>2, <1>3 DEF Typed
<1> QED BY <1>2, <1>4 DEF Typed, f

(* An entry that does not change is protected.                             *)
LEMMA SameIsProtected ==
    ASSUME NEW e, Typed(e), NEW f, NEW q, q \in DOMAIN e => q \in DOMAIN f /\ f[q] = e[q]
    PROVE  Protected(e, f, q)
<1>1. CASE q \in DOMAIN e
  <2>1. e[q].content \in Seq(Nat)
    BY <1>1 DEF Typed, Entry
  <2> DEFINE s == e[q].content
  <2> HIDE DEF s
  <2>2. Len(s) <= Len(s) /\ Prefix(s, Len(s)) = s
    BY <2>1, PrefixWhole DEF s
  <2> QED BY <2>2 DEF Protected, s
<1>2. CASE q \notin DOMAIN e
  BY <1>2 DEF Protected
<1> QED BY <1>1, <1>2

(* An entry put into a directory.                                          *)
LEMMA PutIn ==
    ASSUME NEW e, Typed(e), NEW p \in Paths, NEW entry \in Entry,
           p # Root, IsDir(e, parent_of(p)), IsDir(e, p) => entry.kind = "Directory",
           Rooted(e)
    PROVE  Rooted(With(e, p, entry))
<1> DEFINE f == With(e, p, entry)
<1>1. /\ Typed(f) /\ DOMAIN f = DOMAIN e \cup {p} /\ f[p] = entry
      /\ \A q \in DOMAIN e : q # p => f[q] = e[q]
  BY WithIs
<1> HIDE DEF f
<1>2. ASSUME NEW q, IsDir(e, q) PROVE IsDir(f, q)
  BY <1>1, <1>2 DEF IsDir
<1>3. ASSUME NEW q \in DOMAIN f, q # Root PROVE IsDir(f, parent_of(q))
  <2>1. q = p \/ q \in DOMAIN e
    BY <1>1
  <2> QED BY <1>2, <1>3, <2>1 DEF Rooted, Tree
<1>4. DOMAIN f \subseteq Paths
  BY <1>1 DEF Typed
<1>5. IsDir(f, Root) /\ f[Root].permission = "ReadOnly"
  BY <1>1, <1>2 DEF Rooted, IsDir
<1> QED BY <1>3, <1>4, <1>5 DEF Rooted, Tree, f

(* What an operation on the tree keeps.                                    *)
Keep(e, f) == /\ Typed(f)
              /\ Rooted(e) => Rooted(f)
              /\ \A q \in Paths : Protected(e, f, q)

LEMMA PutKeeps ==
    ASSUME NEW e, Typed(e), NEW p \in Paths, NEW entry \in Entry,
           p \notin DOMAIN e => check_parent_writable(e, p),
           p \in DOMAIN e => IsFile(e, p) /\ e[p].permission = "ReadWrite"
    PROVE  Keep(e, With(e, p, entry))
<1> DEFINE f == With(e, p, entry)
<1>1. /\ Typed(f) /\ DOMAIN f = DOMAIN e \cup {p} /\ f[p] = entry
      /\ \A q \in DOMAIN e : q # p => f[q] = e[q]
  BY WithIs
<1>2. ASSUME Rooted(e) PROVE Rooted(f)
  <2>1. p # Root
    BY <1>2 DEF Rooted, IsDir, IsFile
  <2>2. IsDir(e, parent_of(p)) /\ ~IsDir(e, p)
    BY <1>2, <2>1 DEF Rooted, Tree, check_parent_writable, IsDir, IsFile
  <2> QED BY <1>2, <2>1, <2>2, PutIn
<1> HIDE DEF f
<1>3. ASSUME NEW q \in Paths PROVE Protected(e, f, q)
  <2>1. CASE q # p
    BY <1>1, <2>1, SameIsProtected
  <2>2. CASE q = p
    BY <2>2 DEF Protected
  <2> QED BY <2>1, <2>2
<1> QED BY <1>1, <1>2, <1>3 DEF Keep, f

LEMMA AppendKeeps ==
    ASSUME Typed(entries), NEW p \in Paths, NEW content \in Seq(Nat), append_file(p, content)
    PROVE  Keep(entries, entries')
<1> DEFINE e == entries
           f == entries'
           old == e[p].content
           entry == [kind |-> "File", permission |-> e[p].permission, content |-> old \o content]
<1>1. p \in DOMAIN e /\ e[p] \in Entry /\ e[p].kind = "File" /\ e[p].permission # "ReadOnly"
  BY DEF append_file, MayAppend, IsFile, Typed
<1>2. old \in Seq(Nat) /\ e[p].permission \in Permissions
  BY <1>1 DEF Entry
<1>3. old \o content \in Seq(Nat)
  BY <1>2
<1>4. entry \in Entry
  BY <1>2, <1>3 DEF Entry
<1>5. f = With(e, p, entry)
  <2>1. [e[p] EXCEPT !.content = old \o content] = entry
    <3> DEFINE r == e[p]
               new == old \o content
    <3>1. r = [kind |-> r.kind, permission |-> r.permission, content |-> r.content] /\ r.kind = "File"
      BY <1>1 DEF Entry
    <3> HIDE DEF r, new, old
    <3>2. [r EXCEPT !.content = new] = [kind |-> "File", permission |-> r.permission, content |-> new]
      BY <3>1
    <3> QED BY <3>2 DEF r, new
  <2>2. f = [e EXCEPT ![p] = [e[p] EXCEPT !.content = old \o content]]
    BY DEF append_file
  <2> HIDE DEF entry
  <2>3. f = [e EXCEPT ![p] = entry]
    BY <2>1, <2>2
  <2>4. DOMAIN e \cup {p} = DOMAIN e
    BY <1>1
  <2> QED BY <1>1, <2>3, <2>4 DEF With, Typed
<1> HIDE DEF f
<1>6. /\ Typed(f) /\ DOMAIN f = DOMAIN e \cup {p} /\ f[p] = entry
      /\ \A q \in DOMAIN e : q # p => f[q] = e[q]
  <2> HIDE DEF entry
  <2> DEFINE g == With(e, p, entry)
  <2>1. /\ Typed(g) /\ DOMAIN g = DOMAIN e \cup {p} /\ g[p] = entry
        /\ \A q \in DOMAIN e : q # p => g[q] = e[q]
    BY <1>4, WithIs
  <2>2. f = g
    BY <1>5
  <2> HIDE DEF g
  <2> QED BY <2>1, <2>2
<1>7. ASSUME Rooted(e) PROVE Rooted(f)
  <2>1. p # Root /\ ~IsDir(e, p)
    BY <1>1, <1>7 DEF Rooted, IsDir
  <2>2. IsDir(e, parent_of(p))
    BY <1>1, <1>7, <2>1 DEF Rooted, Tree
  <2> HIDE DEF entry
  <2> QED BY <1>4, <1>5, <1>7, <2>1, <2>2, PutIn
<1>8. ASSUME NEW q \in Paths PROVE Protected(e, f, q)
  <2>1. CASE q # p
    BY <1>6, <2>1, SameIsProtected
  <2>2. CASE q = p
    <3>1. Len(old) <= Len(old \o content) /\ Prefix(old \o content, Len(old)) = old
      <4> DEFINE new == old \o content
                 cut == Prefix(new, Len(old))
      <4> HIDE DEF old
      <4>1. new \in Seq(Nat) /\ Len(old) \in 0 .. Len(new) /\ \A i \in 1 .. Len(old) : new[i] = old[i]
        BY <1>2
      <4> HIDE DEF new
      <4>2. cut \in Seq(Nat) /\ Len(cut) = Len(old) /\ \A i \in 1 .. Len(old) : cut[i] = new[i]
        BY <4>1, PrefixIs
      <4> HIDE DEF cut
      <4>3. \A i \in 1 .. Len(old) : cut[i] = old[i]
        BY <4>1, <4>2
      <4>4. old \in Seq(Nat)
        BY <1>2 DEF old
      <4>5. cut = old
        BY ONLY <4>2, <4>3, <4>4, SeqEqual
      <4> QED BY <4>1, <4>5 DEF cut, new
    <3>2. p \in DOMAIN f /\ f[p].kind = "File" /\ f[p].permission = e[p].permission
          /\ f[p].content = old \o content
      BY <1>6
    <3> HIDE DEF entry
    <3> QED BY <1>1, <2>2, <3>1, <3>2 DEF Protected
  <2> QED BY <2>1, <2>2
<1> QED BY <1>6, <1>7, <1>8 DEF Keep, f

LEMMA RemoveKeeps ==
    ASSUME NEW e, Typed(e), NEW S,
           \A q \in DOMAIN e : q \in S => e[q].permission = "ReadWrite",
           Rooted(e) => \A q \in DOMAIN e \ S : q # Root => parent_of(q) \notin S
    PROVE  Keep(e, WithoutAll(e, S))
<1> DEFINE f == WithoutAll(e, S)
<1>1. Typed(f) /\ DOMAIN f = DOMAIN e \ S /\ \A q \in DOMAIN f : f[q] = e[q]
  BY WithoutAllIs
<1> HIDE DEF f
<1>2. ASSUME Rooted(e) PROVE Rooted(f)
  <2>1. Root \in DOMAIN e /\ Root \notin S
    BY <1>2 DEF Rooted, IsDir
  <2>2. ASSUME NEW q \in DOMAIN f, q # Root PROVE IsDir(f, parent_of(q))
    <3>1. IsDir(e, parent_of(q)) /\ parent_of(q) \notin S
      BY <1>1, <1>2, <2>2 DEF Rooted, Tree
    <3> QED BY <1>1, <3>1 DEF IsDir
  <2>3. DOMAIN f \subseteq Paths
    BY <1>1 DEF Typed
  <2>4. IsDir(f, Root) /\ f[Root].permission = "ReadOnly"
    BY <1>1, <1>2, <2>1 DEF Rooted, IsDir
  <2> QED BY <2>2, <2>3, <2>4 DEF Rooted, Tree
<1>3. ASSUME NEW q \in Paths PROVE Protected(e, f, q)
  <2>1. CASE q \in DOMAIN e /\ q \in S
    BY <2>1 DEF Protected
  <2>2. CASE ~(q \in DOMAIN e /\ q \in S)
    BY <1>1, <2>2, SameIsProtected
  <2> QED BY <2>1, <2>2
<1> QED BY <1>1, <1>2, <1>3 DEF Keep, f

LEMMA RecursiveKeeps ==
    ASSUME Typed(entries), NEW p \in Paths, remove_recursive(p)
    PROVE  Keep(entries, entries')
<1> DEFINE S == {q \in DOMAIN entries : Under(q, p)}
<1>1. /\ p # Root /\ entries' = WithoutAll(entries, S)
      /\ \A q \in DOMAIN entries : q \in S => entries[q].permission = "ReadWrite"
  BY DEF remove_recursive, MayDelete
<1>2. ASSUME Rooted(entries), NEW q \in DOMAIN entries \ S, q # Root, parent_of(q) \in S
      PROVE  FALSE
  <2>1. q \in Paths /\ Under(parent_of(q), p) /\ ~Under(q, p)
    BY <1>2 DEF Typed
  <2>2. /\ q \in Seq(STRING) /\ Len(q) \in Nat /\ Len(q) > 0
        /\ Len(parent_of(q)) = Len(q) - 1
    BY <1>2, <2>1, ParentIs
  <2>3. p \in Seq(STRING) /\ Len(p) \in Nat
    BY PathsAreTrees
  <2>4. Len(p) <= Len(q) - 1
    BY <2>1, <2>2 DEF Under
  <2>5. Len(q) - 1 \in 0 .. Len(q) /\ Len(p) \in 0 .. Len(q) - 1 /\ Len(p) <= Len(q)
    BY <2>2, <2>3, <2>4
  <2>6. Prefix(parent_of(q), Len(p)) = Prefix(q, Len(p))
    BY <2>2, <2>5, PrefixOfPrefix DEF parent_of
  <2> QED BY <2>1, <2>5, <2>6 DEF Under
<1> HIDE DEF S
<1> QED BY <1>1, <1>2, RemoveKeeps

LEMMA RemoveOneKeeps ==
    ASSUME Typed(entries), NEW p \in Paths, remove(p)
    PROVE  Keep(entries, entries')
<1>1. /\ entries' = WithoutAll(entries, {p})
      /\ \A q \in DOMAIN entries : q \in {p} => entries[q].permission = "ReadWrite"
  BY DEF remove, MayDelete
<1>2. ASSUME Rooted(entries), NEW q \in DOMAIN entries \ {p}, q # Root, parent_of(q) \in {p}
      PROVE  FALSE
  <2>1. IsDir(entries, p)
    BY <1>2 DEF Rooted, Tree
  <2>2. q \in Children(entries, p)
    BY <1>2 DEF Children
  <2> QED BY <2>1, <2>2 DEF remove
<1> QED BY <1>1, <1>2, RemoveKeeps

LEMMA CreateAllKeeps ==
    ASSUME Typed(entries), NEW p \in Paths, NEW permission \in Permissions,
           create_dir_all(p, permission)
    PROVE  Keep(entries, entries')
<1> DEFINE e == entries
           S == Made(e, p, permission)
           f == entries'
           entry == Directory(permission)
<1>1. /\ f = WithAll(e, S, entry) /\ entry \in Entry /\ entry.kind = "Directory"
  BY NewEntriesTyped DEF create_dir_all, Directory
<1>2. ASSUME NEW q \in S
      PROVE  \E n \in 1 .. Len(p) : /\ q = Prefix(p, n) /\ q \notin DOMAIN e
                                    /\ \A i \in 1 .. n : CanStep(e, p, i, permission)
  BY DEF Made
<1>3. Len(p) \in Nat
  BY PathsAreTrees
<1>4. S \in SUBSET Paths
  <2>1. ASSUME NEW q \in S PROVE q \in Paths
    <3>1. PICK n \in 1 .. Len(p) : q = Prefix(p, n)
      BY <1>2
    <3>2. n \in 0 .. Len(p)
      BY <1>3
    <3> QED BY <3>1, <3>2, PrefixesArePaths
  <2> QED BY <2>1
<1> HIDE DEF entry
<1> DEFINE g == WithAll(e, S, entry)
<1>5. /\ Typed(g) /\ DOMAIN g = DOMAIN e \cup S
      /\ \A q \in DOMAIN e : g[q] = e[q]
      /\ \A q \in S : q \notin DOMAIN e => g[q] = entry
  <2> HIDE DEF S
  <2> QED BY <1>1, <1>4, WithAllIs
<1>6. f = g
  BY <1>1
<1> HIDE DEF g, f
<1>7. ASSUME Rooted(e) PROVE Rooted(g)
  <2>1. ASSUME NEW q, IsDir(e, q) PROVE IsDir(g, q)
    BY <1>5, <2>1 DEF IsDir
  <2>2. ASSUME NEW q \in S PROVE q # Root => IsDir(g, parent_of(q))
    <3>1. PICK n \in 1 .. Len(p) : /\ q = Prefix(p, n) /\ q \notin DOMAIN e
                                   /\ \A i \in 1 .. n : CanStep(e, p, i, permission)
      BY <1>2
    <3> DEFINE r == Prefix(p, n - 1)
    <3>2. n \in 0 .. Len(p) /\ n > 0 /\ n - 1 \in 0 .. Len(p)
      BY <1>3
    <3>3. parent_of(q) = r /\ Len(r) = n - 1
      BY <3>1, <3>2, PrefixesArePaths
    <3>4. CASE n = 1
      <4>1. r = Root
        BY <3>4 DEF Prefix, Root
      <4> QED BY <1>7, <2>1, <3>3, <4>1 DEF Rooted
    <3>5. CASE n # 1
      <4>1. n - 1 \in 1 .. n /\ n - 1 \in 1 .. Len(p) /\ \A i \in 1 .. n - 1 : i \in 1 .. n
        BY <1>3, <3>5
      <4>2. CanStep(e, p, n - 1, permission) /\ \A i \in 1 .. n - 1 : CanStep(e, p, i, permission)
        BY <3>1, <4>1
      <4>3. CASE r \in DOMAIN e
        <5>1. IsDir(e, r)
          BY <4>2, <4>3 DEF CanStep
        <5> QED BY <2>1, <3>3, <5>1
      <4>4. CASE r \notin DOMAIN e
        <5>1. r \in S
          BY <4>1, <4>2, <4>4 DEF Made
        <5>2. g[r] = entry /\ r \in DOMAIN g
          <6> HIDE DEF S, r
          <6> QED BY <1>5, <4>4, <5>1
        <5> QED BY <1>1, <3>3, <5>2 DEF IsDir
      <4> QED BY <4>3, <4>4
    <3> QED BY <3>4, <3>5
  <2> HIDE DEF S
  <2>3. ASSUME NEW q \in DOMAIN g, q # Root PROVE IsDir(g, parent_of(q))
    <3>1. q \in S \/ q \in DOMAIN e
      BY <1>5
    <3> QED BY <1>7, <2>1, <2>2, <2>3, <3>1 DEF Rooted, Tree
  <2>4. DOMAIN g \subseteq Paths
    BY <1>5 DEF Typed
  <2>5. IsDir(g, Root) /\ g[Root].permission = "ReadOnly"
    BY <1>5, <1>7, <2>1 DEF Rooted, IsDir
  <2> QED BY <2>3, <2>4, <2>5 DEF Rooted, Tree
<1>8. ASSUME NEW q \in Paths PROVE Protected(e, g, q)
  <2> HIDE DEF S
  <2> QED BY <1>5, SameIsProtected
<1> HIDE DEF S
<1>9. Keep(e, g)
  BY <1>5, <1>7, <1>8 DEF Keep
<1> QED BY <1>6, <1>9 DEF f

LEMMA VfsNextKeeps == Typed(entries) /\ VfsNext => Keep(entries, entries')
<1> SUFFICES ASSUME Typed(entries), VfsNext PROVE Keep(entries, entries')
  OBVIOUS
<1>1. PICK p \in Paths :
        \/ \E permission \in Given :
             \/ create_dir(p, permission)
             \/ create_dir_all(p, permission)
             \/ \E content \in Contents : write_file(p, content, permission)
        \/ \E content \in Contents : append_file(p, content)
        \/ remove(p)
        \/ remove_recursive(p)
  BY DEF VfsNext
<1>2. ASSUME NEW permission \in Given, create_dir(p, permission) PROVE Keep(entries, entries')
  <2>1. Directory(permission) \in Entry
    BY GivenArePermissions, NewEntriesTyped
  <2>2. /\ p \notin DOMAIN entries /\ check_parent_writable(entries, p)
        /\ entries' = With(entries, p, Directory(permission))
    BY <1>2 DEF create_dir, MayCreate
  <2> QED BY <2>1, <2>2, PutKeeps
<1>3. ASSUME NEW permission \in Given, create_dir_all(p, permission) PROVE Keep(entries, entries')
  BY <1>3, GivenArePermissions, CreateAllKeeps
<1>4. ASSUME NEW permission \in Given, NEW content \in Contents, write_file(p, content, permission)
      PROVE  Keep(entries, entries')
  <2>1. File(content, permission) \in Entry
    BY GivenArePermissions, ContentsAreBytes, NewEntriesTyped
  <2>2. /\ entries' = With(entries, p, File(content, permission))
        /\ p \notin DOMAIN entries => check_parent_writable(entries, p)
        /\ p \in DOMAIN entries => IsFile(entries, p) /\ entries[p].permission = "ReadWrite"
    BY <1>4 DEF write_file, MayOverwrite
  <2> QED BY <2>1, <2>2, PutKeeps
<1>5. ASSUME NEW content \in Contents, append_file(p, content) PROVE Keep(entries, entries')
  BY <1>5, ContentsAreBytes, AppendKeeps
<1>6. remove(p) => Keep(entries, entries')
  BY RemoveOneKeeps
<1>7. remove_recursive(p) => Keep(entries, entries')
  BY RecursiveKeeps
<1> QED BY <1>1, <1>2, <1>3, <1>4, <1>5, <1>6, <1>7

LEMMA InitKeeps == Typed(NewEntries) /\ Rooted(NewEntries)
<1> DEFINE e == [p \in {Root, <<"tools">>} |-> Directory("ReadOnly")]
           e1 == With(e, <<"workspace">>, Directory("ReadWrite"))
           f == With(e1, <<"log">>, Directory("AppendOnly"))
           g == With(f, <<"log", "actions">>, File(<<>>, "AppendOnly"))
           h == With(g, <<"workspace", "readme">>, File(<<9, 9, 9>>, "ReadWrite"))
<1>1. NewEntries = h
  BY DEF NewEntries
<1>2. DOMAIN NewEntries = {Root, <<"tools">>, <<"workspace">>, <<"log">>, <<"log", "actions">>,
                           <<"workspace", "readme">>}
  BY <1>1 DEF With
<1>3. {Root, <<"tools">>, <<"workspace">>, <<"log">>, <<"log", "actions">>,
       <<"workspace", "readme">>} \subseteq Paths
  BY <1>2, PathsOfNew
<1>4. /\ parent_of(<<"tools">>) = Root /\ parent_of(<<"workspace">>) = Root
      /\ parent_of(<<"log">>) = Root
      /\ parent_of(<<"log", "actions">>) = <<"log">>
      /\ parent_of(<<"workspace", "readme">>) = <<"workspace">>
  <2>1. ASSUME NEW a PROVE parent_of(<<a>>) = Root
    BY DEF parent_of, Prefix, Root
  <2>2. ASSUME NEW a, NEW b PROVE parent_of(<<a, b>>) = <<a>>
    <3> DEFINE S == {a, b}
               s == <<a, b>>
               t == Prefix(s, 1)
               u == <<a>>
    <3>0. a \in S /\ b \in S
      OBVIOUS
    <3> HIDE DEF S
    <3>1. s \in Seq(S)
      BY <3>0
    <3>9. u \in Seq(S)
      BY <3>0
    <3>2. Len(s) = 2 /\ Len(u) = 1
      OBVIOUS
    <3>3. s[1] = a /\ u[1] = a
      OBVIOUS
    <3> HIDE DEF s, u
    <3>4. 1 \in 0 .. Len(s)
      BY <3>2
    <3>5. t \in Seq(S) /\ Len(t) = 1 /\ \A i \in 1 .. 1 : t[i] = s[i]
      BY <3>1, <3>4, PrefixIs
    <3> HIDE DEF t
    <3>6. \A i \in 1 .. Len(t) : t[i] = u[i]
      <4>1. t[1] = u[1]
        BY <3>3, <3>5
      <4>2. \A i \in 1 .. Len(t) : i = 1
        BY ONLY <3>5
      <4> QED BY <4>1, <4>2
    <3>7. t = u
      BY ONLY <3>1, <3>9, <3>2, <3>5, <3>6, SeqEqual
    <3>8. parent_of(s) = Prefix(s, 1)
      BY <3>2 DEF parent_of
    <3> QED BY <3>7, <3>8 DEF s, t, u
  <2> QED BY ONLY <2>1, <2>2
<1>5. /\ Directory("ReadOnly") \in Entry /\ Directory("ReadWrite") \in Entry
      /\ Directory("AppendOnly") \in Entry /\ File(<<>>, "AppendOnly") \in Entry
      /\ File(<<9, 9, 9>>, "ReadWrite") \in Entry
  <2>1. <<>> \in Seq(Nat)
    OBVIOUS
  <2>2. <<9, 9, 9>> \in Seq(Nat)
    OBVIOUS
  <2>3. "ReadOnly" \in Permissions /\ "ReadWrite" \in Permissions /\ "AppendOnly" \in Permissions
    BY DEF Permissions
  <2> QED BY ONLY <2>1, <2>2, <2>3, NewEntriesTyped
<1>6. \A permission \in Permissions : Directory(permission).kind = "Directory"
  BY DEF Directory
<1>7. Typed(e) /\ Rooted(e)
  <2> DEFINE d == Directory("ReadOnly")
  <2>1. d.kind = "Directory" /\ d.permission = "ReadOnly"
    BY DEF Directory
  <2> HIDE DEF d
  <2>2. DOMAIN e = {Root, <<"tools">>} /\ e[Root] = d /\ e[<<"tools">>] = d
        /\ e \in [DOMAIN e -> Entry]
    BY <1>5 DEF d
  <2> HIDE DEF e
  <2>3. IsDir(e, Root) /\ e[Root].permission = "ReadOnly"
    BY <2>1, <2>2 DEF IsDir
  <2>4. DOMAIN e \subseteq Paths
    BY <1>3, <2>2
  <2>5. \A p \in DOMAIN e : p # Root => IsDir(e, parent_of(p))
    BY <1>4, <2>2, <2>3
  <2> QED BY <2>2, <2>3, <2>4, <2>5 DEF Typed, Rooted, Tree
<1>8. ASSUME NEW a \in STRING PROVE <<a>> # Root
  BY DEF Root
<1>9. ASSUME NEW a \in STRING, NEW b \in STRING PROVE <<a, b>> # Root
  BY DEF Root
<1>10. ASSUME NEW x, Typed(x), Rooted(x), NEW p \in Paths, p # Root, IsDir(x, parent_of(p)),
              p \notin DOMAIN x, NEW entry \in Entry
       PROVE  LET y == With(x, p, entry) IN
              /\ Typed(y) /\ Rooted(y) /\ DOMAIN y = DOMAIN x \cup {p} /\ y[p] = entry
              /\ \A q : IsDir(x, q) => IsDir(y, q)
  <2> DEFINE y == With(x, p, entry)
  <2>1. /\ Typed(y) /\ DOMAIN y = DOMAIN x \cup {p} /\ y[p] = entry
        /\ \A q \in DOMAIN x : q # p => y[q] = x[q]
    BY <1>10, WithIs
  <2>2. Rooted(y)
    BY <1>10, PutIn DEF IsDir
  <2> HIDE DEF y
  <2>3. \A q : IsDir(x, q) => IsDir(y, q)
    BY <1>10, <2>1 DEF IsDir
  <2> QED BY <2>1, <2>2, <2>3 DEF y
<1>11. DOMAIN e = {Root, <<"tools">>}
  OBVIOUS
<1> HIDE DEF e
<1>12. <<"workspace">> \notin DOMAIN e /\ IsDir(e, Root) /\ <<"workspace">> # Root
  BY <1>7, <1>11 DEF Rooted, Root
<1>13. /\ Typed(e1) /\ Rooted(e1) /\ DOMAIN e1 = DOMAIN e \cup {<<"workspace">>}
       /\ e1[<<"workspace">>] = Directory("ReadWrite")
  BY <1>3, <1>4, <1>5, <1>7, <1>10, <1>12
<1> HIDE DEF e1
<1>14. <<"log">> \notin DOMAIN e1 /\ IsDir(e1, Root) /\ <<"log">> # Root
  BY <1>11, <1>13 DEF Rooted, Root
<1>15. IsDir(e1, <<"workspace">>)
  BY <1>6, <1>13 DEF IsDir, Permissions
<1>16. /\ Typed(f) /\ Rooted(f) /\ DOMAIN f = DOMAIN e1 \cup {<<"log">>}
       /\ f[<<"log">>] = Directory("AppendOnly") /\ IsDir(f, <<"workspace">>)
  BY <1>3, <1>4, <1>5, <1>10, <1>13, <1>14, <1>15
<1> HIDE DEF f
<1>17. IsDir(f, <<"log">>)
  BY <1>6, <1>16 DEF IsDir, Permissions
<1>18. <<"log", "actions">> \notin DOMAIN f /\ <<"log", "actions">> # Root
  BY <1>11, <1>13, <1>16 DEF Root
<1>19. /\ Typed(g) /\ Rooted(g) /\ DOMAIN g = DOMAIN f \cup {<<"log", "actions">>}
       /\ IsDir(g, <<"workspace">>)
  BY <1>3, <1>4, <1>5, <1>10, <1>16, <1>17, <1>18
<1> HIDE DEF g
<1>20. <<"workspace", "readme">> \notin DOMAIN g /\ <<"workspace", "readme">> # Root
  BY <1>11, <1>13, <1>16, <1>19 DEF Root
<1>21. Typed(h) /\ Rooted(h)
  BY <1>3, <1>4, <1>5, <1>10, <1>19, <1>20
<1> QED BY <1>1, <1>21

-----------------------------------------------------------------------------
(* The handles: each action keeps the invariant.                           *)

CachesTyped(cs) ==
  /\ cs = [p \in DOMAIN cs |-> [cache |-> cs[p].cache, size |-> cs[p].size]]
  /\ \A p \in DOMAIN cs : IsCache(cs[p].cache) /\ cs[p].size \in Nat

LEMMA PutCache ==
    ASSUME NEW cs, CachesTyped(cs), NEW p \in DOMAIN cs, NEW c, IsCache(c), NEW n \in Nat,
           NEW new, new = [cs EXCEPT ![p] = [cache |-> c, size |-> n]]
    PROVE  /\ CachesTyped(new) /\ DOMAIN new = DOMAIN cs
           /\ new[p].cache = c /\ new[p].size = n
           /\ \A q \in DOMAIN cs : q # p => new[q] = cs[q]
<1> DEFINE r == [cache |-> c, size |-> n]
<1>1. r.cache = c /\ r.size = n /\ r = [cache |-> r.cache, size |-> r.size]
  OBVIOUS
<1> HIDE DEF r
<1>2. /\ new = [q \in DOMAIN cs |-> new[q]] /\ DOMAIN new = DOMAIN cs /\ new[p] = r
      /\ \A q \in DOMAIN cs : q # p => new[q] = cs[q]
  BY DEF CachesTyped, r
<1>3. ASSUME NEW q \in DOMAIN cs
      PROVE  /\ new[q] = [cache |-> new[q].cache, size |-> new[q].size]
             /\ IsCache(new[q].cache) /\ new[q].size \in Nat
  <2>1. CASE q = p
    BY <1>1, <1>2, <2>1
  <2>2. CASE q # p
    BY <1>2, <2>2 DEF CachesTyped
  <2> QED BY <2>1, <2>2
<1>4. CachesTyped(new)
  <2>1. new = [q \in DOMAIN new |-> [cache |-> new[q].cache, size |-> new[q].size]]
    BY <1>2, <1>3
  <2> QED BY <1>2, <1>3, <2>1 DEF CachesTyped
<1> QED BY <1>1, <1>2, <1>4

(* What a step leaves of another handle.                                   *)
LEMMA PathStays ==
    ASSUME NEW e, NEW f, NEW p, SameEntry(e, f, p), SameEntry(e, f, parent_of(p)),
           NEW mode, Openable(e, p, mode), IsDir(e, parent_of(p))
    PROVE  /\ Openable(f, p, mode) /\ IsDir(f, parent_of(p))
           /\ (p \in DOMAIN e <=> p \in DOMAIN f) /\ (p \in DOMAIN e => f[p] = e[p])
<1>1. (p \in DOMAIN e <=> p \in DOMAIN f) /\ (p \in DOMAIN e => f[p] = e[p])
  BY DEF SameEntry
<1>2. IsDir(f, parent_of(p)) /\ f[parent_of(p)] = e[parent_of(p)]
  BY DEF SameEntry, IsDir
<1>3. Openable(f, p, mode)
  BY <1>1, <1>2 DEF Openable, MayOverwrite, check_parent_writable, IsFile
<1> QED BY <1>1, <1>2, <1>3

(* A handle of an orderly path has the path for itself.                    *)
LEMMA OwnPath ==
    ASSUME FilesInv, NEW d \in Fds, IsOpen(d), fd[d].path \in orderly,
           NEW o \in Fds, IsOpen(o), o # d
    PROVE  fd[o].path # fd[d].path
  BY DEF FilesInv, HandlesInv, Sound

(* A handle whose path, cache and entry a step leaves alone stays sound.   *)
LEMMA SoundStays ==
    ASSUME NEW d \in Fds, Sound(d), fd'[d] = fd[d],
           \A o \in Fds : (fd'[o].st = "open" /\ fd'[o].path = fd[d].path)
                            => (IsOpen(o) /\ fd[o].path = fd[d].path),
           caches'[fd[d].path] = caches[fd[d].path],
           written'[fd[d].path] = written[fd[d].path],
           SameEntry(entries, entries', fd[d].path),
           SameEntry(entries, entries', parent_of(fd[d].path))
    PROVE  Sound(d)'
<1>1. PICK p : p = fd[d].path
  OBVIOUS
<1>2. PICK h : h = fd[d]
  OBVIOUS
<1>3. Fits(entries, h, caches[p], written[p])
  BY <1>1, <1>2 DEF Sound
<1>4. /\ Openable(entries', p, h.mode) /\ IsDir(entries', parent_of(p))
      /\ (p \in DOMAIN entries <=> p \in DOMAIN entries')
      /\ (p \in DOMAIN entries => entries'[p] = entries[p])
  BY <1>1, <1>2, <1>3, PathStays DEF Fits
<1>5. Fits(entries', h, caches[p], written[p])
  BY <1>1, <1>2, <1>3, <1>4 DEF Fits
<1>6. fd'[d] = h /\ fd'[d].path = p /\ caches'[p] = caches[p] /\ written'[p] = written[p]
  BY <1>1, <1>2
<1>7. Fits(entries', fd'[d], caches'[fd'[d].path], written'[fd'[d].path])
  BY <1>5, <1>6
<1>8. \A o \in Fds : (fd'[o].st = "open" /\ fd'[o].path = fd'[d].path) => o = d
  BY <1>1, <1>6 DEF Sound
<1> QED BY <1>7, <1>8 DEF Sound, IsOpen

LEMMA NotDisturbed ==
    ASSUME NEW e, NEW f, NEW p \in FilePaths, HandlesOf(p) # {}, p \notin Disturbed(e, f)
    PROVE  SameEntry(e, f, p) /\ SameEntry(e, f, parent_of(p))
<1>1. p \in Seq(STRING) /\ Len(p) \in Nat
  BY FilesArePaths, PathsAreTrees
<1>2. \A n \in 0 .. Len(p) : SameEntry(e, f, Prefix(p, n))
  BY DEF Disturbed
<1>3. Prefix(p, Len(p)) = p /\ Len(p) \in 0 .. Len(p)
  BY <1>1, PrefixWhole
<1>4. \E n \in 0 .. Len(p) : parent_of(p) = Prefix(p, n)
  <2>1. CASE Len(p) > 0
    BY <1>1, <2>1 DEF parent_of
  <2>2. CASE ~(Len(p) > 0)
    <3>1. Len(p) = 0 /\ Len(p) - 1 \in Int /\ Len(p) - 1 < 1
      BY <1>1, <2>2
    <3>2. parent_of(p) = <<>> /\ Prefix(p, 0) = <<>>
      BY <3>1, SubSeqEmpty DEF parent_of, Prefix
    <3> QED BY <3>1, <3>2
  <2> QED BY <2>1, <2>2
<1> QED BY <1>2, <1>3, <1>4

LEMMA SyncInv == ASSUME FilesInv, Sync PROVE FilesInv'
<1>1. /\ VfsNext /\ orderly' = orderly \ Disturbed(entries, entries')
      /\ caches' = caches /\ fd' = fd /\ written' = written /\ asyncs' = asyncs
  BY DEF Sync
<1>2. Keep(entries, entries')
  BY <1>1, VfsNextKeeps DEF FilesInv, TypeOK
<1>3. TypeOK'
  BY <1>1, <1>2 DEF FilesInv, TypeOK, Keep, HandlesOf, IsOpen
<1>4. HandlesInv'
  <2> SUFFICES ASSUME NEW d \in Fds, IsOpen(d)', fd'[d].path \in orderly' PROVE Sound(d)'
    BY DEF HandlesInv
  <2>1. IsOpen(d) /\ fd[d].path \in orderly /\ fd[d].path \in FilePaths
        /\ fd[d].path \notin Disturbed(entries, entries')
    BY <1>1 DEF IsOpen, FilesInv, TypeOK
  <2>2. HandlesOf(fd[d].path) # {}
    BY <2>1 DEF HandlesOf
  <2>3. SameEntry(entries, entries', fd[d].path) /\ SameEntry(entries, entries', parent_of(fd[d].path))
    BY <2>1, <2>2, NotDisturbed
  <2>4. Sound(d)
    BY <2>1 DEF FilesInv, HandlesInv
  <2> QED BY <1>1, <2>3, <2>4, SoundStays DEF IsOpen
<1> QED BY <1>3, <1>4 DEF FilesInv

(* open                                                                    *)
LEMMA OpenInv ==
    ASSUME FilesInv, NEW d \in Fds, NEW p \in FilePaths, NEW mode \in Modes, open(d, p, mode),
           asyncs' \in Nat
    PROVE  FilesInv'
<1> DEFINE content == ContentAtOpen(entries, p, mode)
           f == get_or_create_cache(p, Len(content))
           cache == Populate(f.cache, content)
           new == [f EXCEPT !.cache = cache]
           h == [st |-> "open", path |-> p, mode |-> mode, data |-> content,
                 pos |-> IF mode = "Append" THEN f.size ELSE 0]
           others == HandlesOf(p)
<1>1. /\ ~IsOpen(d) /\ Openable(entries, p, mode) /\ entries' = entries
      /\ caches' = WithCache(p, new) /\ fd' = [fd EXCEPT ![d] = h]
      /\ written' = IF others = {} THEN [written EXCEPT ![p] = content] ELSE written
  BY DEF open
<1>2. orderly' = IF \/ others # {} \/ ~IsDir(entries, parent_of(p))
                    \/ MaxBlocks > 0 /\ NumBlocks(Len(content)) > MaxBlocks
                 THEN orderly \ {p} ELSE orderly
  BY DEF open, Disorder
<1>3. content \in Seq(Nat) /\ Len(content) \in Nat
  <2>1. <<>> \in Seq(Nat)
    OBVIOUS
  <2>2. p \in DOMAIN entries => entries[p].content \in Seq(Nat)
    BY DEF FilesInv, TypeOK, Typed, Entry
  <2>3. content \in Seq(Nat)
    BY <2>1, <2>2 DEF ContentAtOpen
  <2> HIDE DEF content
  <2> QED BY <2>3
<1> HIDE DEF content
<1>4. CachesTyped(caches) /\ (p \in DOMAIN caches <=> others # {}) /\ DOMAIN caches \subseteq FilePaths
  BY DEF FilesInv, TypeOK, CachesTyped
<1>5. /\ f = [cache |-> f.cache, size |-> f.size] /\ IsCache(f.cache) /\ f.size \in Nat
      /\ others = {} => f.cache = EmptyCache /\ f.size = Len(content)
  <2>1. CASE p \in DOMAIN caches
    BY <1>4, <2>1 DEF get_or_create_cache, CachesTyped
  <2>2. CASE p \notin DOMAIN caches
    <3>1. IsCache(EmptyCache)
      BY DEF IsCache, EmptyCache, Cached
    <3>2. f = [cache |-> EmptyCache, size |-> Len(content)]
      BY <2>2 DEF get_or_create_cache
    <3> HIDE DEF f
    <3> QED BY <1>3, <3>1, <3>2
  <2> QED BY <2>1, <2>2
<1> HIDE DEF f
<1>6. /\ IsCache(cache)
      /\ (others = {} /\ (MaxBlocks = 0 \/ NumBlocks(Len(content)) <= MaxBlocks))
           => Holds(cache, content)
  BY <1>3, <1>5, PopulateIs
<1> HIDE DEF cache
<1>7. new = [cache |-> cache, size |-> f.size]
  BY <1>5
<1>8. new.cache = cache /\ new.size = f.size
  BY <1>7
<1> HIDE DEF new
<1>9. /\ CachesTyped(caches') /\ DOMAIN caches' = DOMAIN caches \cup {p} /\ caches'[p] = new
      /\ \A q \in DOMAIN caches : q # p => caches'[q] = caches[q]
  <2>1. caches' = [q \in DOMAIN caches \cup {p} |-> IF q = p THEN new ELSE caches[q]]
    BY <1>1 DEF WithCache
  <2>2. /\ DOMAIN caches' = DOMAIN caches \cup {p}
        /\ \A q \in DOMAIN caches' : caches'[q] = IF q = p THEN new ELSE caches[q]
    BY <2>1
  <2>3. ASSUME NEW q \in DOMAIN caches'
        PROVE  /\ caches'[q] = [cache |-> caches'[q].cache, size |-> caches'[q].size]
               /\ IsCache(caches'[q].cache) /\ caches'[q].size \in Nat
    <3>1. CASE q = p
      BY <1>5, <1>6, <1>7, <1>8, <2>2, <3>1
    <3>2. CASE q # p
      BY <1>4, <2>2, <3>2 DEF CachesTyped
    <3> QED BY <3>1, <3>2
  <2>4. caches' = [q \in DOMAIN caches' |-> [cache |-> caches'[q].cache, size |-> caches'[q].size]]
    BY <2>1, <2>2, <2>3
  <2> QED BY <2>2, <2>3, <2>4 DEF CachesTyped
<1>10. h.st = "open" /\ h.path = p /\ h.mode = mode /\ h.data = content /\ h \in OpenFile
  <2>1. p \in Paths /\ (IF mode = "Append" THEN f.size ELSE 0) \in Nat
    BY <1>5, FilesArePaths
  <2> QED BY <1>3, <2>1 DEF OpenFile
<1> HIDE DEF h
<1>11. /\ fd' \in [Fds -> OpenFile] /\ fd'[d] = h
       /\ \A o \in Fds : o # d => fd'[o] = fd[o]
  BY <1>1, <1>10 DEF FilesInv, TypeOK
<1>12. TypeOK'
  <2>1. \A o \in Fds : fd'[o].st = "open" => fd'[o].path \in FilePaths
    BY <1>10, <1>11 DEF FilesInv, TypeOK, IsOpen
  <2>2. DOMAIN caches' = {q \in FilePaths : HandlesOf(q) # {}} \cup {p}
    BY <1>9 DEF FilesInv, TypeOK
  <2>3. ASSUME NEW q \in FilePaths
        PROVE  {o \in Fds : fd'[o].st = "open" /\ fd'[o].path = q} # {} <=> (HandlesOf(q) # {} \/ q = p)
    BY <1>1, <1>10, <1>11 DEF HandlesOf, IsOpen
  <2>4. DOMAIN caches' = {q \in FilePaths : {o \in Fds : fd'[o].st = "open" /\ fd'[o].path = q} # {}}
    BY <2>2, <2>3
  <2>5. written' \in [FilePaths -> Seq(Nat)]
    BY <1>1, <1>3 DEF FilesInv, TypeOK
  <2>6. orderly' \subseteq FilePaths
    BY <1>2 DEF FilesInv, TypeOK
  <2>7. Typed(entries')
    BY <1>1 DEF FilesInv, TypeOK
  <2> QED BY <1>9, <1>11, <2>1, <2>4, <2>5, <2>6, <2>7 DEF TypeOK, CachesTyped, HandlesOf, IsOpen
<1>13. HandlesInv'
  <2> SUFFICES ASSUME NEW o \in Fds, IsOpen(o)', fd'[o].path \in orderly' PROVE Sound(o)'
    BY DEF HandlesInv
  <2>1. CASE o = d
    <3>1. p \in orderly /\ others = {} /\ IsDir(entries, parent_of(p))
          /\ ~(MaxBlocks > 0 /\ NumBlocks(Len(content)) > MaxBlocks)
      BY <1>2, <1>10, <1>11, <2>1
    <3>2. Holds(cache, content)
      <4>1. NumBlocks(Len(content)) \in Nat
        BY <1>3, NumBlocksIs
      <4>2. MaxBlocks = 0 \/ NumBlocks(Len(content)) <= MaxBlocks
        BY <3>1, <4>1, CacheLimit
      <4> QED BY <1>6, <3>1, <4>2
    <3>3. written'[p] = content
      BY <1>1, <3>1 DEF FilesInv, TypeOK
    <3>4. (mode = "Append" /\ p \in DOMAIN entries) => Begins(entries[p].content, content)
      <4>1. Len(content) <= Len(content) /\ Prefix(content, Len(content)) = content
        BY <1>3, PrefixWhole
      <4>2. (mode = "Append" /\ p \in DOMAIN entries) => content = entries[p].content
        BY DEF ContentAtOpen, content
      <4> QED BY <4>1, <4>2 DEF Begins
    <3>5. Fits(entries', h, caches'[p], written'[p])
      BY <1>1, <1>5, <1>8, <1>9, <1>10, <3>1, <3>2, <3>3, <3>4 DEF Fits
    <3>6. \A c \in Fds : (fd'[c].st = "open" /\ fd'[c].path = p) => c = d
      BY <1>11, <3>1 DEF HandlesOf, IsOpen
    <3> QED BY <1>10, <1>11, <2>1, <3>5, <3>6 DEF Sound, IsOpen
  <2>2. CASE o # d
    <3>1. fd'[o] = fd[o] /\ IsOpen(o) /\ fd[o].path \in orderly /\ fd[o].path \in orderly'
      BY <1>2, <1>11, <2>2 DEF IsOpen
    <3>2. fd[o].path # p
      <4>1. fd[o].path = p => others # {}
        BY <3>1 DEF HandlesOf
      <4> QED BY <1>2, <3>1, <4>1
    <3>3. Sound(o)
      BY <3>1 DEF FilesInv, HandlesInv
    <3>4. caches'[fd[o].path] = caches[fd[o].path] /\ written'[fd[o].path] = written[fd[o].path]
      <4>1. fd[o].path \in DOMAIN caches
        BY <3>1 DEF FilesInv, TypeOK, HandlesOf
      <4> QED BY <1>1, <1>9, <3>2, <4>1 DEF FilesInv, TypeOK
    <3>5. \A c \in Fds : (fd'[c].st = "open" /\ fd'[c].path = fd[o].path)
                           => (IsOpen(c) /\ fd[c].path = fd[o].path)
      BY <1>10, <1>11, <3>2 DEF IsOpen
    <3>6. SameEntry(entries, entries', fd[o].path) /\ SameEntry(entries, entries', parent_of(fd[o].path))
      BY <1>1 DEF SameEntry
    <3> QED BY <3>1, <3>3, <3>4, <3>5, <3>6, SoundStays
  <2> QED BY <2>1, <2>2
<1> QED BY <1>12, <1>13 DEF FilesInv

(* A step of one handle that leaves the tree alone.                        *)
Moves(d, c, n, h, file) ==
  /\ IsOpen(d) /\ IsCache(c) /\ n \in Nat /\ file \in Seq(Nat)
  /\ h \in OpenFile /\ h.st = "open" /\ h.path = fd[d].path /\ h.mode = fd[d].mode
  /\ fd' = [fd EXCEPT ![d] = h]
  /\ caches' = [caches EXCEPT ![fd[d].path] = [cache |-> c, size |-> n]]
  /\ written' = [written EXCEPT ![fd[d].path] = file]
  /\ entries' = entries /\ orderly' \subseteq orderly
  /\ fd[d].path \in orderly' =>
       /\ n = Len(file) /\ Len(h.data) = Len(file) /\ Holds(c, file)
       /\ (h.mode = "Append" /\ fd[d].path \in DOMAIN entries)
            => Begins(entries[fd[d].path].content, file)

LEMMA OwnStep ==
    ASSUME FilesInv, asyncs' \in Nat, NEW d \in Fds, NEW c, NEW n, NEW h, NEW file,
           Moves(d, c, n, h, file)
    PROVE  FilesInv'
<1> USE DEF Moves
<1> DEFINE p == fd[d].path
<1>1. /\ p \in FilePaths /\ p \in DOMAIN caches /\ CachesTyped(caches)
      /\ fd \in [Fds -> OpenFile] /\ written \in [FilePaths -> Seq(Nat)]
  BY DEF FilesInv, TypeOK, CachesTyped, HandlesOf
<1>2. /\ CachesTyped(caches') /\ DOMAIN caches' = DOMAIN caches
      /\ caches'[p].cache = c /\ caches'[p].size = n
      /\ \A q \in DOMAIN caches : q # p => caches'[q] = caches[q]
  BY <1>1, PutCache
<1>3. /\ fd' \in [Fds -> OpenFile] /\ fd'[d] = h /\ \A o \in Fds : o # d => fd'[o] = fd[o]
      /\ \A o \in Fds : fd'[o].st = fd[o].st /\ fd'[o].path = fd[o].path
  BY <1>1 DEF IsOpen
<1>4. /\ written' \in [FilePaths -> Seq(Nat)] /\ written'[p] = file
      /\ \A q \in FilePaths : q # p => written'[q] = written[q]
  BY <1>1
<1>5. TypeOK'
  <2>1. \A q \in FilePaths : {o \in Fds : fd'[o].st = "open" /\ fd'[o].path = q} = HandlesOf(q)
    BY <1>3 DEF HandlesOf, IsOpen
  <2>2. DOMAIN caches' = {q \in FilePaths : {o \in Fds : fd'[o].st = "open" /\ fd'[o].path = q} # {}}
    BY <1>2, <2>1 DEF FilesInv, TypeOK
  <2>3. \A o \in Fds : fd'[o].st = "open" => fd'[o].path \in FilePaths
    BY <1>3 DEF FilesInv, TypeOK, IsOpen
  <2>4. Typed(entries') /\ orderly' \subseteq FilePaths
    BY DEF FilesInv, TypeOK
  <2> QED BY <1>2, <1>3, <1>4, <2>2, <2>3, <2>4 DEF TypeOK, CachesTyped, HandlesOf, IsOpen
<1>6. HandlesInv'
  <2> SUFFICES ASSUME NEW o \in Fds, IsOpen(o)', fd'[o].path \in orderly' PROVE Sound(o)'
    BY DEF HandlesInv
  <2>1. IsOpen(o) /\ fd[o].path \in orderly /\ fd[o].path \in orderly'
    BY <1>3 DEF IsOpen
  <2>2. Sound(o)
    BY <2>1 DEF FilesInv, HandlesInv
  <2>3. CASE o = d
    <3>1. Fits(entries, fd[d], caches[p], written[p])
      BY <2>2, <2>3 DEF Sound
    <3>2. Fits(entries', h, caches'[p], written'[p])
      BY <1>2, <1>4, <2>1, <2>3, <3>1 DEF Fits
    <3>3. \A i \in Fds : (fd'[i].st = "open" /\ fd'[i].path = p) => i = d
      BY <1>3, <2>2, <2>3 DEF Sound, IsOpen
    <3> QED BY <1>3, <2>3, <3>2, <3>3 DEF Sound, IsOpen
  <2>4. CASE o # d
    <3>1. fd[o].path # p
      BY <2>1, <2>4, OwnPath
    <3>2. fd'[o] = fd[o]
      BY <1>3, <2>4
    <3>3. caches'[fd[o].path] = caches[fd[o].path] /\ written'[fd[o].path] = written[fd[o].path]
      <4>1. fd[o].path \in DOMAIN caches /\ fd[o].path \in FilePaths
        BY <2>1 DEF FilesInv, TypeOK, HandlesOf
      <4> QED BY <1>2, <1>4, <3>1, <4>1
    <3>4. \A i \in Fds : (fd'[i].st = "open" /\ fd'[i].path = fd[o].path)
                           => (IsOpen(i) /\ fd[i].path = fd[o].path)
      BY <1>3 DEF IsOpen
    <3>5. SameEntry(entries, entries', fd[o].path) /\ SameEntry(entries, entries', parent_of(fd[o].path))
      BY DEF SameEntry
    <3> QED BY <2>2, <3>2, <3>3, <3>4, <3>5, SoundStays
  <2> QED BY <2>3, <2>4
<1> QED BY <1>5, <1>6 DEF FilesInv

(* What is known of the handle that takes a step.                          *)
LEMMA HandleIs ==
    ASSUME FilesInv, NEW d \in Fds, IsOpen(d)
    PROVE  /\ fd[d] \in OpenFile /\ fd[d].path \in FilePaths /\ fd[d].path \in DOMAIN caches
           /\ fd[d] = [st |-> "open", path |-> fd[d].path, mode |-> fd[d].mode,
                       pos |-> fd[d].pos, data |-> fd[d].data]
           /\ caches[fd[d].path] = [cache |-> caches[fd[d].path].cache,
                                    size |-> caches[fd[d].path].size]
           /\ IsCache(caches[fd[d].path].cache) /\ caches[fd[d].path].size \in Nat
           /\ written[fd[d].path] \in Seq(Nat)
           /\ caches = [q \in DOMAIN caches |-> caches[q]]
           /\ fd = [o \in Fds |-> fd[o]] /\ written = [q \in FilePaths |-> written[q]]
           /\ fd[d].path \in orderly => Fits(entries, fd[d], caches[fd[d].path], written[fd[d].path])
<1>1. fd \in [Fds -> OpenFile] /\ written \in [FilePaths -> Seq(Nat)]
  BY DEF FilesInv, TypeOK
<1>2. fd[d] \in OpenFile /\ fd[d].path \in FilePaths /\ fd[d].path \in DOMAIN caches
  BY DEF FilesInv, TypeOK, HandlesOf
<1>3. /\ caches[fd[d].path] = [cache |-> caches[fd[d].path].cache,
                               size |-> caches[fd[d].path].size]
      /\ IsCache(caches[fd[d].path].cache) /\ caches[fd[d].path].size \in Nat
      /\ caches = [q \in DOMAIN caches |-> caches[q]]
  BY <1>2 DEF FilesInv, TypeOK
<1>4. fd[d].path \in orderly => Fits(entries, fd[d], caches[fd[d].path], written[fd[d].path])
  BY DEF FilesInv, HandlesInv, Sound
<1>5. fd[d] = [st |-> "open", path |-> fd[d].path, mode |-> fd[d].mode,
               pos |-> fd[d].pos, data |-> fd[d].data]
  <2>1. PICK h \in OpenFile : h = fd[d]
    BY <1>2
  <2>2. h = [st |-> h.st, path |-> h.path, mode |-> h.mode, pos |-> h.pos, data |-> h.data]
    BY <2>1 DEF OpenFile
  <2> QED BY <2>1, <2>2 DEF IsOpen
<1> QED BY <1>1, <1>2, <1>3, <1>4, <1>5

LEMMA SeekInv ==
    ASSUME FilesInv, NEW d \in Fds, NEW pos \in Nat, seek(d, pos), asyncs' \in Nat
    PROVE  FilesInv'
<1> DEFINE p == fd[d].path
           h == [fd[d] EXCEPT !.pos = pos]
           c == caches[p].cache
           n == caches[p].size
<1>1. /\ IsOpen(d) /\ fd' = [fd EXCEPT ![d].pos = pos] /\ entries' = entries
      /\ caches' = caches /\ written' = written /\ orderly' = orderly
  BY DEF seek
<1>2. h \in OpenFile /\ h.st = "open" /\ h.path = p /\ h.mode = fd[d].mode /\ h.data = fd[d].data
  <2>1. PICK g \in OpenFile : g = fd[d] /\ g.st = "open"
    BY <1>1, HandleIs DEF IsOpen
  <2>2. [g EXCEPT !.pos = pos] \in OpenFile /\ [g EXCEPT !.pos = pos].st = g.st
        /\ [g EXCEPT !.pos = pos].path = g.path /\ [g EXCEPT !.pos = pos].mode = g.mode
        /\ [g EXCEPT !.pos = pos].data = g.data
    BY DEF OpenFile
  <2> QED BY <2>1, <2>2
<1>3. fd' = [fd EXCEPT ![d] = h]
  BY <1>1
<1>4. /\ IsCache(c) /\ n \in Nat /\ caches[p] = [cache |-> c, size |-> n] /\ p \in DOMAIN caches
      /\ caches = [q \in DOMAIN caches |-> caches[q]] /\ written[p] \in Seq(Nat)
      /\ written = [q \in FilePaths |-> written[q]]
      /\ p \in orderly => Fits(entries, fd[d], caches[p], written[p])
  BY <1>1, HandleIs
<1> HIDE DEF h
<1>5. caches' = [caches EXCEPT ![p] = [cache |-> c, size |-> n]]
  <2>1. caches' = [caches EXCEPT ![p] = caches[p]]
    BY <1>1, <1>4
  <2> QED BY <1>4, <2>1
<1>6. written' = [written EXCEPT ![p] = written[p]]
  BY <1>1, <1>4
<1>7. p \in orderly' =>
             /\ n = Len(written[p]) /\ Len(h.data) = Len(written[p]) /\ Holds(c, written[p])
             /\ (h.mode = "Append" /\ p \in DOMAIN entries)
                  => Begins(entries[p].content, written[p])
  <2>1. p \in orderly' => p \in orderly
    BY <1>1
  <2> QED BY <1>2, <1>4, <2>1 DEF Fits
<1>8. orderly' \subseteq orderly
  BY <1>1
<1>9. PICK file : file = written[p]
  OBVIOUS
<1>10. PICK c1 : c1 = c
  OBVIOUS
<1>11. PICK n1 : n1 = n
  OBVIOUS
<1>12. PICK h1 : h1 = h
  OBVIOUS
<1> HIDE DEF c, n
<1>13. /\ file \in Seq(Nat) /\ written' = [written EXCEPT ![p] = file]
       /\ p \in orderly' => /\ n1 = Len(file) /\ Len(h1.data) = Len(file) /\ Holds(c1, file)
                            /\ (h1.mode = "Append" /\ p \in DOMAIN entries)
                                 => Begins(entries[p].content, file)
  BY <1>4, <1>6, <1>7, <1>9, <1>10, <1>11, <1>12
<1>14. IsCache(c1) /\ n1 \in Nat /\ caches' = [caches EXCEPT ![p] = [cache |-> c1, size |-> n1]]
  BY <1>4, <1>5, <1>10, <1>11
<1>15. h1 \in OpenFile /\ h1.st = "open" /\ h1.path = p /\ h1.mode = fd[d].mode
       /\ fd' = [fd EXCEPT ![d] = h1]
  BY <1>2, <1>3, <1>12
<1>16. Moves(d, c1, n1, h1, file)
  BY <1>1, <1>8, <1>13, <1>14, <1>15 DEF Moves
<1> QED BY <1>16, OwnStep

LEMMA TouchHolds ==
    ASSUME NEW c, IsCache(c), NEW b, NEW file, Holds(c, file)
    PROVE  Holds(touch(c, b), file)
  BY TouchIs DEF Holds, Cached, get

LEMMA ReadInv ==
    ASSUME FilesInv, NEW d \in Fds, NEW n \in 1 .. BlockSize, read(d, n), asyncs' \in Nat
    PROVE  FilesInv'
<1> DEFINE p == fd[d].path
           f == caches[p]
           pos == fd[d].pos
           b == pos \div BlockSize
           block == BlockSeen(d, b)
           in_block == Len(block) - Min2(Len(block), pos % BlockSize)
           new_pos == pos + Min2(n, Min2(in_block, f.size - pos))
           c == IF b \in Cached(f.cache) THEN touch(f.cache, b) ELSE insert(f.cache, b, block)
           h == [fd[d] EXCEPT !.pos = new_pos]
<1>1. /\ IsOpen(d) /\ pos < f.size /\ fd' = [fd EXCEPT ![d] = h]
      /\ entries' = entries /\ written' = written /\ orderly' \subseteq orderly
      /\ caches' = [caches EXCEPT ![p] = [@ EXCEPT !.cache = c]]
  BY DEF read, Disorder
<1>2. /\ fd[d] \in OpenFile /\ fd[d].st = "open" /\ p \in FilePaths /\ p \in DOMAIN caches
      /\ f = [cache |-> f.cache, size |-> f.size] /\ IsCache(f.cache) /\ f.size \in Nat
      /\ written[p] \in Seq(Nat)
      /\ caches = [q \in DOMAIN caches |-> caches[q]] /\ written = [q \in FilePaths |-> written[q]]
      /\ p \in orderly => Fits(entries, fd[d], f, written[p])
  BY <1>1, HandleIs DEF IsOpen
<1>3. pos \in Nat /\ fd[d].data \in Seq(Nat)
  BY <1>2 DEF OpenFile
<1>4. b \in Nat /\ (pos % BlockSize) \in Nat /\ b * BlockSize \in Nat /\ b * BlockSize <= pos
  <2>1. /\ b \in Nat /\ (pos % BlockSize) \in 0 .. BlockSize - 1
        /\ pos = b * BlockSize + (pos % BlockSize) /\ BlockSize \in Nat \ {0}
    BY ONLY <1>3, BlockSizeIsPositive, Division
  <2>2. b * BlockSize \in Nat
    BY <2>1, Multiples
  <2> DEFINE at == b * BlockSize
             r == pos % BlockSize
  <2> HIDE DEF at, r, b
  <2> QED BY ONLY <1>3, <2>1, <2>2 DEF at, r
<1>5. block \in Seq(Nat) /\ Len(block) \in Nat
  <2>1. b \in Cached(f.cache) => get(f.cache, b) \in Seq(Nat)
    BY <1>2 DEF IsCache, get
  <2>2. BlockOf(fd[d].data, b) \in Seq(Nat)
    BY <1>3, <1>4, BlockIs
  <2>3. block \in Seq(Nat)
    BY <2>1, <2>2 DEF BlockSeen
  <2> HIDE DEF block
  <2> QED BY <2>3
<1> HIDE DEF b
<1>6. IsCache(c)
  <2> HIDE DEF block
  <2> QED BY <1>2, <1>4, <1>5, TouchIs, InsertIs
<1>7. new_pos \in Nat
  <2> DEFINE r == pos % BlockSize
             len == Len(block)
             s == f.size
  <2>1. r \in Nat /\ len \in Nat /\ s \in Nat /\ pos \in Nat /\ pos < s /\ n \in Nat
    BY <1>1, <1>2, <1>3, <1>4, <1>5, BlockSizeIsPositive
  <2> HIDE DEF r, len, s, pos
  <2>2. len - Min2(len, r) \in Nat
    BY ONLY <2>1 DEF Min2
  <2>3. Min2(len - Min2(len, r), s - pos) \in Nat
    BY ONLY <2>1, <2>2 DEF Min2
  <2>4. pos + Min2(n, Min2(len - Min2(len, r), s - pos)) \in Nat
    BY ONLY <2>1, <2>3 DEF Min2
  <2> QED BY <2>4 DEF r, len, s
<1>8. caches' = [caches EXCEPT ![p] = [cache |-> c, size |-> f.size]]
  <2> HIDE DEF c
  <2>1. [f EXCEPT !.cache = c] = [cache |-> c, size |-> f.size]
    BY <1>2
  <2> QED BY <1>1, <2>1
<1>9. /\ h \in OpenFile /\ h.st = "open" /\ h.path = p /\ h.mode = fd[d].mode
      /\ h.data = fd[d].data
  <2> HIDE DEF new_pos
  <2>1. PICK g \in OpenFile : g = fd[d]
    BY <1>2
  <2>2. /\ [g EXCEPT !.pos = new_pos] \in OpenFile /\ [g EXCEPT !.pos = new_pos].st = g.st
        /\ [g EXCEPT !.pos = new_pos].path = g.path /\ [g EXCEPT !.pos = new_pos].mode = g.mode
        /\ [g EXCEPT !.pos = new_pos].data = g.data
    BY <1>7 DEF OpenFile
  <2> QED BY <1>2, <2>1, <2>2
<1>10. p \in orderly => Holds(c, written[p])
  <2> SUFFICES ASSUME p \in orderly PROVE Holds(c, written[p])
    OBVIOUS
  <2>1. f.size = Len(written[p]) /\ Holds(f.cache, written[p])
    BY <1>2 DEF Fits
  <2>2. b < NumBlocks(f.size) /\ NumBlocks(f.size) \in Nat
    <3>1. b * BlockSize < f.size
      BY <1>1, <1>2, <1>3, <1>4
    <3> QED BY <1>2, <1>4, <3>1, NumBlocksIs
  <2>3. b \in Cached(f.cache)
    BY <1>4, <2>1, <2>2 DEF Holds
  <2> QED BY <1>2, <2>1, <2>3, TouchHolds
<1>11. PICK c1 : c1 = c
  OBVIOUS
<1>12. PICK n1 : n1 = f.size
  OBVIOUS
<1>13. PICK h1 : h1 = h
  OBVIOUS
<1>14. PICK file : file = written[p]
  OBVIOUS
<1> HIDE DEF c, h
<1>15. Moves(d, c1, n1, h1, file)
  <2>1. p \in orderly' => p \in orderly
    BY <1>1
  <2>2. written' = [written EXCEPT ![p] = file]
    BY <1>1, <1>2, <1>14
  <2>3. p \in orderly =>
          /\ n1 = Len(file) /\ Len(h1.data) = Len(file) /\ Holds(c1, file)
          /\ (h1.mode = "Append" /\ p \in DOMAIN entries) => Begins(entries[p].content, file)
    BY <1>2, <1>9, <1>10, <1>11, <1>12, <1>13, <1>14 DEF Fits
  <2> QED BY <1>1, <1>2, <1>6, <1>8, <1>9, <1>11, <1>12, <1>13, <1>14, <2>1, <2>2, <2>3 DEF Moves
<1> QED BY <1>15, OwnStep

LEMMA MergedIs ==
    ASSUME NEW c, IsCache(c), NEW b, NEW offset \in Nat, NEW bytes \in Seq(Nat),
           NEW pad \in BOOLEAN
    PROVE  Merged(c, b, offset, bytes, pad) \in Seq(Nat)
<1> DEFINE existing == IF b \in Cached(c) THEN get(c, b)
                       ELSE Grown(<<>>, IF pad THEN BlockSize ELSE offset + Len(bytes))
           over == Grown(existing, offset + Len(bytes))
<1>1. <<>> \in Seq(Nat) /\ Len(bytes) \in Nat /\ BlockSize \in Nat
  BY BlockSizeIsPositive
<1>2. existing \in Seq(Nat)
  <2>1. b \in Cached(c) => get(c, b) \in Seq(Nat)
    BY DEF IsCache, get
  <2>2. (IF pad THEN BlockSize ELSE offset + Len(bytes)) \in Nat
    BY <1>1
  <2>3. Grown(<<>>, IF pad THEN BlockSize ELSE offset + Len(bytes)) \in Seq(Nat)
    BY <1>1, <2>2, GrownIs
  <2> QED BY <2>1, <2>3
<1>3. Merged(c, b, offset, bytes, pad) = bytes
      \/ Merged(c, b, offset, bytes, pad) = Patched(over, offset, bytes)
  BY DEF Merged
<1> HIDE DEF existing
<1>4. over \in Seq(Nat) /\ offset <= Len(over)
  <2>1. offset + Len(bytes) \in Nat /\ Len(existing) \in Nat
    BY <1>1, <1>2
  <2>2. over \in Seq(Nat) /\ Len(over) = Max2(Len(existing), offset + Len(bytes))
    BY <1>2, <2>1, GrownIs
  <2> QED BY <1>1, <2>1, <2>2 DEF Max2
<1> HIDE DEF over
<1>5. Patched(over, offset, bytes) \in Seq(Nat)
  BY <1>4, PatchedIs
<1> QED BY <1>3, <1>5

(* Writing at the end leaves a beginning as it is.                         *)
LEMMA WriteAtEnd ==
    ASSUME NEW x \in Seq(Nat), NEW file \in Seq(Nat), Begins(x, file), NEW bytes \in Seq(Nat),
           NEW pos \in Nat, pos = Len(file), NEW new,
           new = Patched(Grown(file, pos + Len(bytes)), pos, bytes)
    PROVE  Begins(x, new)
<1> DEFINE grown == Grown(file, pos + Len(bytes))
           M == pos + Len(bytes)
<1>1. Len(bytes) \in Nat /\ M \in Nat /\ Max2(Len(file), M) = M /\ Max2(M, M) = M /\ pos <= M
      /\ Len(x) \in Nat /\ Len(x) <= pos
  BY DEF Max2, Begins
<1>2. grown \in Seq(Nat) /\ Len(grown) = M
      /\ \A i \in 1 .. M : grown[i] = IF i <= Len(file) THEN file[i] ELSE 0
  BY <1>1, GrownIs
<1> HIDE DEF grown
<1>3. new \in Seq(Nat) /\ Len(new) = M
      /\ \A i \in 1 .. M : new[i] = IF i > pos /\ i <= M THEN bytes[i - pos] ELSE grown[i]
  <2>1. new = Patched(grown, pos, bytes)
    BY DEF grown
  <2>2. grown \in Seq(Nat) /\ bytes \in Seq(Nat) /\ pos \in Nat /\ pos <= Len(grown)
    BY <1>1, <1>2
  <2>3. /\ new \in Seq(Nat) /\ Len(new) = Max2(Len(grown), pos + Len(bytes))
        /\ \A i \in 1 .. Max2(Len(grown), pos + Len(bytes)) :
             new[i] = IF i > pos /\ i <= pos + Len(bytes) THEN bytes[i - pos] ELSE grown[i]
    BY ONLY <2>1, <2>2, PatchedIs
  <2>4. Max2(Len(grown), pos + Len(bytes)) = M /\ pos + Len(bytes) = M
    BY ONLY <1>1, <1>2
  <2> QED BY ONLY <2>3, <2>4
<1> HIDE DEF M
<1>4. Len(x) \in 0 .. Len(new) /\ Len(x) \in 0 .. Len(file)
  BY <1>1, <1>3
<1>5. \A i \in 1 .. Len(x) : new[i] = file[i]
  <2> SUFFICES ASSUME NEW i \in 1 .. Len(x) PROVE new[i] = file[i]
    OBVIOUS
  <2>1. i \in 1 .. M /\ ~(i > pos) /\ i <= Len(file)
    BY <1>1
  <2> QED BY <1>2, <1>3, <2>1
<1> DEFINE u == Prefix(new, Len(x))
           v == Prefix(file, Len(x))
<1>6. u \in Seq(Nat) /\ Len(u) = Len(x) /\ \A i \in 1 .. Len(x) : u[i] = new[i]
  BY ONLY <1>3, <1>4, PrefixIs DEF u
<1>7. v = x /\ v \in Seq(Nat) /\ Len(v) = Len(x) /\ \A i \in 1 .. Len(x) : v[i] = file[i]
  BY <1>4, PrefixIs DEF Begins
<1> HIDE DEF u, v
<1>8. \A i \in 1 .. Len(u) : u[i] = v[i]
  BY <1>5, <1>6, <1>7
<1>9. u = v
  BY ONLY <1>6, <1>7, <1>8, SeqEqual
<1> QED BY <1>1, <1>3, <1>7, <1>9 DEF Begins, u

(* The cache with the block that was written.                              *)
LEMMA WriteHolds ==
    ASSUME NEW c, IsCache(c), NEW file, NEW pos, NEW bytes, NEW pad, NEW b, NEW offset,
           NEW block, NEW new, Writes(file, c, pos, bytes, pad, b, offset, block, new), ~Full(c, b)
    PROVE  Holds(insert(c, b, block), new)
<1>0. /\ file \in Seq(Nat) /\ Holds(c, file) /\ new \in Seq(Nat) /\ b \in Nat
      /\ block = BlockOf(new, b)
      /\ \A k \in Nat : k # b /\ k < NumBlocks(Len(file)) => BlockOf(new, k) = BlockOf(file, k)
      /\ 0 .. NumBlocks(Len(new)) - 1 = (0 .. NumBlocks(Len(file)) - 1) \cup {b}
  <2>1. /\ b \in Nat /\ new \in Seq(Nat) /\ block = BlockOf(new, b)
        /\ \A k \in Nat : k # b /\ k < NumBlocks(Len(file))
                            => BlockOf(new, k) = BlockOf(file, k)
        /\ 0 .. NumBlocks(Len(new)) - 1 = (0 .. NumBlocks(Len(file)) - 1) \cup {b}
    BY ONLY WriteIs, Writes(file, c, pos, bytes, pad, b, offset, block, new)
  <2>2. file \in Seq(Nat) /\ Holds(c, file)
    BY DEF Writes
  <2> QED BY ONLY <2>1, <2>2
<1> USE <1>0
<1> DEFINE i == insert(c, b, block)
<1>1. block \in Seq(Nat) /\ Len(file) \in Nat
  BY BlockIs
<1>2. /\ Cached(i) = Cached(c) \cup {b}
      /\ \A n \in Cached(c) \cup {b} : get(i, n) = IF n = b THEN block ELSE get(c, n)
  BY <1>1, InsertIs
<1>3. Cached(i) = 0 .. NumBlocks(Len(new)) - 1
  BY <1>2 DEF Holds
<1>4. ASSUME NEW k \in Cached(i) PROVE get(i, k) = BlockOf(new, k)
  <2>1. CASE k = b
    BY <1>2, <2>1
  <2>2. CASE k # b
    <3>1. k \in Cached(c) /\ get(i, k) = get(c, k)
      BY <1>2, <2>2
    <3>2. k \in Nat /\ k < NumBlocks(Len(file))
      <4>1. NumBlocks(Len(file)) \in Nat /\ k \in 0 .. NumBlocks(Len(file)) - 1
        BY <1>1, <3>1, NumBlocksIs DEF Holds
      <4> QED BY ONLY <4>1
    <3> QED BY <2>2, <3>1, <3>2 DEF Holds
  <2> QED BY <2>1, <2>2
<1> QED BY <1>3, <1>4 DEF Holds

(* The bytes that are written, and what is put together from them.         *)
Puts(n, byte, pos, b, offset, bytes, c, pad, block, old, data, file, new) ==
  /\ n \in 1 .. BlockSize /\ byte \in Nat /\ pad \in BOOLEAN /\ pos \in Nat /\ IsCache(c)
  /\ old \in Seq(Nat) /\ file \in Seq(Nat)
  /\ b = pos \div BlockSize /\ offset = pos % BlockSize
  /\ bytes = [i \in 1 .. Min2(n, BlockSize - offset) |-> byte]
  /\ block = Merged(c, b, offset, bytes, pad)
  /\ data = Patched(Grown(old, b * BlockSize + Len(block)), b * BlockSize, block)
  /\ new = Patched(Grown(file, pos + Len(bytes)), pos, bytes)

LEMMA WriteTyped ==
    ASSUME NEW n, NEW byte, NEW pos, NEW b, NEW offset, NEW bytes, NEW c, NEW pad, NEW block,
           NEW old, NEW data, NEW file, NEW new,
           Puts(n, byte, pos, b, offset, bytes, c, pad, block, old, data, file, new)
    PROVE  /\ b \in Nat /\ bytes \in Seq(Nat) /\ Len(bytes) \in Nat /\ Len(bytes) > 0
           /\ offset + Len(bytes) <= BlockSize
           /\ block \in Seq(Nat) /\ data \in Seq(Nat) /\ new \in Seq(Nat)
           /\ Len(data) = Max2(Len(old), b * BlockSize + Len(block))
<1>0. /\ n \in 1 .. BlockSize /\ byte \in Nat /\ pad \in BOOLEAN /\ pos \in Nat /\ IsCache(c)
      /\ old \in Seq(Nat) /\ file \in Seq(Nat)
      /\ b = pos \div BlockSize /\ offset = pos % BlockSize
      /\ bytes = [i \in 1 .. Min2(n, BlockSize - offset) |-> byte]
      /\ block = Merged(c, b, offset, bytes, pad)
      /\ data = Patched(Grown(old, b * BlockSize + Len(block)), b * BlockSize, block)
      /\ new = Patched(Grown(file, pos + Len(bytes)), pos, bytes)
  BY DEF Puts
<1> USE <1>0
<1>1. b \in Nat /\ offset \in 0 .. BlockSize - 1 /\ BlockSize \in Nat \ {0}
  BY ONLY BlockSizeIsPositive, Division, b = pos \div BlockSize, offset = pos % BlockSize, pos \in Nat
<1>2. b * BlockSize \in Nat
  BY <1>1, Multiples
<1> DEFINE m == Min2(n, BlockSize - offset)
           at == b * BlockSize
<1>3. m \in Nat /\ m > 0 /\ offset + m <= BlockSize /\ offset \in Nat
  BY <1>1 DEF Min2
<1>4. bytes = [i \in 1 .. m |-> byte]
  OBVIOUS
<1> HIDE DEF m
<1>5. bytes \in Seq(Nat) /\ Len(bytes) = m
  BY ONLY <1>3, <1>4, byte \in Nat
<1>6. block \in Seq(Nat) /\ Len(block) \in Nat
  <2>1. block \in Seq(Nat)
    BY <1>3, <1>5, MergedIs
  <2> QED BY ONLY <2>1
<1> DEFINE grown == Grown(old, at + Len(block))
<1>7. data = Patched(grown, at, block) /\ at \in Nat
  BY <1>2
<1> HIDE DEF at
<1>8. at + Len(block) \in Nat
  BY <1>6, <1>7
<1>9. grown \in Seq(Nat) /\ Len(grown) = Max2(Len(old), at + Len(block))
  BY <1>8, GrownIs
<1>10. at <= Len(grown) /\ Len(old) \in Nat
  BY <1>6, <1>7, <1>9 DEF Max2
<1> HIDE DEF grown
<1>11. data \in Seq(Nat) /\ Len(data) = Max2(Len(grown), at + Len(block))
  BY <1>6, <1>7, <1>9, <1>10, PatchedIs
<1>12. Len(data) = Max2(Len(old), at + Len(block))
  BY ONLY <1>6, <1>7, <1>9, <1>10, <1>11 DEF Max2
<1> DEFINE wide == Grown(file, pos + m)
<1>13. pos + m \in Nat /\ Len(file) \in Nat
  BY <1>3
<1>14. wide \in Seq(Nat) /\ Len(wide) = Max2(Len(file), pos + m)
  BY <1>13, GrownIs
<1>15. pos <= Len(wide) /\ new = Patched(wide, pos, bytes)
  <2>1. pos <= Len(wide)
    BY ONLY pos \in Nat, <1>3, <1>13, <1>14 DEF Max2
  <2> QED BY <1>5, <2>1
<1> HIDE DEF wide
<1>16. new \in Seq(Nat)
  BY ONLY <1>5, <1>14, <1>15, pos \in Nat, PatchedIs
<1> QED BY <1>1, <1>3, <1>5, <1>6, <1>11, <1>12, <1>16 DEF at

LEMMA WriteInv ==
    ASSUME FilesInv, NEW d \in Fds, NEW n \in 1 .. BlockSize, NEW byte \in Nat,
           NEW pad \in BOOLEAN, write(d, n, byte, pad), asyncs' \in Nat
    PROVE  FilesInv'
<1> DEFINE p == fd[d].path
           f == caches[p]
           pos == fd[d].pos
           b == pos \div BlockSize
           offset == pos % BlockSize
           bytes == [i \in 1 .. Min2(n, BlockSize - offset) |-> byte]
           block == Merged(f.cache, b, offset, bytes, pad)
           data == Patched(Grown(fd[d].data, b * BlockSize + Len(block)), b * BlockSize, block)
           new_pos == pos + Len(bytes)
           padded == pad /\ b \notin Cached(f.cache) /\ Len(bytes) < BlockSize
           c == insert(f.cache, b, block)
           size == IF pad THEN Len(data) ELSE Max2(Len(data), new_pos)
           h == [fd[d] EXCEPT !.data = data, !.pos = new_pos]
           new == Patched(Grown(written[p], new_pos), pos, bytes)
           bad == \/ ~SafeHole(pos, f.size)
                  \/ fd[d].mode = "Append" /\ pos # f.size
                  \/ padded
                  \/ Full(f.cache, b)
<1>1. /\ IsOpen(d) /\ fd' = [fd EXCEPT ![d].data = data, ![d].pos = new_pos]
      /\ entries' = entries /\ written' = [written EXCEPT ![p] = Patched(Grown(@, new_pos), pos, bytes)]
      /\ orderly' = IF bad THEN orderly \ {p} ELSE orderly
      /\ caches' = [caches EXCEPT ![p] = [cache |-> insert(@.cache, b, block), size |-> size]]
  BY DEF write, Disorder
<1>2. /\ fd[d] \in OpenFile /\ fd[d].st = "open" /\ p \in FilePaths /\ p \in DOMAIN caches
      /\ IsCache(f.cache) /\ f.size \in Nat /\ written[p] \in Seq(Nat)
      /\ caches = [q \in DOMAIN caches |-> caches[q]] /\ written = [q \in FilePaths |-> written[q]]
      /\ fd = [o \in Fds |-> fd[o]]
      /\ p \in orderly => Fits(entries, fd[d], f, written[p])
  BY <1>1, HandleIs DEF IsOpen
<1>3. pos \in Nat /\ fd[d].data \in Seq(Nat)
  BY <1>2 DEF OpenFile
<1>4. PICK b1, o1, bytes1, block1, data1, new1 :
        /\ b1 = b /\ o1 = offset /\ bytes1 = bytes /\ block1 = block /\ data1 = data /\ new1 = new
  OBVIOUS
<1>5. PICK c1, size1, h1, old, file, f1, pos1 :
        /\ c1 = c /\ size1 = size /\ h1 = h /\ old = fd[d].data /\ file = written[p] /\ f1 = f
        /\ pos1 = pos
  OBVIOUS
<1>6. /\ pos1 \in Nat /\ old \in Seq(Nat) /\ file \in Seq(Nat) /\ IsCache(f1.cache)
      /\ b1 = pos1 \div BlockSize /\ o1 = pos1 % BlockSize
      /\ bytes1 = [i \in 1 .. Min2(n, BlockSize - o1) |-> byte]
      /\ block1 = Merged(f1.cache, b1, o1, bytes1, pad)
      /\ data1 = Patched(Grown(old, b1 * BlockSize + Len(block1)), b1 * BlockSize, block1)
      /\ new1 = Patched(Grown(file, pos1 + Len(bytes1)), pos1, bytes1)
      /\ c1 = insert(f1.cache, b1, block1)
      /\ size1 = IF pad THEN Len(data1) ELSE Max2(Len(data1), pos1 + Len(bytes1))
      /\ h1 = [fd[d] EXCEPT !.data = data1, !.pos = pos1 + Len(bytes1)]
      /\ bad <=> \/ ~SafeHole(pos1, f1.size)
                 \/ fd[d].mode = "Append" /\ pos1 # f1.size
                 \/ pad /\ b1 \notin Cached(f1.cache) /\ Len(bytes1) < BlockSize
                 \/ Full(f1.cache, b1)
  BY <1>2, <1>3, <1>4, <1>5
<1>7. /\ fd' = [fd EXCEPT ![d] = h1] /\ written' = [written EXCEPT ![p] = new1]
      /\ caches' = [caches EXCEPT ![p] = [cache |-> c1, size |-> size1]]
  <2>1. fd' = [fd EXCEPT ![d] = h]
    <3> HIDE DEF data, new_pos
    <3> QED BY <1>1, <1>2
  <2> QED BY <1>1, <1>2, <1>4, <1>5, <2>1
<1> HIDE DEF bad, b, offset, bytes, block, data, new_pos, padded, c, size, h, new
<1>8. /\ b1 \in Nat /\ bytes1 \in Seq(Nat) /\ Len(bytes1) \in Nat /\ Len(bytes1) > 0
      /\ o1 + Len(bytes1) <= BlockSize
      /\ block1 \in Seq(Nat) /\ data1 \in Seq(Nat) /\ new1 \in Seq(Nat)
      /\ Len(data1) = Max2(Len(old), b1 * BlockSize + Len(block1))
  <2>1. Puts(n, byte, pos1, b1, o1, bytes1, f1.cache, pad, block1, old, data1, file, new1)
    BY ONLY <1>6, n \in 1 .. BlockSize, byte \in Nat, pad \in BOOLEAN DEF Puts
  <2> QED BY ONLY <2>1, WriteTyped
<1>9. IsCache(c1) /\ size1 \in Nat /\ pos1 + Len(bytes1) \in Nat
  <2>1. IsCache(c1)
    BY <1>6, <1>8, InsertIs
  <2>2. size1 \in Nat /\ pos1 + Len(bytes1) \in Nat
    <3>1. /\ Len(data1) \in Nat /\ pos1 \in Nat /\ Len(bytes1) \in Nat
      <4>1. pos1 \in Nat
        BY ONLY <1>6
      <4>2. data1 \in Seq(Nat) /\ Len(bytes1) \in Nat
        BY ONLY <1>8
      <4> QED BY ONLY <4>1, <4>2
    <3>2. size1 = IF pad THEN Len(data1) ELSE Max2(Len(data1), pos1 + Len(bytes1))
      BY ONLY <1>6
    <3> QED BY ONLY <3>1, <3>2 DEF Max2
  <2> QED BY <2>1, <2>2
<1>10. /\ h1 \in OpenFile /\ h1.st = "open" /\ h1.path = p /\ h1.mode = fd[d].mode
       /\ h1.data = data1
  <2>1. PICK g \in OpenFile : g = fd[d]
    BY <1>2
  <2>2. PICK to \in Nat : to = pos1 + Len(bytes1)
    BY <1>9
  <2>3. h1 = [g EXCEPT !.data = data1, !.pos = to]
    BY <1>6, <2>1, <2>2
  <2>4. /\ h1 \in OpenFile /\ h1.st = g.st /\ h1.path = g.path /\ h1.mode = g.mode
        /\ h1.data = data1
    BY ONLY <1>8, <2>1, <2>2, <2>3, g \in OpenFile, to \in Nat DEF OpenFile
  <2> QED BY <1>2, <2>1, <2>4
<1>11. ASSUME p \in orderly'
       PROVE  /\ size1 = Len(new1) /\ Len(data1) = Len(new1) /\ Holds(c1, new1)
              /\ (h1.mode = "Append" /\ p \in DOMAIN entries) => Begins(entries[p].content, new1)
  <2>1. p \in orderly /\ ~bad
    BY <1>1, <1>11
  <2>2. /\ f1.size = Len(file) /\ Holds(f1.cache, file) /\ Len(old) = Len(file)
        /\ (fd[d].mode = "Append" /\ p \in DOMAIN entries) => Begins(entries[p].content, file)
    BY <1>2, <1>5, <2>1 DEF Fits
  <2>3. Writes(file, f1.cache, pos1, bytes1, pad, b1, o1, block1, new1)
    <3>1. /\ SafeHole(pos1, Len(file)) /\ (pos1 % BlockSize) + Len(bytes1) <= BlockSize
          /\ ~(pad /\ pos1 \div BlockSize \notin Cached(f1.cache) /\ Len(bytes1) < BlockSize)
      BY <1>6, <1>8, <2>1, <2>2
    <3> QED BY ONLY <1>6, <1>8, <2>2, <3>1, pad \in BOOLEAN DEF Writes
  <2>4. /\ b1 * BlockSize \in Nat /\ Len(new1) = Max2(Len(file), pos1 + Len(bytes1))
        /\ block1 = BlockOf(new1, b1)
        /\ Max2(Len(file), b1 * BlockSize + Len(block1)) = Len(new1)
        /\ \A k \in Nat : k # b1 /\ k < NumBlocks(Len(file))
                            => BlockOf(new1, k) = BlockOf(file, k)
        /\ 0 .. NumBlocks(Len(new1)) - 1 = (0 .. NumBlocks(Len(file)) - 1) \cup {b1}
    BY ONLY <2>3, WriteIs
  <2>5. Len(data1) = Len(new1)
    BY <1>8, <2>2, <2>4
  <2>6. size1 = Len(new1)
    <3>1. /\ Len(new1) = Max2(Len(file), pos1 + Len(bytes1)) /\ Len(data1) = Len(new1)
          /\ Len(file) \in Nat /\ pos1 + Len(bytes1) \in Nat
      <4>1. file \in Seq(Nat)
        BY ONLY <1>6
      <4>2. Len(new1) = Max2(Len(file), pos1 + Len(bytes1))
        BY ONLY <2>4
      <4> QED BY ONLY <1>9, <2>5, <4>1, <4>2
    <3>2. size1 = IF pad THEN Len(data1) ELSE Max2(Len(data1), pos1 + Len(bytes1))
      BY ONLY <1>6
    <3> QED BY ONLY <3>1, <3>2 DEF Max2
  <2>7. Holds(c1, new1)
    <3>1. ~Full(f1.cache, b1)
      BY <1>6, <2>1
    <3> QED BY ONLY <1>6, <2>3, <3>1, WriteHolds
  <2>8. ASSUME h1.mode = "Append", p \in DOMAIN entries PROVE Begins(entries[p].content, new1)
    <3>1. fd[d].mode = "Append" /\ Begins(entries[p].content, file)
      BY <1>10, <2>2, <2>8
    <3>2. pos1 = Len(file)
      BY <1>6, <2>1, <2>2, <3>1
    <3>3. PICK x : x = entries[p].content
      OBVIOUS
    <3>4. x \in Seq(Nat) /\ Begins(x, file)
      BY <2>8, <3>1, <3>3 DEF FilesInv, TypeOK, Typed, Entry
    <3>5. Begins(x, new1)
      BY ONLY <1>6, <1>8, <3>2, <3>4, WriteAtEnd
    <3> QED BY <3>3, <3>5
  <2> QED BY <2>5, <2>6, <2>7, <2>8
<1>12. orderly' \subseteq orderly
  BY <1>1
<1>13. Moves(d, c1, size1, h1, new1)
  BY <1>1, <1>7, <1>8, <1>9, <1>10, <1>11, <1>12 DEF Moves
<1> QED BY <1>13, OwnStep

(* close                                                                   *)
LEMMA InsertFileIs ==
    ASSUME NEW e, Typed(e), NEW p \in Paths, NEW content \in Seq(Nat),
           NEW permission \in Permissions, NEW f, f = insert_file(e, p, content, permission)
    PROVE  /\ Typed(f)
           /\ \A q \in DOMAIN e : q # p => q \in DOMAIN f /\ f[q] = e[q]
           /\ IsDir(e, parent_of(p)) => f = With(e, p, File(content, permission))
<1> DEFINE parents == {Prefix(p, n) : n \in 1 .. Len(p) - 1}
           g == IF p # Root /\ parent_of(p) \notin DOMAIN e
                THEN WithAll(e, parents, Directory(permission)) ELSE e
           entry == File(content, permission)
<1>1. f = With(g, p, entry)
  BY DEF insert_file
<1>2. entry \in Entry /\ Directory(permission) \in Entry
  BY NewEntriesTyped
<1> HIDE DEF entry
<1>3. parents \in SUBSET Paths
  <2>1. Len(p) \in Nat
    BY PathsAreTrees
  <2>2. \A n \in 1 .. Len(p) - 1 : n \in 0 .. Len(p)
    BY ONLY <2>1
  <2> QED BY <2>2, PrefixesArePaths
<1> HIDE DEF parents
<1>4. Typed(g) /\ \A q \in DOMAIN e : q \in DOMAIN g /\ g[q] = e[q]
  <2>1. CASE p # Root /\ parent_of(p) \notin DOMAIN e
    <3>1. PICK dir \in Entry : dir = Directory(permission)
      BY <1>2
    <3>2. g = WithAll(e, parents, dir)
      BY <2>1, <3>1
    <3> DEFINE all == WithAll(e, parents, dir)
    <3>3. /\ Typed(all) /\ DOMAIN all = DOMAIN e \cup parents
          /\ \A q \in DOMAIN e : all[q] = e[q]
          /\ \A q \in parents : q \notin DOMAIN e => all[q] = dir
      BY <1>3, WithAllIs
    <3> HIDE DEF all
    <3> QED BY <3>2, <3>3 DEF all
  <2>2. CASE ~(p # Root /\ parent_of(p) \notin DOMAIN e)
    BY <2>2
  <2> QED BY <2>1, <2>2
<1>5. IsDir(e, parent_of(p)) => g = e
  BY DEF IsDir
<1> HIDE DEF g
<1>6. /\ Typed(f) /\ DOMAIN f = DOMAIN g \cup {p}
      /\ \A q \in DOMAIN g : q # p => f[q] = g[q]
  <2>1. PICK e1 : e1 = g
    OBVIOUS
  <2>2. LET new == With(e1, p, entry) IN
        /\ Typed(new) /\ DOMAIN new = DOMAIN e1 \cup {p}
        /\ \A q \in DOMAIN e1 : q # p => new[q] = e1[q]
    BY <1>2, <1>4, <2>1, WithIs
  <2> QED BY <1>1, <2>1, <2>2
<1> QED BY <1>1, <1>4, <1>5, <1>6 DEF entry

(* What a close leaves in the tree.                                        *)
LEMMA CloseIs ==
    ASSUME FilesInv, NEW d \in Fds, close(d), NEW p, p = fd[d].path
    PROVE  /\ Typed(entries')
           /\ \A q \in DOMAIN entries : q # p => q \in DOMAIN entries' /\ entries'[q] = entries[q]
           /\ ~can_write(fd[d].mode) => entries' = entries
           /\ (p \in orderly /\ can_write(fd[d].mode)) =>
                entries' = With(entries, p, File(written[p], PermissionNow(entries, p)))
<1>1. /\ IsOpen(d)
      /\ entries' = IF can_write(fd[d].mode)
                    THEN insert_file(entries, p, Reconstruct(caches[p].cache, caches[p].size),
                                     PermissionNow(entries, p))
                    ELSE entries
  BY DEF close
<1>2. /\ p \in FilePaths /\ p \in Paths /\ Typed(entries)
      /\ IsCache(caches[p].cache) /\ caches[p].size \in Nat /\ written[p] \in Seq(Nat)
      /\ p \in orderly => Fits(entries, fd[d], caches[p], written[p])
  BY <1>1, HandleIs, FilesArePaths DEF FilesInv, TypeOK
<1>3. PermissionNow(entries, p) \in Permissions
  BY <1>2 DEF PermissionNow, Typed, Entry, Permissions
<1>4. PICK content : content = Reconstruct(caches[p].cache, caches[p].size)
  OBVIOUS
<1>5. content \in Seq(Nat) /\ (p \in orderly => content = written[p])
  BY <1>2, <1>4, ReconstructIs DEF Fits
<1>6. PICK permission \in Permissions : permission = PermissionNow(entries, p)
  BY <1>3
<1>7. CASE can_write(fd[d].mode)
  <2>1. entries' = insert_file(entries, p, content, permission)
    BY <1>1, <1>4, <1>6, <1>7
  <2>2. /\ Typed(entries')
        /\ \A q \in DOMAIN entries : q # p => q \in DOMAIN entries' /\ entries'[q] = entries[q]
        /\ IsDir(entries, parent_of(p)) => entries' = With(entries, p, File(content, permission))
    BY <1>2, <1>5, <2>1, InsertFileIs
  <2>3. p \in orderly => IsDir(entries, parent_of(p))
    BY <1>1, <1>2 DEF Fits
  <2> QED BY <1>5, <1>6, <1>7, <2>2, <2>3
<1>8. CASE ~can_write(fd[d].mode)
  BY <1>1, <1>2, <1>8
<1> QED BY <1>7, <1>8

LEMMA CloseInv ==
    ASSUME FilesInv, NEW d \in Fds, close(d), asyncs' \in Nat
    PROVE  FilesInv'
<1>1. PICK p : p = fd[d].path
  OBVIOUS
<1> DEFINE writes == can_write(fd[d].mode)
<1>2. /\ IsOpen(d) /\ fd' = [fd EXCEPT ![d] = ClosedFile] /\ written' = written
      /\ caches' = IF HandlesOf(p) = {d} THEN [q \in DOMAIN caches \ {p} |-> caches[q]]
                   ELSE IF writes
                   THEN [caches EXCEPT ![p].cache = Visited(@, caches[p].size)]
                   ELSE caches
      /\ orderly' = orderly \ (Disturbed(entries, entries') \ {p})
  BY <1>1 DEF close
<1>3. /\ p \in FilePaths /\ p \in DOMAIN caches /\ CachesTyped(caches)
      /\ IsCache(caches[p].cache) /\ caches[p].size \in Nat
      /\ caches[p] = [cache |-> caches[p].cache, size |-> caches[p].size]
      /\ fd \in [Fds -> OpenFile]
      /\ p \in orderly => Fits(entries, fd[d], caches[p], written[p])
  BY <1>1, <1>2, HandleIs DEF FilesInv, TypeOK, CachesTyped
<1>4. /\ Typed(entries')
      /\ \A q \in DOMAIN entries : q # p => q \in DOMAIN entries' /\ entries'[q] = entries[q]
      /\ ~writes => entries' = entries
      /\ (p \in orderly /\ writes) =>
           entries' = With(entries, p, File(written[p], PermissionNow(entries, p)))
  BY <1>1, CloseIs
<1> HIDE DEF writes
<1>5. ClosedFile \in OpenFile /\ ClosedFile.st = "closed"
  <2>1. <<>> \in Seq(Nat) /\ Root \in Paths /\ "Read" \in Modes
    BY PathsAreTrees DEF Root, Modes
  <2> QED BY <2>1 DEF ClosedFile, OpenFile
<1>6. /\ fd' \in [Fds -> OpenFile] /\ fd'[d] = ClosedFile
      /\ \A o \in Fds : o # d => fd'[o] = fd[o]
  BY <1>2, <1>3, <1>5
<1>7. /\ CachesTyped(caches')
      /\ DOMAIN caches' = IF HandlesOf(p) = {d} THEN DOMAIN caches \ {p} ELSE DOMAIN caches
      /\ \A q \in DOMAIN caches : q # p => caches'[q] = caches[q]
  <2>1. CASE HandlesOf(p) = {d}
    <3>1. caches' = [q \in DOMAIN caches \ {p} |-> caches[q]]
      BY <1>2, <2>1
    <3>2. /\ DOMAIN caches' = DOMAIN caches \ {p}
          /\ \A q \in DOMAIN caches' : caches'[q] = caches[q]
      BY <3>1
    <3>3. \A q \in DOMAIN caches' :
            /\ caches'[q] = [cache |-> caches'[q].cache, size |-> caches'[q].size]
            /\ IsCache(caches'[q].cache) /\ caches'[q].size \in Nat
      BY <1>3, <3>2 DEF CachesTyped
    <3>4. caches' = [q \in DOMAIN caches' |-> [cache |-> caches'[q].cache, size |-> caches'[q].size]]
      BY <3>1, <3>2, <3>3
    <3> QED BY <2>1, <3>2, <3>3, <3>4 DEF CachesTyped
  <2>2. CASE HandlesOf(p) # {d} /\ writes
    <3>1. PICK c : c = Visited(caches[p].cache, caches[p].size)
      OBVIOUS
    <3>2. IsCache(c)
      BY <1>3, <3>1, VisitedIs
    <3>3. PICK n \in Nat : n = caches[p].size
      BY <1>3
    <3>4. caches' = [caches EXCEPT ![p] = [@ EXCEPT !.cache = c]]
      BY <1>2, <2>2, <3>1
    <3>5. [caches[p] EXCEPT !.cache = c] = [cache |-> c, size |-> n]
      BY <1>3, <3>3
    <3>6. caches' = [caches EXCEPT ![p] = [cache |-> c, size |-> n]]
      BY <3>4, <3>5
    <3> QED BY <1>3, <2>2, <3>2, <3>6, PutCache
  <2>3. CASE HandlesOf(p) # {d} /\ ~writes
    BY <1>2, <1>3, <2>3
  <2> QED BY <2>1, <2>2, <2>3
<1>8. TypeOK'
  <2>1. ASSUME NEW q \in FilePaths
        PROVE  {o \in Fds : fd'[o].st = "open" /\ fd'[o].path = q} = HandlesOf(q) \ {d}
    BY <1>5, <1>6 DEF HandlesOf, IsOpen
  <2>2. d \in HandlesOf(p) /\ \A q \in FilePaths : q # p => d \notin HandlesOf(q)
    BY <1>1, <1>2 DEF HandlesOf
  <2>3. ASSUME NEW q \in FilePaths
        PROVE  q \in DOMAIN caches' <=> HandlesOf(q) \ {d} # {}
    <3>1. q \in DOMAIN caches <=> HandlesOf(q) # {}
      BY DEF FilesInv, TypeOK
    <3> QED BY <1>7, <2>2, <3>1
  <2>4. DOMAIN caches' \subseteq FilePaths
    BY <1>7 DEF FilesInv, TypeOK
  <2>5. DOMAIN caches' = {q \in FilePaths : {o \in Fds : fd'[o].st = "open" /\ fd'[o].path = q} # {}}
    BY <2>1, <2>3, <2>4
  <2>6. \A o \in Fds : fd'[o].st = "open" => fd'[o].path \in FilePaths
    BY <1>5, <1>6 DEF FilesInv, TypeOK, IsOpen
  <2>7. orderly' \subseteq FilePaths /\ written' \in [FilePaths -> Seq(Nat)]
    BY <1>2 DEF FilesInv, TypeOK
  <2> QED BY <1>4, <1>6, <1>7, <2>5, <2>6, <2>7 DEF TypeOK, CachesTyped, HandlesOf, IsOpen
<1>9. HandlesInv'
  <2> SUFFICES ASSUME NEW o \in Fds, IsOpen(o)', fd'[o].path \in orderly' PROVE Sound(o)'
    BY DEF HandlesInv
  <2>1. o # d /\ fd'[o] = fd[o] /\ IsOpen(o) /\ fd[o].path \in orderly /\ fd[o].path \in orderly'
    BY <1>2, <1>5, <1>6 DEF IsOpen
  <2>2. Sound(o) /\ fd[o].path # p /\ fd[o].path \in FilePaths
    BY <1>1, <1>2, <2>1, OwnPath DEF FilesInv, HandlesInv, TypeOK
  <2>3. SameEntry(entries, entries', fd[o].path) /\ SameEntry(entries, entries', parent_of(fd[o].path))
    <3>1. HandlesOf(fd[o].path) # {}
      BY <2>1 DEF HandlesOf
    <3>2. fd[o].path \notin Disturbed(entries, entries')
      BY <1>2, <2>1, <2>2
    <3> QED BY <2>2, <3>1, <3>2, NotDisturbed
  <2>4. caches'[fd[o].path] = caches[fd[o].path] /\ written'[fd[o].path] = written[fd[o].path]
    <3>1. fd[o].path \in DOMAIN caches
      BY <2>1, <2>2 DEF FilesInv, TypeOK, HandlesOf
    <3> QED BY <1>2, <1>7, <2>2, <3>1
  <2>5. \A i \in Fds : (fd'[i].st = "open" /\ fd'[i].path = fd[o].path)
                         => (IsOpen(i) /\ fd[i].path = fd[o].path)
    BY <1>5, <1>6 DEF IsOpen
  <2> QED BY <2>1, <2>2, <2>3, <2>4, <2>5, SoundStays
<1> QED BY <1>8, <1>9 DEF FilesInv

-----------------------------------------------------------------------------
(* The invariant.                                                          *)

LEMMA InitInv == Init => FilesInv
<1> SUFFICES ASSUME Init PROVE FilesInv
  OBVIOUS
<1>1. /\ entries = NewEntries /\ caches = <<>> /\ fd = [d \in Fds |-> ClosedFile]
      /\ written = [p \in FilePaths |-> <<>>] /\ orderly = FilePaths /\ asyncs = 0
  BY DEF Init, VfsInit
<1>2. ClosedFile \in OpenFile /\ ClosedFile.st = "closed"
  <2>1. <<>> \in Seq(Nat) /\ Root \in Paths /\ "Read" \in Modes
    BY PathsAreTrees DEF Root, Modes
  <2> QED BY <2>1 DEF ClosedFile, OpenFile
<1>3. fd \in [Fds -> OpenFile] /\ \A d \in Fds : ~IsOpen(d)
  BY <1>1, <1>2 DEF IsOpen
<1>4. \A p \in FilePaths : HandlesOf(p) = {}
  BY <1>3 DEF HandlesOf
<1>5. DOMAIN caches = {}
  BY <1>1
<1>6. caches = [p \in DOMAIN caches |-> [cache |-> caches[p].cache, size |-> caches[p].size]]
  BY <1>1, <1>5
<1>7. written \in [FilePaths -> Seq(Nat)]
  <2>1. <<>> \in Seq(Nat)
    OBVIOUS
  <2> QED BY <1>1, <2>1
<1>8. TypeOK
  BY <1>1, <1>3, <1>4, <1>5, <1>6, <1>7, InitKeeps DEF TypeOK
<1>9. HandlesInv
  BY <1>1, <1>3 DEF HandlesInv
<1> QED BY <1>8, <1>9 DEF FilesInv

LEMMA NextInv == FilesInv /\ [Next]_vars => FilesInv'
<1>1. ASSUME FilesInv, Sync PROVE FilesInv'
  BY <1>1, SyncInv
<1>2. ASSUME FilesInv, Async PROVE FilesInv'
  <2>1. asyncs + 1 \in Nat /\ asyncs' \in Nat
    BY <1>2 DEF Async, FilesInv, TypeOK
  <2>2. PICK d \in Fds :
           \/ \E p \in FilePaths, mode \in Modes : open(d, p, mode)
           \/ close(d)
           \/ \E n \in 1 .. BlockSize :
                read(d, n) \/ \E pad \in BOOLEAN : write(d, n, asyncs + 1, pad)
           \/ \E pos \in 0 .. MaxLen : seek(d, pos)
    BY <1>2 DEF Async
  <2>3. CASE \E p \in FilePaths, mode \in Modes : open(d, p, mode)
    BY <1>2, <2>1, <2>3, OpenInv
  <2>4. CASE close(d)
    BY <1>2, <2>1, <2>4, CloseInv
  <2>5. ASSUME NEW n \in 1 .. BlockSize, read(d, n) PROVE FilesInv'
    BY <1>2, <2>1, <2>5, ReadInv
  <2>6. ASSUME NEW n \in 1 .. BlockSize, NEW pad \in BOOLEAN, write(d, n, asyncs + 1, pad)
        PROVE  FilesInv'
    <3>1. PICK byte \in Nat : byte = asyncs + 1
      BY <2>1
    <3>2. write(d, n, byte, pad)
      BY <2>6, <3>1
    <3> QED BY <1>2, <2>1, <3>2, WriteInv
  <2>7. ASSUME NEW pos \in 0 .. MaxLen, seek(d, pos) PROVE FilesInv'
    <3>1. pos \in Nat
      OBVIOUS
    <3> QED BY <1>2, <2>1, <2>7, <3>1, SeekInv
  <2> QED BY <2>2, <2>3, <2>4, <2>5, <2>6, <2>7
<1>3. ASSUME FilesInv, UNCHANGED vars PROVE FilesInv'
  <2>1. /\ entries' = entries /\ caches' = caches /\ fd' = fd /\ written' = written
        /\ orderly' = orderly /\ asyncs' = asyncs
    BY <1>3 DEF vars
  <2> QED BY <1>3, <2>1 DEF FilesInv, TypeOK, HandlesInv, Sound, HandlesOf, IsOpen
<1> QED BY <1>1, <1>2, <1>3 DEF Next

(* Reading, writing, opening, closing and moving a handle, and changing    *)
(* the tree meanwhile, keep what is claimed of every handle of a path used *)
(* as the code expects (FilesInv).                                         *)
THEOREM FilesInvariance == Spec => []FilesInv
  BY InitInv, NextInv, PTL DEF Spec

(* What poll_read_block finds, in the cache or in the copy of a handle     *)
(* whose path was used as the code expects (orderly), is the file as it    *)
(* was opened with what was written since.                                 *)
THEOREM HandlesSeeFiles == Spec => []HandleSeesFile
<1>1. FilesInv => HandleSeesFile
  <2> SUFFICES ASSUME FilesInv, NEW d \in Fds, IsOpen(d), fd[d].path \in orderly,
                      NEW p, p = fd[d].path
               PROVE  /\ caches[p].size = Len(written[p])
                      /\ \A b \in 0 .. NumBlocks(Len(written[p])) - 1 :
                           BlockSeen(d, b) = BlockOf(written[p], b)
    BY DEF HandleSeesFile
  <2>1. caches[p].size = Len(written[p]) /\ Holds(caches[p].cache, written[p])
    BY DEF FilesInv, HandlesInv, Sound, Fits
  <2> QED BY <2>1 DEF Holds, BlockSeen
<1> QED BY <1>1, FilesInvariance, PTL

(* What Async leaves alone when it is not a close.                         *)
LEMMA OnlyCloseCloses ==
    ASSUME FilesInv, Async
    PROVE  \/ entries' = entries /\ \A d \in Fds : IsOpen(d) => fd'[d].st # "closed"
           \/ \E c \in Fds : close(c)
<1>1. fd \in [Fds -> OpenFile] /\ "open" # "closed"
  BY DEF FilesInv, TypeOK
<1>2. PICK c \in Fds :
         \/ \E p \in FilePaths, mode \in Modes : open(c, p, mode)
         \/ close(c)
         \/ \E n \in 1 .. BlockSize :
              read(c, n) \/ \E pad \in BOOLEAN : write(c, n, asyncs + 1, pad)
         \/ \E pos \in 0 .. MaxLen : seek(c, pos)
  BY DEF Async
<1>3. ASSUME NEW p, NEW mode, open(c, p, mode)
      PROVE  entries' = entries /\ \A d \in Fds : IsOpen(d) => fd'[d].st # "closed"
  <2>1. /\ ~IsOpen(c) /\ entries' = entries /\ \E h : fd' = [fd EXCEPT ![c] = h]
    BY <1>3 DEF open
  <2> QED BY <1>1, <2>1 DEF IsOpen
<1>4. ASSUME NEW n, read(c, n)
      PROVE  entries' = entries /\ \A d \in Fds : IsOpen(d) => fd'[d].st # "closed"
  <2>1. /\ entries' = entries /\ \E to : fd' = [fd EXCEPT ![c].pos = to]
    BY <1>4 DEF read
  <2> QED BY <1>1, <2>1 DEF IsOpen, OpenFile
<1>5. ASSUME NEW n, NEW byte, NEW pad, write(c, n, byte, pad)
      PROVE  entries' = entries /\ \A d \in Fds : IsOpen(d) => fd'[d].st # "closed"
  <2>1. /\ entries' = entries
        /\ \E data, to : fd' = [fd EXCEPT ![c].data = data, ![c].pos = to]
    BY <1>5 DEF write
  <2>2. PICK data, to : fd' = [fd EXCEPT ![c].data = data, ![c].pos = to]
    BY <2>1
  <2> QED BY <1>1, <2>1, <2>2 DEF IsOpen, OpenFile
<1>6. ASSUME NEW pos, seek(c, pos)
      PROVE  entries' = entries /\ \A d \in Fds : IsOpen(d) => fd'[d].st # "closed"
  <2>1. entries' = entries /\ fd' = [fd EXCEPT ![c].pos = pos]
    BY <1>6 DEF seek
  <2> QED BY <1>1, <2>1 DEF IsOpen, OpenFile
<1> QED BY <1>2, <1>3, <1>4, <1>5, <1>6

(* A file that is written back is what its handle found and wrote there.   *)
(* What may be appended to only keeps its beginning.                       *)
LEMMA CloseProtects ==
    ASSUME FilesInv, NEW d \in Fds, close(d), NEW q \in Paths,
           q = fd[d].path => q \in orderly
    PROVE  Protected(entries, entries', q)
<1>1. PICK p : p = fd[d].path
  OBVIOUS
<1>2. /\ Typed(entries')
      /\ \A r \in DOMAIN entries : r # p => r \in DOMAIN entries' /\ entries'[r] = entries[r]
      /\ ~can_write(fd[d].mode) => entries' = entries
      /\ (p \in orderly /\ can_write(fd[d].mode)) =>
           entries' = With(entries, p, File(written[p], PermissionNow(entries, p)))
  BY <1>1, CloseIs
<1>3. Typed(entries)
  BY DEF FilesInv, TypeOK
<1>4. CASE q # p \/ ~can_write(fd[d].mode)
  BY <1>2, <1>3, <1>4, SameIsProtected
<1>5. CASE q = p /\ can_write(fd[d].mode)
  <2>1. IsOpen(d)
    BY DEF close
  <2>2. p \in FilePaths /\ p \in orderly /\ Fits(entries, fd[d], caches[p], written[p])
    BY <1>1, <1>5, <2>1, HandleIs
  <2> SUFFICES ASSUME p \in DOMAIN entries, entries[p].permission # "ReadWrite"
               PROVE  Protected(entries, entries', p)
    BY <1>5 DEF Protected
  <2>3. /\ entries[p].kind = "File" /\ fd[d].mode = "Append"
        /\ entries[p].permission # "ReadOnly"
    BY <1>1, <1>5, <2>2 DEF Fits, Openable, IsFile, can_write
  <2>4. Begins(entries[p].content, written[p])
    BY <1>1, <2>2, <2>3 DEF Fits
  <2>5. /\ p \in DOMAIN entries' /\ entries'[p].kind = "File"
        /\ entries'[p].permission = entries[p].permission /\ entries'[p].content = written[p]
    BY <1>2, <1>5, <2>2 DEF With, File, PermissionNow
  <2> QED BY <2>3, <2>4, <2>5 DEF Protected, Begins
<1> QED BY <1>4, <1>5

(* A close leaves its descriptor closed, and any other step closes none.   *)
LEMMA CloseIsClosing == ASSUME FilesInv, NEW d \in Fds, close(d) PROVE Closing = {d}
<1>1. fd \in [Fds -> OpenFile] /\ IsOpen(d) /\ fd' = [fd EXCEPT ![d] = ClosedFile]
  BY DEF FilesInv, TypeOK, close
<1>2. ClosedFile.st = "closed" /\ "open" # "closed"
  BY DEF ClosedFile
<1>3. \A c \in Fds \ {d} : fd'[c] = fd[c]
  BY <1>1
<1> QED BY <1>1, <1>2, <1>3 DEF Closing, IsOpen

(* A file of a path used as the code expects is put back where it can be.  *)
LEMMA CloseKeepsTree ==
    ASSUME FilesInv, NEW d \in Fds, close(d), fd[d].path \in orderly, Rooted(entries)
    PROVE  Rooted(entries')
<1>1. PICK p : p = fd[d].path
  OBVIOUS
<1> DEFINE writes == can_write(fd[d].mode)
<1>2. IsOpen(d)
  BY DEF close
<1>3. p \in FilePaths /\ p \in Paths /\ written[p] \in Seq(Nat)
  BY <1>1, <1>2, HandleIs, FilesArePaths
<1>4. Fits(entries, fd[d], caches[p], written[p])
  BY <1>1, <1>2, HandleIs
<1>5. IsDir(entries, parent_of(p)) /\ ~IsDir(entries, p) /\ p # Root
  BY <1>1, <1>4 DEF Fits, Openable, Rooted, IsDir, IsFile
<1>6. CASE writes
  <2>1. PICK entry : entry = File(written[p], PermissionNow(entries, p))
    OBVIOUS
  <2>2. PermissionNow(entries, p) \in Permissions /\ Typed(entries)
    BY DEF FilesInv, TypeOK, PermissionNow, Typed, Entry, Permissions
  <2>3. entry \in Entry
    BY <1>3, <2>1, <2>2, NewEntriesTyped
  <2>4. entries' = With(entries, p, entry)
    BY <1>1, <1>6, <2>1, CloseIs
  <2> QED BY <1>3, <1>5, <2>2, <2>3, <2>4, PutIn
<1>7. CASE ~writes
  BY <1>1, <1>7, CloseIs
<1> QED BY <1>6, <1>7

(* The tree begins as one, with a read-only directory as its root, and no  *)
(* operation of its own changes that, files being open or not; nor does    *)
(* close, which goes past check_mutation (insert_file), if the path it     *)
(* closes was used as the code expects.                                    *)
THEOREM TreeStaysTree == Spec => Rooted(entries) /\ TreeIsTree
<1>1. ASSUME FilesInv, [Next]_vars
      PROVE  [(Rooted(entries) /\ \A d \in Closing : fd[d].path \in orderly)
                => Rooted(entries')]_vars
  <2> SUFFICES ASSUME Rooted(entries), \A d \in Closing : fd[d].path \in orderly
               PROVE  Rooted(entries')
    OBVIOUS
  <2>1. CASE Sync
    BY <1>1, <2>1, VfsNextKeeps DEF Sync, FilesInv, TypeOK, Keep
  <2>2. CASE Async
    <3>1. ASSUME NEW c \in Fds, close(c) PROVE Rooted(entries')
      BY <1>1, <3>1, CloseIsClosing, CloseKeepsTree
    <3> QED BY <1>1, <2>2, <3>1, OnlyCloseCloses
  <2>3. CASE UNCHANGED vars
    BY <2>3 DEF vars
  <2> QED BY <1>1, <2>1, <2>2, <2>3 DEF Next
<1>2. Init => Rooted(entries)
  BY InitKeeps DEF Init, VfsInit
<1> QED BY <1>1, <1>2, FilesInvariance, PTL DEF Spec, TreeIsTree

(* What is read-only stays and what is append-only keeps its beginning     *)
(* through every operation of the tree (check_mutation), also under open   *)
(* files, and through every close of another file.  Closing the path       *)
(* itself, where open checked the permission and close trusts it, does so  *)
(* if the path was used as the code expects: its entry has not changed     *)
(* since.                                                                  *)
THEOREM ProtectionHolds == Spec => ProtectedStays
<1>1. ASSUME FilesInv, [Next]_vars
      PROVE  [\A p \in Paths : (\A d \in Closing : fd[d].path = p => p \in orderly)
                                 => Protected(entries, entries', p)]_vars
  <2>1. Typed(entries)
    BY <1>1 DEF FilesInv, TypeOK
  <2>2. CASE Sync
    <3>1. VfsNext
      BY <2>2 DEF Sync
    <3> QED BY <2>1, <3>1, VfsNextKeeps DEF Keep
  <2>3. CASE Async
    <3>1. CASE entries' = entries
      BY <2>1, <3>1, SameIsProtected
    <3>2. ASSUME NEW c \in Fds, close(c), NEW p \in Paths,
                 \A d \in Closing : fd[d].path = p => p \in orderly
          PROVE  Protected(entries, entries', p)
      BY <1>1, <3>2, CloseIsClosing, CloseProtects
    <3> QED BY <1>1, <2>3, <3>1, <3>2, OnlyCloseCloses
  <2>4. CASE UNCHANGED vars
    BY <2>4
  <2> QED BY <1>1, <2>2, <2>3, <2>4 DEF Next
<1> QED BY <1>1, FilesInvariance, PTL DEF Spec, ProtectedStays

(* close puts the file together from the cache alone: of a path used as    *)
(* the code expects (one handle, every block still cached, no hole) what   *)
(* it leaves in the tree is the whole file, and nothing else changes.      *)
THEOREM CloseSavesFile == Spec => CloseSaves
<1> DEFINE Saved(d) ==
      (IsOpen(d) /\ fd'[d].st = "closed" /\ can_write(fd[d].mode) /\ fd[d].path \in orderly) =>
         entries' = With(entries, fd[d].path,
                         File(written[fd[d].path], PermissionNow(entries, fd[d].path)))
<1>1. ASSUME FilesInv, [Next]_vars PROVE [\A d \in Fds : Saved(d)]_vars
  <2>1. fd \in [Fds -> OpenFile]
    BY <1>1 DEF FilesInv, TypeOK
  <2>2. CASE Sync
    BY <2>2 DEF Sync, IsOpen
  <2>3. CASE Async
    <3>1. CASE \A d \in Fds : IsOpen(d) => fd'[d].st # "closed"
      BY <3>1
    <3>2. ASSUME NEW c \in Fds, close(c), NEW d \in Fds PROVE Saved(d)
      <4>1. CASE d = c
        BY <1>1, <3>2, <4>1, CloseIs
      <4>2. CASE d # c
        <5>1. fd'[d] = fd[d]
          BY <2>1, <3>2, <4>2 DEF close
        <5> QED BY <5>1 DEF IsOpen
      <4> QED BY <4>1, <4>2
    <3> HIDE DEF Saved
    <3>3. CASE \A d \in Fds : Saved(d)
      BY <3>3
    <3> QED BY <1>1, <2>3, <3>1, <3>2, <3>3, OnlyCloseCloses DEF Saved
  <2>4. CASE UNCHANGED vars
    BY <2>4
  <2> QED BY <1>1, <2>2, <2>3, <2>4 DEF Next
<1> QED BY <1>1, FilesInvariance, PTL DEF Spec, CloseSaves

=============================================================================
