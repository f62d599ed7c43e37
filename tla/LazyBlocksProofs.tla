-------------------------- MODULE LazyBlocksProofs --------------------------
(***************************************************************************)
(* Fetch coordination, for any number of handles and blocks, any cache     *)
(* limit and any order of reads, drops, closes and host answers: reads     *)
(* give the host's bytes, a block is fetched by one store at a time, and   *)
(* no reader waits without being registered with what it waits for.        *)
(***************************************************************************)
EXTENDS LazyBlocks, FiniteSetTheorems, TLAPS

-----------------------------------------------------------------------------
(* What a cache insertion may change: blocks can leave, only the inserted  *)
(* one comes in, and no other block changes what it holds.                 *)
IsCache(c) == c = [blocks |-> c.blocks, lru |-> c.lru]
Truthful(c) == IsCache(c) /\ \A n \in Cached(c) : c.blocks[n] = DataOf(n)

LEMMA TouchKeeps ==
    ASSUME NEW c, NEW b, IsCache(c)
    PROVE  IsCache(touch(c, b)) /\ touch(c, b).blocks = c.blocks
<1>1. touch(c, b) = [blocks |-> c.blocks, lru |-> Append(RemoveFirst(c.lru, b), b)]
  BY DEF IsCache, touch
<1> QED BY <1>1 DEF IsCache

LEMMA EvictKeeps ==
    ASSUME NEW c, Truthful(c)
    PROVE  Truthful(evict_lru(c)) /\ Cached(evict_lru(c)) \subseteq Cached(c)
<1>1. CASE c.lru = <<>>
  BY <1>1 DEF evict_lru
<1>2. CASE c.lru # <<>>
  <2> DEFINE rest == [n \in Cached(c) \ {Head(c.lru)} |-> c.blocks[n]]
  <2>1. evict_lru(c) = [blocks |-> rest, lru |-> Tail(c.lru)]
    BY <1>2 DEF evict_lru
  <2>2. evict_lru(c).blocks = rest /\ IsCache(evict_lru(c))
    BY <2>1 DEF IsCache
  <2>3. DOMAIN rest \subseteq Cached(c) /\ \A n \in DOMAIN rest : rest[n] = c.blocks[n]
    OBVIOUS
  <2> QED BY <2>2, <2>3 DEF Truthful, Cached
<1> QED BY <1>1, <1>2

LEMMA PutKeeps ==
    ASSUME NEW c, NEW b, Truthful(c)
    PROVE  Truthful(put(c, b, DataOf(b))) /\ Cached(put(c, b, DataOf(b))) = Cached(c) \cup {b}
<1> DEFINE more == [n \in Cached(c) \cup {b} |-> IF n = b THEN DataOf(b) ELSE c.blocks[n]]
<1>1. put(c, b, DataOf(b)) = [blocks |-> more, lru |-> c.lru]
  BY DEF put, Truthful, IsCache
<1>2. put(c, b, DataOf(b)).blocks = more /\ IsCache(put(c, b, DataOf(b)))
  BY <1>1 DEF IsCache
<1>3. DOMAIN more = Cached(c) \cup {b}
      /\ \A n \in DOMAIN more : more[n] = DataOf(n)
  BY DEF Truthful
<1> HIDE DEF more
<1> QED BY <1>2, <1>3 DEF Truthful, Cached

LEMMA InsertKeeps ==
    ASSUME NEW c, NEW b, Truthful(c)
    PROVE  /\ Truthful(insert(c, b, DataOf(b)))
           /\ b \in Cached(insert(c, b, DataOf(b)))
           /\ Cached(insert(c, b, DataOf(b))) \subseteq Cached(c) \cup {b}
<1> DEFINE d == IF Full(c, b) THEN evict_lru(c) ELSE c
           e == put(d, b, DataOf(b))
<1>1. Truthful(d) /\ Cached(d) \subseteq Cached(c)
  BY EvictKeeps
<1>2. Truthful(e) /\ Cached(e) = Cached(d) \cup {b}
  BY <1>1, PutKeeps
<1>3. insert(c, b, DataOf(b)) = touch(e, b)
  BY DEF insert
<1> HIDE DEF d, e
<1>4. IsCache(touch(e, b)) /\ touch(e, b).blocks = e.blocks
  BY <1>2, TouchKeeps DEF Truthful
<1> QED BY <1>1, <1>2, <1>3, <1>4 DEF Truthful, Cached

-----------------------------------------------------------------------------
(* The invariant, over an outcome o of a poll by h and the stores' fetches *)
(* pend: Here and pending are the state between two steps.                 *)
Busy(pend, h) == pend[h].st # "none"

Shaped(o) ==
    /\ o = [cache |-> o.cache, fetching |-> o.fetching, wakers |-> o.wakers, wakes |-> o.wakes]
    /\ o.fetching \subseteq BlockNums
    /\ o.wakers \in [BlockNums -> SUBSET Handles]
    /\ o.wakes \subseteq Handles

Fetches(o, pend) ==
    /\ \A h \in Handles : Busy(pend, h) => /\ pend[h].block \in o.fetching
                                           /\ pend[h].block \notin Cached(o.cache)
    /\ \A b \in o.fetching : \E h \in Handles : Busy(pend, h) /\ pend[h].block = b
    /\ \A g, h \in Handles :
          Busy(pend, g) /\ Busy(pend, h) /\ pend[g].block = pend[h].block => g = h

(* Every reader but h will be polled, or has its own fetch with the host,  *)
(* or is registered.                                                       *)
Others(h, o, pend) ==
    \A g \in Handles \ {h} : (Reading(g) /\ g \notin woken /\ g \notin o.wakes) =>
        \/ pend[g].st = "submitted"
        \/ read[g].block \in o.fetching /\ g \in o.wakers[read[g].block]

Outcome(h, o, pend) ==
    /\ Shaped(o) /\ Truthful(o.cache)
    /\ pend \in [Handles -> PendingFetch]
    /\ Fetches(o, pend) /\ Others(h, o, pend)

Tasks ==
    /\ woken \subseteq Handles
    /\ read \in [Handles -> Reads]
    /\ \A h \in Handles : Reading(h) => h \notin closed
    /\ \A h \in Handles : pending[h].st = "dropped" => h \in closed

IInv ==
    /\ Shaped(Here) /\ Truthful(cache) /\ pending \in [Handles -> PendingFetch]
    /\ Tasks /\ OneFetchPerBlock /\ WaiterIsRegistered /\ ReadIsTrue

LEMMA HereFetches == OneFetchPerBlock <=> Fetches(Here, pending)
  BY DEF OneFetchPerBlock, Fetches, Here, Busy, Pending

LEMMA HereOutcome ==
    ASSUME IInv, NEW h \in Handles
    PROVE  Outcome(h, Here, pending)
<1>1. Others(h, Here, pending)
  BY DEF IInv, WaiterIsRegistered, Others, Here
<1>2. Truthful(Here.cache)
  BY DEF IInv, Here
<1> QED BY <1>1, <1>2, HereFetches DEF IInv, Outcome

-----------------------------------------------------------------------------
(* The fetch of h ends, in the cache (complete_fetch) or not (cancel): its *)
(* entry goes, nobody else's does, and who waited for it is woken.         *)
NoneFor(h) == [pending EXCEPT ![h] = NoFetch]

LEMMA NoFetchTyped == NoFetch \in PendingFetch /\ NoFetch.st = "none"
<1>1. AnyBlock \in BlockNums
  BY Limits DEF AnyBlock
<1> QED BY <1>1 DEF NoFetch, PendingFetch

LEMMA SettleKeeps ==
    ASSUME NEW o, NEW b \in BlockNums, Shaped(o)
    PROVE  /\ Shaped(Settle(o, b))
           /\ Settle(o, b).cache = o.cache
           /\ Settle(o, b).fetching = o.fetching \ {b}
           /\ \A n \in BlockNums : n # b => Settle(o, b).wakers[n] = o.wakers[n]
           /\ Settle(o, b).wakes = o.wakes \cup o.wakers[b]
<1> DEFINE w == [o.wakers EXCEPT ![b] = {}]
<1>1. Settle(o, b) = [cache |-> o.cache, fetching |-> o.fetching \ {b}, wakers |-> w,
                      wakes |-> o.wakes \cup o.wakers[b]]
  BY DEF Settle
<1>2. w \in [BlockNums -> SUBSET Handles] /\ \A n \in BlockNums : n # b => w[n] = o.wakers[n]
  BY DEF Shaped
<1>3. o.wakers[b] \subseteq Handles
  BY DEF Shaped
<1> HIDE DEF w
<1> QED BY <1>1, <1>2, <1>3 DEF Shaped

LEMMA CompleteKeeps ==
    ASSUME NEW o, NEW b \in BlockNums, Shaped(o)
    PROVE  /\ Shaped(complete_fetch(o, b, DataOf(b)))
           /\ complete_fetch(o, b, DataOf(b)).cache = insert(o.cache, b, DataOf(b))
           /\ complete_fetch(o, b, DataOf(b)).fetching = Settle(o, b).fetching
           /\ complete_fetch(o, b, DataOf(b)).wakers = Settle(o, b).wakers
           /\ complete_fetch(o, b, DataOf(b)).wakes = Settle(o, b).wakes
<1> DEFINE s == Settle(o, b)
<1>1. Shaped(s) /\ s.cache = o.cache
  BY SettleKeeps
<1>2. complete_fetch(o, b, DataOf(b)) = [s EXCEPT !.cache = insert(s.cache, b, DataOf(b))]
  BY DEF complete_fetch
<1> HIDE DEF s
<1>3. complete_fetch(o, b, DataOf(b)) =
        [cache |-> insert(o.cache, b, DataOf(b)), fetching |-> s.fetching,
         wakers |-> s.wakers, wakes |-> s.wakes]
  BY <1>1, <1>2 DEF Shaped
<1> QED BY <1>1, <1>3 DEF Shaped, s

(* The common part: whatever the cache does, if it takes in no block but   *)
(* the settled one.                                                        *)
LEMMA OwnFetchEnds ==
    ASSUME IInv, NEW h \in Handles, NEW o, Pending(h), Shaped(o), Truthful(o.cache),
           Cached(o.cache) \subseteq Cached(cache) \cup {pending[h].block},
           o.fetching = Settle(Here, pending[h].block).fetching,
           o.wakers = Settle(Here, pending[h].block).wakers,
           o.wakes = Settle(Here, pending[h].block).wakes
    PROVE  Outcome(h, o, NoneFor(h))
<1> DEFINE b == pending[h].block
           pend == NoneFor(h)
<1>1. b \in BlockNums /\ pending \in [Handles -> PendingFetch] /\ Shaped(Here)
  BY DEF IInv, PendingFetch
<1>2. /\ pend \in [Handles -> PendingFetch] /\ pend[h].st = "none"
      /\ \A g \in Handles \ {h} : pend[g] = pending[g]
  BY <1>1, NoFetchTyped DEF NoneFor
<1>3. /\ o.fetching = fetching \ {b} /\ o.wakes = wakers[b]
      /\ \A n \in BlockNums : n # b => o.wakers[n] = wakers[n]
  <2>1. /\ Here.fetching = fetching /\ Here.wakers = wakers /\ Here.wakes = {}
        /\ Settle(Here, b).fetching = Here.fetching \ {b}
        /\ Settle(Here, b).wakes = Here.wakes \cup Here.wakers[b]
        /\ \A n \in BlockNums : n # b => Settle(Here, b).wakers[n] = Here.wakers[n]
    <3>1. Here.fetching = fetching /\ Here.wakers = wakers /\ Here.wakes = {}
      BY DEF Here
    <3> HIDE DEF b, pend
    <3>2. /\ Settle(Here, b).fetching = Here.fetching \ {b}
          /\ Settle(Here, b).wakes = Here.wakes \cup Here.wakers[b]
          /\ \A n \in BlockNums : n # b => Settle(Here, b).wakers[n] = Here.wakers[n]
      BY <1>1, SettleKeeps
    <3> QED BY <3>1, <3>2
  <2> QED BY <2>1
<1> HIDE DEF b, pend
<1>4. \A g \in Handles \ {h} : Busy(pend, g) => Pending(g) /\ pending[g].block # b
  BY <1>2 DEF IInv, OneFetchPerBlock, Pending, Busy, b
<1>5. Fetches(o, pend)
  <2>1. ASSUME NEW g \in Handles, Busy(pend, g)
        PROVE  pend[g].block \in o.fetching /\ pend[g].block \notin Cached(o.cache)
    <3>1. g # h /\ pend[g] = pending[g] /\ Pending(g) /\ pending[g].block # b
      BY <1>2, <1>4, <2>1 DEF Busy
    <3>2. pending[g].block \in fetching /\ pending[g].block \notin Cached(cache)
      BY <3>1 DEF IInv, OneFetchPerBlock
    <3> QED BY <1>3, <3>1, <3>2 DEF b
  <2>2. ASSUME NEW n \in o.fetching
        PROVE  \E g \in Handles : Busy(pend, g) /\ pend[g].block = n
    <3>1. n \in fetching /\ n # b
      BY <1>3
    <3>2. PICK g \in Handles : Pending(g) /\ pending[g].block = n
      BY <3>1 DEF IInv, OneFetchPerBlock
    <3>3. g # h
      BY <3>1, <3>2 DEF b
    <3> QED BY <1>2, <3>2, <3>3 DEF Busy, Pending
  <2>3. \A f, g \in Handles :
          Busy(pend, f) /\ Busy(pend, g) /\ pend[f].block = pend[g].block => f = g
    BY <1>2, <1>4 DEF IInv, OneFetchPerBlock, Busy
  <2> QED BY <2>1, <2>2, <2>3 DEF Fetches
<1>6. Others(h, o, pend)
  <2> SUFFICES ASSUME NEW g \in Handles \ {h}, Reading(g), g \notin woken, g \notin o.wakes
               PROVE  \/ pend[g].st = "submitted"
                      \/ read[g].block \in o.fetching /\ g \in o.wakers[read[g].block]
    BY DEF Others
  <2>1. \/ pending[g].st = "submitted"
        \/ read[g].block \in fetching /\ g \in wakers[read[g].block]
    BY DEF IInv, WaiterIsRegistered
  <2>2. fetching \subseteq BlockNums
    BY <1>1 DEF Shaped, Here
  <2> QED BY <1>2, <1>3, <2>1, <2>2
<1> QED BY <1>2, <1>5, <1>6 DEF Outcome, pend

LEMMA DoneOutcome ==
    ASSUME IInv, NEW h \in Handles, Pending(h)
    PROVE  /\ Outcome(h, complete_fetch(Here, pending[h].block, DataOf(pending[h].block)),
                      NoneFor(h))
           /\ pending[h].block \in
                Cached(complete_fetch(Here, pending[h].block, DataOf(pending[h].block)).cache)
<1> DEFINE b == pending[h].block
           o == complete_fetch(Here, b, DataOf(b))
<1>1. b \in BlockNums /\ Shaped(Here) /\ Truthful(cache) /\ Here.cache = cache
  BY DEF IInv, PendingFetch, Here
<1>2. /\ Shaped(o) /\ o.cache = insert(cache, b, DataOf(b))
      /\ o.fetching = Settle(Here, b).fetching /\ o.wakers = Settle(Here, b).wakers
      /\ o.wakes = Settle(Here, b).wakes
  BY <1>1, CompleteKeeps
<1>3. /\ Truthful(insert(cache, b, DataOf(b))) /\ b \in Cached(insert(cache, b, DataOf(b)))
      /\ Cached(insert(cache, b, DataOf(b))) \subseteq Cached(cache) \cup {b}
  BY <1>1, InsertKeeps
<1> HIDE DEF o
<1> QED BY <1>2, <1>3, OwnFetchEnds DEF o

LEMMA CancelOutcome ==
    ASSUME IInv, NEW h \in Handles, Pending(h)
    PROVE  Outcome(h, cancel_fetch(Here, pending[h].block), NoneFor(h))
<1> DEFINE b == pending[h].block
           o == Settle(Here, b)
<1>1. b \in BlockNums /\ Shaped(Here) /\ Truthful(cache) /\ Here.cache = cache
  BY DEF IInv, PendingFetch, Here
<1>2. Shaped(o) /\ o.cache = cache
  BY <1>1, SettleKeeps
<1> HIDE DEF o
<1>3. Outcome(h, o, NoneFor(h))
  BY <1>1, <1>2, OwnFetchEnds DEF o
<1> QED BY <1>3 DEF cancel_fetch, o

-----------------------------------------------------------------------------
(* The store of h has nothing pending and looks for its block.             *)
With(h, f) == [pending EXCEPT ![h] = f]

LEMMA TryBlockOutcome ==
    ASSUME IInv, NEW h \in Handles, NEW b \in BlockNums, NEW o,
           Outcome(h, o, NoneFor(h))
    PROVE  LET end == TryBlock(h, b, o) IN
           /\ Outcome(h, end.o, With(h, end.pending))
           /\ end.st \in {"read", "pending"}
           /\ end.st = "read" => b \in Cached(end.o.cache)
           /\ end.st = "pending" => \/ end.pending.st = "submitted"
                                    \/ b \in end.o.fetching /\ h \in end.o.wakers[b]
           /\ end.pending.st # "dropped"
<1> DEFINE end == TryBlock(h, b, o)
<1>0. /\ Shaped(o) /\ Truthful(o.cache) /\ Fetches(o, NoneFor(h)) /\ Others(h, o, NoneFor(h))
      /\ NoneFor(h) \in [Handles -> PendingFetch]
      /\ NoneFor(h) = With(h, NoFetch) /\ pending \in [Handles -> PendingFetch]
      /\ NoFetch.st = "none" /\ NoFetch \in PendingFetch
  BY NoFetchTyped DEF Outcome, NoneFor, With, IInv
<1>1. CASE b \in Cached(o.cache)
  <2>1. end = Ends(o, NoFetch, "read")
    BY <1>1 DEF TryBlock, try_start_fetch
  <2>2. end.o = o /\ end.pending = NoFetch /\ end.st = "read"
    BY <2>1 DEF Ends
  <2> QED BY <1>0, <1>1, <2>2
<1>2. CASE b \notin Cached(o.cache) /\ b \in o.fetching
  <2> DEFINE q == [o EXCEPT !.wakers[b] = @ \cup {h}]
             w == [o.wakers EXCEPT ![b] = @ \cup {h}]
  <2>1. end = Ends(q, NoFetch, "pending")
    BY <1>2 DEF TryBlock, try_start_fetch
  <2>2. end.o = q /\ end.pending = NoFetch /\ end.st = "pending"
    BY <2>1 DEF Ends
  <2>3. q = [cache |-> o.cache, fetching |-> o.fetching, wakers |-> w, wakes |-> o.wakes]
    BY <1>0 DEF Shaped
  <2>4. /\ w \in [BlockNums -> SUBSET Handles] /\ h \in w[b]
        /\ \A n \in BlockNums : o.wakers[n] \subseteq w[n]
    BY <1>0 DEF Shaped
  <2> HIDE DEF q, w
  <2>5. Shaped(q) /\ q.cache = o.cache /\ q.fetching = o.fetching /\ q.wakes = o.wakes /\ q.wakers = w
    BY <1>0, <2>3, <2>4 DEF Shaped
  <2>6. Fetches(q, NoneFor(h))
    BY <1>0, <2>5 DEF Fetches
  <2>7. Others(h, q, NoneFor(h))
    <3>1. o.fetching \subseteq BlockNums BY <1>0 DEF Shaped
    <3> QED BY <1>0, <2>4, <2>5, <3>1 DEF Others
  <2>8. Outcome(h, q, NoneFor(h))
    BY <1>0, <2>5, <2>6, <2>7 DEF Outcome
  <2> QED BY <1>0, <1>2, <2>2, <2>4, <2>5, <2>8
<1>3. CASE b \notin Cached(o.cache) /\ b \notin o.fetching /\ b \notin InFile
  <2> DEFINE q == complete_fetch(o, b, DataOf(b))
  <2>1. DataOf(b) = <<>>
    BY <1>3 DEF DataOf
  <2>2. end.o = q /\ end.pending = NoFetch /\ end.st = "read"
    <3>1. end = Ends(q, NoFetch, "read")
      BY <1>3, <2>1 DEF TryBlock, try_start_fetch
    <3> QED BY <3>1 DEF Ends
  <2>3. /\ Shaped(q) /\ q.cache = insert(o.cache, b, DataOf(b))
        /\ q.fetching = o.fetching /\ q.wakes = o.wakes \cup o.wakers[b]
        /\ \A n \in BlockNums : n # b => q.wakers[n] = o.wakers[n]
    <3>1. /\ Settle(o, b).fetching = o.fetching \ {b}
          /\ Settle(o, b).wakes = o.wakes \cup o.wakers[b]
          /\ \A n \in BlockNums : n # b => Settle(o, b).wakers[n] = o.wakers[n]
      BY <1>0, SettleKeeps
    <3>2. /\ Shaped(q) /\ q.cache = insert(o.cache, b, DataOf(b))
          /\ q.fetching = Settle(o, b).fetching /\ q.wakers = Settle(o, b).wakers
          /\ q.wakes = Settle(o, b).wakes
      BY <1>0, CompleteKeeps
    <3> HIDE DEF q
    <3> QED BY <1>3, <3>1, <3>2
  <2> HIDE DEF q
  <2>4. /\ Truthful(q.cache) /\ b \in Cached(q.cache)
        /\ Cached(q.cache) \subseteq Cached(o.cache) \cup {b}
    BY <1>0, <2>3, InsertKeeps
  <2>5. Fetches(q, NoneFor(h))
    BY <1>0, <1>3, <2>3, <2>4 DEF Fetches
  <2>6. Others(h, q, NoneFor(h))
    <3>1. o.fetching \subseteq BlockNums BY <1>0 DEF Shaped
    <3> QED BY <1>0, <1>3, <2>3, <3>1 DEF Others
  <2>7. Outcome(h, q, NoneFor(h))
    BY <1>0, <2>3, <2>4, <2>5, <2>6 DEF Outcome
  <2> QED BY <1>0, <2>2, <2>4, <2>7
<1>4. CASE b \notin Cached(o.cache) /\ b \notin o.fetching /\ b \in InFile
  <2> DEFINE q == [cache |-> o.cache, fetching |-> o.fetching \cup {b},
                   wakers |-> [o.wakers EXCEPT ![b] = {}], wakes |-> o.wakes]
             w == [o.wakers EXCEPT ![b] = {}]
             f == [block |-> b, st |-> "submitted"]
             pend == With(h, f)
  <2>1. end = Ends(q, f, "pending")
    BY <1>4 DEF TryBlock, try_start_fetch
  <2>2. end.o = q /\ end.pending = f /\ end.st = "pending"
    BY <2>1 DEF Ends
  <2>3. q = [cache |-> o.cache, fetching |-> o.fetching \cup {b}, wakers |-> w, wakes |-> o.wakes]
    OBVIOUS
  <2>4. /\ w \in [BlockNums -> SUBSET Handles]
        /\ \A n \in BlockNums : n # b => w[n] = o.wakers[n]
    BY <1>0 DEF Shaped
  <2>5. /\ f \in PendingFetch /\ f.st = "submitted" /\ f.block = b
        /\ pend \in [Handles -> PendingFetch] /\ pend[h] = f
        /\ \A g \in Handles \ {h} : pend[g] = NoneFor(h)[g]
        /\ NoneFor(h)[h] = NoFetch
    BY <1>0 DEF PendingFetch, With, NoneFor
  <2> HIDE DEF q, w, f, pend
  <2>6. Shaped(q) /\ q.cache = o.cache /\ q.fetching = o.fetching \cup {b} /\ q.wakes = o.wakes
        /\ q.wakers = w
    BY <1>0, <2>3, <2>4 DEF Shaped
  <2>7. Fetches(q, pend)
    <3>1. ASSUME NEW g \in Handles, Busy(pend, g)
          PROVE  pend[g].block \in q.fetching /\ pend[g].block \notin Cached(q.cache)
      <4>1. CASE g = h
        BY <1>4, <2>5, <2>6, <4>1
      <4>2. CASE g # h
        BY <1>0, <2>5, <2>6, <3>1, <4>2 DEF Fetches, Busy
      <4> QED BY <4>1, <4>2
    <3>2. ASSUME NEW n \in q.fetching
          PROVE  \E g \in Handles : Busy(pend, g) /\ pend[g].block = n
      <4>1. CASE n = b
        BY <2>5, <4>1 DEF Busy
      <4>2. CASE n \in o.fetching
        <5>1. PICK g \in Handles : Busy(NoneFor(h), g) /\ NoneFor(h)[g].block = n
          BY <1>0, <4>2 DEF Fetches
        <5>2. g # h
          BY <1>0, <2>5, <5>1 DEF Busy
        <5> QED BY <2>5, <5>1, <5>2 DEF Busy
      <4> QED BY <2>6, <4>1, <4>2
    <3>3. ASSUME NEW g \in Handles, g # h, Busy(pend, g) PROVE pend[g].block # b
      BY <1>0, <1>4, <2>5, <3>3 DEF Fetches, Busy
    <3>4. ASSUME NEW g \in Handles, NEW k \in Handles, Busy(pend, g), Busy(pend, k),
                 pend[g].block = pend[k].block
          PROVE  g = k
      <4>1. CASE g = h \/ k = h
        BY <2>5, <3>3, <3>4, <4>1
      <4>2. CASE g # h /\ k # h
        BY <1>0, <2>5, <3>4, <4>2 DEF Fetches, Busy
      <4> QED BY <4>1, <4>2
    <3> QED BY <3>1, <3>2, <3>4 DEF Fetches
  <2>8. Others(h, q, pend)
    <3>1. o.fetching \subseteq BlockNums BY <1>0 DEF Shaped
    <3> QED BY <1>0, <1>4, <2>4, <2>5, <2>6, <3>1 DEF Others
  <2>9. Outcome(h, q, pend)
    BY <1>0, <2>5, <2>6, <2>7, <2>8 DEF Outcome
  <2> QED BY <2>2, <2>5, <2>9 DEF pend
<1> QED BY <1>1, <1>2, <1>3, <1>4

-----------------------------------------------------------------------------
(* A poll of the store of h, as a whole.                                   *)
LEMMA PollOutcome ==
    ASSUME IInv, NEW h \in Handles, Reading(h)
    PROVE  LET b == read[h].block
               end == poll_read_block(h, b) IN
           /\ b \in BlockNums
           /\ Outcome(h, end.o, With(h, end.pending))
           /\ end.st \in {"read", "pending", "failed"}
           /\ end.st = "read" => b \in Cached(end.o.cache)
           /\ end.st = "pending" => \/ end.pending.st = "submitted"
                                    \/ b \in end.o.fetching /\ h \in end.o.wakers[b]
           /\ end.pending.st # "dropped"
<1> DEFINE b == read[h].block
           p == pending[h]
           end == poll_read_block(h, b)
           done == complete_fetch(Here, p.block, DataOf(p.block))
<1>0. /\ b \in BlockNums /\ p \in PendingFetch /\ p.st # "dropped"
      /\ pending \in [Handles -> PendingFetch] /\ With(h, p) = pending
      /\ NoFetch.st = "none" /\ With(h, NoFetch) = NoneFor(h)
  <2>1. b \in BlockNums /\ p \in PendingFetch /\ pending \in [Handles -> PendingFetch]
    BY DEF IInv, Tasks, Reads
  <2>2. p.st # "dropped"
    BY DEF IInv, Tasks
  <2> QED BY <2>1, <2>2, NoFetchTyped DEF With, NoneFor
<1>1. Outcome(h, Here, pending)
  BY HereOutcome
<1>2. CASE h \in error
  <2>1. end = Ends(Here, p, "failed")
    BY <1>2 DEF poll_read_block
  <2>2. end.o = Here /\ end.pending = p /\ end.st = "failed"
    BY <2>1 DEF Ends
  <2> QED BY <1>0, <1>1, <2>2
<1>3. CASE h \notin error /\ p.st = "none"
  <2>1. end = TryBlock(h, b, Here)
    BY <1>3 DEF poll_read_block
  <2>2. NoneFor(h) = pending \/ Outcome(h, Here, NoneFor(h))
    <3>1. /\ NoneFor(h) \in [Handles -> PendingFetch] /\ NoneFor(h)[h].st = "none"
          /\ \A g \in Handles \ {h} : NoneFor(h)[g] = pending[g]
      BY <1>0, NoFetchTyped DEF NoneFor
    <3>2. Fetches(Here, NoneFor(h))
      <4>1. \A g \in Handles : Busy(NoneFor(h), g) <=> Busy(pending, g)
        BY <1>3, <3>1 DEF Busy
      <4>2. \A g \in Handles : Busy(pending, g) => NoneFor(h)[g] = pending[g]
        BY <1>3, <3>1 DEF Busy
      <4> QED BY <1>1, <4>1, <4>2 DEF Fetches, Outcome
    <3>3. Others(h, Here, NoneFor(h))
      BY <1>1, <3>1 DEF Others, Outcome
    <3> QED BY <1>1, <3>1, <3>2, <3>3 DEF Outcome
  <2>3. Outcome(h, Here, NoneFor(h))
    BY <1>1, <2>2
  <2> QED BY <1>0, <2>1, <2>3, TryBlockOutcome
<1>4. CASE h \notin error /\ p.st = "submitted"
  <2>1. end = Ends(Here, p, "pending")
    BY <1>4 DEF poll_read_block
  <2>2. end.o = Here /\ end.pending = p /\ end.st = "pending"
    BY <2>1 DEF Ends
  <2> QED BY <1>0, <1>1, <1>4, <2>2
<1>5. CASE h \notin error /\ p.st = "failed"
  <2>1. end = Ends(cancel_fetch(Here, p.block), NoFetch, "failed")
    BY <1>5 DEF poll_read_block
  <2>2. end.o = cancel_fetch(Here, p.block) /\ end.pending = NoFetch /\ end.st = "failed"
    BY <2>1 DEF Ends
  <2>3. Outcome(h, cancel_fetch(Here, p.block), NoneFor(h))
    BY <1>5, CancelOutcome DEF Pending
  <2> QED BY <1>0, <2>2, <2>3
<1>6. CASE h \notin error /\ p.st = "answered"
  <2>1. Outcome(h, done, NoneFor(h)) /\ p.block \in Cached(done.cache)
    BY <1>6, DoneOutcome DEF Pending
  <2>2. CASE p.block = b
    <3>1. end = Ends(done, NoFetch, "read")
      BY <1>6, <2>2 DEF poll_read_block
    <3> HIDE DEF done
    <3>2. end.o = done /\ end.pending = NoFetch /\ end.st = "read"
      BY <3>1 DEF Ends
    <3> QED BY <1>0, <2>1, <2>2, <3>2
  <2>3. CASE p.block # b
    <3>1. end = TryBlock(h, b, done)
      BY <1>6, <2>3 DEF poll_read_block
    <3> HIDE DEF done
    <3> QED BY <1>0, <2>1, <3>1, TryBlockOutcome
  <2> QED BY <2>2, <2>3
<1>7. p.st \in {"none", "submitted", "answered", "failed", "dropped"}
  BY <1>0 DEF PendingFetch
<1> QED BY <1>0, <1>2, <1>3, <1>4, <1>5, <1>6, <1>7

-----------------------------------------------------------------------------
(* The invariant over the variables alone, where Here is not in the way.   *)
Frame == UNCHANGED <<cache, fetching, wakers>>

LEMMA FrameKeeps ==
    ASSUME IInv, Frame
    PROVE  Shaped(Here)' /\ Truthful(cache)'
<1>1. Here' = Here
  BY DEF Frame, Here
<1>2. Shaped(Here)'
  BY <1>1 DEF IInv, Shaped, Here
<1> QED BY <1>2 DEF IInv, Frame, Truthful, IsCache, Cached

LEMMA StartReadInv ==
    ASSUME IInv, NEW h \in Handles, NEW b \in BlockNums, StartRead(h, b) PROVE IInv'
<1> DEFINE r == [st |-> "reading", block |-> b, data |-> DataOf(b)]
<1>1. /\ read' = [read EXCEPT ![h] = r] /\ woken' = woken \cup {h} /\ h \notin closed
      /\ UNCHANGED <<cache, fetching, wakers, pending, error, closed>>
  BY DEF StartRead
<1>2. r \in Reads /\ r.st = "reading"
  BY DEF Reads
<1>3. /\ read' \in [Handles -> Reads] /\ read'[h].st = "reading"
      /\ \A g \in Handles \ {h} : read'[g] = read[g]
  BY <1>1, <1>2 DEF IInv, Tasks
<1> HIDE DEF r
<1>4. Shaped(Here)' /\ Truthful(cache)' /\ pending' \in [Handles -> PendingFetch]
  BY <1>1, FrameKeeps DEF Frame, IInv
<1>5. Tasks'
  BY <1>1, <1>3 DEF IInv, Tasks, Reading
<1>6. OneFetchPerBlock'
  BY <1>1 DEF IInv, OneFetchPerBlock, Pending, Cached
<1>7. WaiterIsRegistered'
  BY <1>1, <1>3 DEF IInv, WaiterIsRegistered, Reading
<1>8. ReadIsTrue'
  BY <1>1, <1>3 DEF IInv, ReadIsTrue
<1> QED BY <1>4, <1>5, <1>6, <1>7, <1>8 DEF IInv

LEMMA PollInv == ASSUME IInv, NEW h \in Handles, Poll(h) PROVE IInv'
<1> DEFINE b == read[h].block
           end == poll_read_block(h, b)
           o == end.o
           pend == With(h, end.pending)
           r == IF end.st = "pending" THEN read[h]
                ELSE IF end.st = "failed" THEN [read[h] EXCEPT !.st = "failed"]
                ELSE Got(o.cache, b)
<1>1. /\ Reading(h) /\ h \in woken
      /\ cache' = IF end.st = "read" /\ b \in Cached(o.cache) THEN touch(o.cache, b) ELSE o.cache
      /\ fetching' = o.fetching /\ wakers' = o.wakers
      /\ pending' = pend
      /\ read' = [read EXCEPT ![h] = r]
      /\ woken' = (woken \ {h}) \cup {g \in o.wakes : Reading(g)}
      /\ closed' = closed
  BY DEF Poll, With
<1>2. /\ b \in BlockNums /\ Outcome(h, o, pend)
      /\ end.st \in {"read", "pending", "failed"}
      /\ end.st = "read" => b \in Cached(o.cache)
      /\ end.st = "pending" => \/ end.pending.st = "submitted"
                               \/ b \in o.fetching /\ h \in o.wakers[b]
      /\ end.pending.st # "dropped"
  BY <1>1, PollOutcome
<1>3. /\ pend \in [Handles -> PendingFetch] /\ pend[h] = end.pending
      /\ \A g \in Handles \ {h} : pend[g] = pending[g]
  BY <1>2 DEF Outcome, With, IInv
<1>4. read[h] \in Reads /\ read[h].st = "reading" /\ read \in [Handles -> Reads]
  BY <1>1 DEF IInv, Tasks, Reading
<1> HIDE DEF end
<1>5. /\ r \in Reads /\ r.st # "panic" /\ (r.st = "read" => r.data = DataOf(r.block))
      /\ (r.st = "reading" => end.st = "pending" /\ r = read[h])
  <2>1. CASE end.st = "pending"
    BY <1>4, <2>1
  <2>2. CASE end.st = "failed"
    BY <1>4, <2>2 DEF Reads
  <2>3. CASE end.st = "read"
    <3>1. o.cache.blocks[b] = DataOf(b)
      BY <1>2, <2>3 DEF Outcome, Truthful
    <3>2. r = [st |-> "read", block |-> b, data |-> DataOf(b)]
      BY <1>2, <2>3, <3>1 DEF Got, get
    <3> QED BY <1>2, <3>2 DEF Reads
  <2> QED BY <1>2, <2>1, <2>2, <2>3
<1> HIDE DEF r, pend
<1>6. /\ read' \in [Handles -> Reads] /\ read'[h] = r
      /\ \A g \in Handles \ {h} : read'[g] = read[g]
  BY <1>1, <1>4, <1>5
<1>7. Truthful(cache') /\ Cached(cache') = Cached(o.cache)
  <2>1. Truthful(o.cache)
    BY <1>2 DEF Outcome
  <2>2. IsCache(touch(o.cache, b)) /\ touch(o.cache, b).blocks = o.cache.blocks
    BY <2>1, TouchKeeps DEF Truthful
  <2> QED BY <1>1, <2>1, <2>2 DEF Truthful, Cached
<1>8. Shaped(Here)'
  <2>1. Here' = [cache |-> cache', fetching |-> o.fetching, wakers |-> o.wakers, wakes |-> {}]
    BY <1>1 DEF Here
  <2>2. o.fetching \subseteq BlockNums /\ o.wakers \in [BlockNums -> SUBSET Handles]
    BY <1>2 DEF Outcome, Shaped
  <2> QED BY <2>1, <2>2 DEF Shaped
<1>9. Tasks'
  <2>1. o.wakes \subseteq Handles
    BY <1>2 DEF Outcome, Shaped
  <2>2. \A g \in Handles : (Reading(g))' => g \notin closed'
    BY <1>1, <1>5, <1>6 DEF IInv, Tasks, Reading
  <2>3. \A g \in Handles : pending'[g].st = "dropped" => g \in closed'
    BY <1>1, <1>2, <1>3 DEF IInv, Tasks
  <2>4. woken' \subseteq Handles
    BY <1>1, <2>1 DEF IInv, Tasks
  <2> QED BY <1>6, <2>2, <2>3, <2>4 DEF Tasks
<1>10. OneFetchPerBlock'
  <2>1. Fetches(o, pend)
    BY <1>2 DEF Outcome
  <2> QED BY <1>1, <1>7, <2>1 DEF Fetches, OneFetchPerBlock, Busy, Pending
<1>11. WaiterIsRegistered'
  <2> SUFFICES ASSUME NEW g \in Handles, read'[g].st = "reading", g \notin woken'
               PROVE  \/ pending'[g].st = "submitted"
                      \/ read'[g].block \in fetching' /\ g \in wakers'[read'[g].block]
    BY DEF WaiterIsRegistered, Reading
  <2>1. CASE g = h
    BY <1>1, <1>2, <1>3, <1>5, <1>6, <2>1
  <2>2. CASE g # h
    <3>1. read'[g] = read[g] /\ Reading(g) /\ g \notin woken /\ g \notin o.wakes
      BY <1>1, <1>6, <2>2 DEF Reading
    <3> QED BY <1>1, <1>2, <2>2, <3>1 DEF Outcome, Others
  <2> QED BY <2>1, <2>2
<1>12. ReadIsTrue'
  BY <1>5, <1>6 DEF IInv, ReadIsTrue
<1> QED BY <1>1, <1>3, <1>7, <1>8, <1>9, <1>10, <1>11, <1>12 DEF IInv

LEMMA DropReadInv == ASSUME IInv, NEW h \in Handles, DropRead(h) PROVE IInv'
<1>1. /\ read' = [read EXCEPT ![h] = [@ EXCEPT !.st = "none"]] /\ woken' = woken \ {h}
      /\ UNCHANGED <<cache, fetching, wakers, pending, error, closed>>
  BY DEF DropRead
<1>2. /\ read' \in [Handles -> Reads] /\ read'[h].st = "none"
      /\ \A g \in Handles \ {h} : read'[g] = read[g]
  BY <1>1 DEF IInv, Tasks, Reads
<1>3. Shaped(Here)' /\ Truthful(cache)' /\ pending' \in [Handles -> PendingFetch]
  BY <1>1, FrameKeeps DEF Frame, IInv
<1>4. Tasks'
  BY <1>1, <1>2 DEF IInv, Tasks, Reading
<1>5. OneFetchPerBlock'
  BY <1>1 DEF IInv, OneFetchPerBlock, Pending, Cached
<1>6. WaiterIsRegistered'
  BY <1>1, <1>2 DEF IInv, WaiterIsRegistered, Reading
<1>7. ReadIsTrue'
  BY <1>1, <1>2 DEF IInv, ReadIsTrue
<1> QED BY <1>3, <1>4, <1>5, <1>6, <1>7 DEF IInv

(* The fetch of a closed handle stays in the table: no other store may     *)
(* begin one of the same block.                                            *)
LEMMA CloseHandleInv == ASSUME IInv, NEW h \in Handles, CloseHandle(h) PROVE IInv'
<1> DEFINE s == IF pending[h].st = "none" THEN pending[h].st ELSE "dropped"
<1>1. /\ ~Reading(h) /\ closed' = closed \cup {h}
      /\ pending' = [pending EXCEPT ![h].st = s]
      /\ UNCHANGED <<cache, fetching, wakers, error, read, woken>>
  BY DEF CloseHandle
<1>2. /\ pending' \in [Handles -> PendingFetch] /\ pending'[h].st = s
      /\ \A g \in Handles : pending'[g].block = pending[g].block
      /\ \A g \in Handles \ {h} : pending'[g] = pending[g]
  BY <1>1 DEF IInv, PendingFetch
<1>3. \A g \in Handles : (Pending(g))' <=> Pending(g)
  BY <1>2 DEF Pending
<1>4. Shaped(Here)' /\ Truthful(cache)'
  BY <1>1, FrameKeeps DEF Frame
<1>5. Tasks'
  BY <1>1, <1>2 DEF IInv, Tasks, Reading
<1>6. OneFetchPerBlock'
  BY <1>1, <1>2, <1>3 DEF IInv, OneFetchPerBlock, Cached
<1>7. WaiterIsRegistered'
  BY <1>1, <1>2 DEF IInv, WaiterIsRegistered, Reading
<1>8. ReadIsTrue'
  BY <1>1 DEF IInv, ReadIsTrue
<1> QED BY <1>2, <1>4, <1>5, <1>6, <1>7, <1>8 DEF IInv

LEMMA HostAnswersInv ==
    ASSUME IInv, NEW h \in Handles, NEW st \in {"answered", "failed"}, HostAnswers(h, st)
    PROVE  IInv'
<1>1. /\ pending[h].st = "submitted" /\ pending' = [pending EXCEPT ![h].st = st]
      /\ woken' = IF Reading(h) THEN woken \cup {h} ELSE woken
      /\ UNCHANGED <<cache, fetching, wakers, error, read, closed>>
  BY DEF HostAnswers
<1>2. /\ pending' \in [Handles -> PendingFetch] /\ pending'[h].st = st
      /\ \A g \in Handles : pending'[g].block = pending[g].block
      /\ \A g \in Handles \ {h} : pending'[g] = pending[g]
  BY <1>1 DEF IInv, PendingFetch
<1>3. \A g \in Handles : (Pending(g))' <=> Pending(g)
  BY <1>1, <1>2 DEF Pending
<1>4. Shaped(Here)' /\ Truthful(cache)'
  BY <1>1, FrameKeeps DEF Frame
<1>5. Tasks'
  BY <1>1, <1>2 DEF IInv, Tasks, Reading
<1>6. OneFetchPerBlock'
  BY <1>1, <1>2, <1>3 DEF IInv, OneFetchPerBlock, Cached
<1>7. WaiterIsRegistered'
  BY <1>1, <1>2 DEF IInv, WaiterIsRegistered, Reading
<1>8. ReadIsTrue'
  BY <1>1 DEF IInv, ReadIsTrue
<1> QED BY <1>2, <1>4, <1>5, <1>6, <1>7, <1>8 DEF IInv

-----------------------------------------------------------------------------
LEMMA InitIInv == Init => IInv
<1> SUFFICES ASSUME Init PROVE IInv
  OBVIOUS
<1>1. AnyBlock \in BlockNums
  BY Limits DEF AnyBlock
<1>2. NoFetch \in PendingFetch /\ NoFetch.st = "none" /\ NoRead \in Reads /\ NoRead.st = "none"
  BY <1>1 DEF NoFetch, PendingFetch, NoRead, Reads
<1>3. /\ \A h \in Handles : read[h] = NoRead /\ pending[h] = NoFetch
      /\ read \in [Handles -> Reads] /\ pending \in [Handles -> PendingFetch]
      /\ fetching = {} /\ woken = {} /\ closed = {}
  BY <1>2 DEF Init
<1>4. Shaped(Here)
  BY DEF Init, Here, Shaped
<1>5. Truthful(cache) /\ Cached(cache) = {}
  BY DEF Init, EmptyCache, Truthful, IsCache, Cached
<1>6. Tasks /\ WaiterIsRegistered /\ ReadIsTrue
  BY <1>2, <1>3 DEF Tasks, Reading, WaiterIsRegistered, ReadIsTrue
<1>7. OneFetchPerBlock
  BY <1>2, <1>3 DEF OneFetchPerBlock, Pending
<1> QED BY <1>3, <1>4, <1>5, <1>6, <1>7 DEF IInv

LEMMA NextIInv == IInv /\ [Next]_vars => IInv'
<1> SUFFICES ASSUME IInv, [Next]_vars PROVE IInv'
  OBVIOUS
<1>1. CASE Next
  BY <1>1, StartReadInv, PollInv, DropReadInv, CloseHandleInv, HostAnswersInv DEF Next
<1>2. CASE UNCHANGED vars
  <2>1. Shaped(Here)' /\ Truthful(cache)'
    BY <1>2, FrameKeeps DEF vars, Frame
  <2> QED BY <1>2, <2>1 DEF vars, IInv, Tasks, Reading, OneFetchPerBlock, Pending, Cached,
                            WaiterIsRegistered, ReadIsTrue
<1> QED BY <1>1, <1>2

(* LazyBlockStore uses the cache's fetch coordination "to avoid duplicate  *)
(* host ops" (lazy_block_store.rs): the table of fetches and the stores'   *)
(* pending operations agree, one store to a block.                         *)
THEOREM FetchesAreCoordinated == Spec => []OneFetchPerBlock
<1>1. IInv => OneFetchPerBlock
  BY DEF IInv
<1> QED BY <1>1, InitIInv, NextIInv, PTL DEF Spec

(* No reader of a shared cache misses its wake-up.                         *)
THEOREM WaitersAreRegistered == Spec => []WaiterIsRegistered
<1>1. IInv => WaiterIsRegistered
  BY DEF IInv
<1> QED BY <1>1, InitIInv, NextIInv, PTL DEF Spec

(* ReadFuture::poll finds its block in the cache, and the host's bytes in  *)
(* it, whoever fetched it and whatever was evicted.                        *)
THEOREM ReadsAreTrue == Spec => []ReadIsTrue
<1>1. IInv => ReadIsTrue
  BY DEF IInv
<1> QED BY <1>1, InitIInv, NextIInv, PTL DEF Spec

-----------------------------------------------------------------------------
(* The order of use.  Taking a block out of it and putting it last leaves  *)
(* every block in it once.                                                 *)
InUse(lru) == {lru[i] : i \in DOMAIN lru}
Once(lru) == \A i, j \in DOMAIN lru : lru[i] = lru[j] => i = j

LEMMA Concatenation ==
    ASSUME NEW S, NEW a \in Seq(S), NEW c \in Seq(S)
    PROVE  /\ (a \o c) \in Seq(S) /\ Len(a \o c) = Len(a) + Len(c)
           /\ \A i \in 1 .. Len(a) : (a \o c)[i] = a[i]
           /\ \A i \in 1 .. Len(c) : (a \o c)[Len(a) + i] = c[i]
  OBVIOUS

LEMMA LastUsed ==
    ASSUME NEW lru \in Seq(BlockNums), Once(lru), NEW b \in BlockNums
    PROVE  LET l == Append(RemoveFirst(lru, b), b) IN
           /\ l \in Seq(BlockNums) /\ Once(l)
           /\ InUse(l) = InUse(lru) \cup {b}
           /\ Len(l) = IF b \in InUse(lru) THEN Len(lru) ELSE Len(lru) + 1
<1> DEFINE l == Append(RemoveFirst(lru, b), b)
           n == Len(lru)
<1>0. n \in Nat /\ DOMAIN lru = 1 .. n
  OBVIOUS
<1>1. CASE b \notin InUse(lru)
  <2>1. \A i \in 1 .. n : lru[i] # b
    BY <1>0, <1>1 DEF InUse
  <2>2. l = Append(lru, b)
    BY <2>1 DEF RemoveFirst
  <2> DEFINE m == Append(lru, b)
  <2>3. /\ m \in Seq(BlockNums) /\ Len(m) = n + 1 /\ m[n + 1] = b
        /\ \A i \in 1 .. n : m[i] = lru[i]
    OBVIOUS
  <2>4. DOMAIN m = 1 .. (n + 1)
    OBVIOUS
  <2> HIDE DEF m, n, l
  <2>5. Once(m)
    <3> SUFFICES ASSUME NEW i \in 1 .. (n + 1), NEW j \in 1 .. (n + 1), m[i] = m[j]
                 PROVE  i = j
      BY <2>4 DEF Once
    <3> QED BY <1>0, <2>1, <2>3 DEF Once
  <2>6. InUse(m) = InUse(lru) \cup {b}
    <3>1. \A i \in 1 .. (n + 1) : i = n + 1 \/ i \in 1 .. n
      BY <1>0
    <3>2. n + 1 \in 1 .. (n + 1) /\ \A i \in 1 .. n : i \in 1 .. (n + 1)
      BY <1>0
    <3> QED BY <1>0, <2>3, <2>4, <3>1, <3>2 DEF InUse
  <2> QED BY <1>1, <2>2, <2>3, <2>5, <2>6 DEF m, n, l
<1>2. CASE b \in InUse(lru)
  <2> DEFINE at == {i \in 1 .. n : lru[i] = b}
             k == SelectInSeq(lru, LAMBDA v : v = b)
  <2>1. PICK p \in 1 .. n : lru[p] = b
    BY <1>0, <1>2 DEF InUse
  <2>2. at = {p}
    BY <1>0, <2>1 DEF Once
  <2>3. k = p
    <3>1. k = Min(at)
      BY <2>2 DEF SelectInSeq
    <3>2. Min({p}) = p
      BY <2>1 DEF Min
    <3> QED BY <2>2, <3>1, <3>2
  <2> DEFINE m == SubSeq(lru, 1, p - 1) \o SubSeq(lru, p + 1, n)
  <2>4. l = Append(m, b)
    BY <2>1, <2>3 DEF RemoveFirst, RemoveAt
  <2>5. /\ m \in Seq(BlockNums) /\ Len(m) = n - 1
        /\ \A i \in 1 .. (n - 1) : m[i] = IF i < p THEN lru[i] ELSE lru[i + 1]
    <3> DEFINE a == SubSeq(lru, 1, p - 1)
               c == SubSeq(lru, p + 1, n)
    <3>1. a \in Seq(BlockNums) /\ Len(a) = p - 1 /\ \A i \in 1 .. (p - 1) : a[i] = lru[i]
      BY <2>1
    <3>2. c \in Seq(BlockNums) /\ Len(c) = n - p /\ \A i \in 1 .. (n - p) : c[i] = lru[p + i]
      BY <2>1
    <3> HIDE DEF a, c
    <3>3. /\ (a \o c) \in Seq(BlockNums) /\ Len(a \o c) = Len(a) + Len(c)
          /\ \A i \in 1 .. Len(a) : (a \o c)[i] = a[i]
          /\ \A i \in 1 .. Len(c) : (a \o c)[Len(a) + i] = c[i]
      <4>1. a \in Seq(BlockNums) /\ c \in Seq(BlockNums)
        BY <3>1, <3>2
      <4> QED BY ONLY <4>1, Concatenation
    <3> HIDE DEF n
    <3>4. ASSUME NEW i \in 1 .. (n - 1)
          PROVE  (a \o c)[i] = IF i < p THEN lru[i] ELSE lru[i + 1]
      <4>1. CASE i < p
        <5>1. i \in 1 .. (p - 1)
          BY <1>0, <2>1, <4>1
        <5> QED BY <3>1, <3>3, <4>1, <5>1
      <4>2. CASE i >= p
        <5> DEFINE j == i - (p - 1)
        <5>1. j \in 1 .. (n - p) /\ Len(a) + j = i /\ p + j = i + 1
          BY <1>0, <2>1, <3>1, <4>2
        <5> HIDE DEF j
        <5>2. (a \o c)[i] = c[j] /\ c[j] = lru[i + 1]
          BY <3>2, <3>3, <5>1
        <5> QED BY <1>0, <2>1, <4>2, <5>2
      <4>3. i < p \/ i >= p
        BY <1>0, <2>1
      <4> QED BY <4>1, <4>2, <4>3
    <3>5. Len(a \o c) = n - 1
      BY <1>0, <2>1, <3>1, <3>2, <3>3
    <3> QED BY <3>3, <3>4, <3>5 DEF a, c
  <2> HIDE DEF m, at, k
  <2>6. /\ l \in Seq(BlockNums) /\ Len(l) = n /\ l[n] = b
        /\ \A i \in 1 .. (n - 1) : l[i] = IF i < p THEN lru[i] ELSE lru[i + 1]
    BY <2>1, <2>4, <2>5
  <2>7. DOMAIN l = 1 .. n
    BY <2>6
  <2> HIDE DEF l, n
  <2>8. /\ \A i \in 1 .. n : \E j \in 1 .. n : l[i] = lru[j]
        /\ \A j \in 1 .. n : \E i \in 1 .. n : l[i] = lru[j]
    <3>1. ASSUME NEW i \in 1 .. n PROVE \E j \in 1 .. n : l[i] = lru[j]
      <4>1. CASE i = n
        BY <2>1, <2>6, <4>1
      <4>2. CASE i < p
        BY <1>0, <2>1, <2>6, <4>2
      <4>3. CASE i >= p /\ i # n
        <5>1. i + 1 \in 1 .. n /\ l[i] = lru[i + 1]
          BY <1>0, <2>1, <2>6, <4>3
        <5> QED BY <5>1
      <4> QED BY <1>0, <2>1, <4>1, <4>2, <4>3
    <3>2. ASSUME NEW j \in 1 .. n PROVE \E i \in 1 .. n : l[i] = lru[j]
      <4>1. CASE j = p
        BY <1>0, <2>1, <2>6, <4>1
      <4>2. CASE j < p
        BY <1>0, <2>1, <2>6, <4>2
      <4>3. CASE j > p
        <5>1. j - 1 \in 1 .. n /\ l[j - 1] = lru[j]
          BY <1>0, <2>1, <2>6, <4>3
        <5> QED BY <5>1
      <4> QED BY <1>0, <2>1, <4>1, <4>2, <4>3
    <3> QED BY <3>1, <3>2
  <2>9. InUse(l) = InUse(lru) \cup {b}
    <3>1. InUse(lru) = {lru[j] : j \in 1 .. n} /\ InUse(l) = {l[i] : i \in 1 .. n}
      BY <1>0, <2>7 DEF InUse
    <3>2. ASSUME NEW x \in InUse(l) PROVE x \in InUse(lru)
      BY <2>8, <3>1, <3>2
    <3>3. ASSUME NEW x \in InUse(lru) PROVE x \in InUse(l)
      BY <2>8, <3>1, <3>3
    <3> QED BY <1>2, <3>2, <3>3
  <2>10. Once(l)
    <3> SUFFICES ASSUME NEW i \in 1 .. n, NEW j \in 1 .. n, l[i] = l[j], i < j PROVE FALSE
      BY <1>0, <2>7 DEF Once
    <3> DEFINE from(x) == IF x = n THEN p ELSE IF x < p THEN x ELSE x + 1
    <3>1. \A x \in 1 .. n : from(x) \in 1 .. n /\ l[x] = lru[from(x)]
      BY <1>0, <2>1, <2>6
    <3>2. from(i) # from(j)
      BY <1>0, <2>1
    <3> HIDE DEF from
    <3> QED BY <1>0, <3>1, <3>2 DEF Once
  <2> QED BY <1>2, <2>6, <2>9, <2>10 DEF l, n
<1> QED BY <1>1, <1>2

(* A cache whose order lists the blocks it holds, each once.               *)
OrderInv(c) ==
    /\ c.lru \in Seq(BlockNums) /\ Once(c.lru)
    /\ Cached(c) = InUse(c.lru)
    /\ MaxBlocks > 0 => Len(c.lru) <= MaxBlocks

LEMMA HeldOnce ==
    ASSUME NEW c, c.lru \in Seq(BlockNums), Once(c.lru), Cached(c) = InUse(c.lru)
    PROVE  Cardinality(Cached(c)) = Len(c.lru)
<1>1. Len(c.lru) \in Nat /\ DOMAIN c.lru = 1 .. Len(c.lru)
  OBVIOUS
<1>2. c.lru \in Bijection(1 .. Len(c.lru), Cached(c))
  <2>1. c.lru \in [1 .. Len(c.lru) -> Cached(c)]
    BY <1>1 DEF InUse
  <2>2. \A i, j \in 1 .. Len(c.lru) : c.lru[i] = c.lru[j] => i = j
    BY <1>1 DEF Once
  <2>3. \A x \in Cached(c) : \E i \in 1 .. Len(c.lru) : c.lru[i] = x
    BY <1>1 DEF InUse
  <2> QED BY <2>1, <2>2, <2>3 DEF Bijection, Injection, Surjection, IsInjective
<1>3. ExistsBijection(1 .. Len(c.lru), Cached(c))
  BY <1>2 DEF ExistsBijection
<1> QED BY <1>1, <1>3, FS_CountingElements

LEMMA OrderIsWellFormed == ASSUME NEW c, OrderInv(c) PROVE WellFormed(c)
  BY HeldOnce DEF OrderInv, WellFormed, InUse

LEMMA TouchOrder ==
    ASSUME NEW c, IsCache(c), OrderInv(c), NEW b \in Cached(c)
    PROVE  OrderInv(touch(c, b))
<1> DEFINE l == Append(RemoveFirst(c.lru, b), b)
<1>1. b \in BlockNums /\ b \in InUse(c.lru)
  BY DEF OrderInv, InUse
<1>2. touch(c, b) = [blocks |-> c.blocks, lru |-> l]
  BY DEF IsCache, touch
<1>3. l \in Seq(BlockNums) /\ Once(l) /\ InUse(l) = InUse(c.lru) /\ Len(l) = Len(c.lru)
  <2>1. /\ l \in Seq(BlockNums) /\ Once(l) /\ InUse(l) = InUse(c.lru) \cup {b}
        /\ Len(l) = IF b \in InUse(c.lru) THEN Len(c.lru) ELSE Len(c.lru) + 1
    BY <1>1, LastUsed DEF OrderInv
  <2> HIDE DEF l
  <2> QED BY <1>1, <2>1
<1> HIDE DEF l
<1> QED BY <1>2, <1>3 DEF OrderInv, Cached

LEMMA EvictOrder ==
    ASSUME NEW c, IsCache(c), OrderInv(c)
    PROVE  /\ OrderInv(evict_lru(c)) /\ IsCache(evict_lru(c))
           /\ Cached(evict_lru(c)) \subseteq Cached(c)
           /\ c.lru # <<>> => Len(evict_lru(c).lru) = Len(c.lru) - 1
<1>1. CASE c.lru = <<>>
  BY <1>1 DEF evict_lru
<1>2. CASE c.lru # <<>>
  <2> DEFINE rest == [n \in Cached(c) \ {Head(c.lru)} |-> c.blocks[n]]
             t == Tail(c.lru)
             n == Len(c.lru)
  <2>1. evict_lru(c) = [blocks |-> rest, lru |-> t]
    BY <1>2 DEF evict_lru
  <2>2. /\ n \in Nat /\ n >= 1 /\ Head(c.lru) = c.lru[1] /\ t \in Seq(BlockNums)
        /\ Len(t) = n - 1 /\ \A i \in 1 .. (n - 1) : t[i] = c.lru[i + 1]
        /\ DOMAIN t = 1 .. (n - 1) /\ DOMAIN c.lru = 1 .. n
    BY <1>2 DEF OrderInv
  <2>3. DOMAIN rest = Cached(c) \ {c.lru[1]}
    BY <2>2
  <2> HIDE DEF rest, t, n
  <2>4. Once(t)
    <3> SUFFICES ASSUME NEW i \in 1 .. (n - 1), NEW j \in 1 .. (n - 1), t[i] = t[j]
                 PROVE  i = j
      BY <2>2 DEF Once
    <3>1. i + 1 \in 1 .. n /\ j + 1 \in 1 .. n /\ c.lru[i + 1] = c.lru[j + 1]
      BY <2>2
    <3>2. i + 1 = j + 1
      BY <2>2, <3>1 DEF OrderInv, Once
    <3> QED BY <2>2, <3>2
  <2>5. ASSUME NEW x PROVE x \in InUse(t) <=> x \in InUse(c.lru) /\ x # c.lru[1]
    <3>1. ASSUME x \in InUse(t) PROVE x \in InUse(c.lru) /\ x # c.lru[1]
      <4>1. PICK i \in 1 .. (n - 1) : x = t[i]
        BY <2>2, <3>1 DEF InUse
      <4>2. i + 1 \in 1 .. n /\ 1 \in 1 .. n /\ i + 1 # 1 /\ x = c.lru[i + 1]
        BY <2>2, <4>1
      <4> QED BY <2>2, <4>2 DEF InUse, OrderInv, Once
    <3>2. ASSUME x \in InUse(c.lru), x # c.lru[1] PROVE x \in InUse(t)
      <4>1. PICK i \in 1 .. n : x = c.lru[i]
        BY <2>2, <3>2 DEF InUse
      <4>2. i # 1
        BY <3>2, <4>1
      <4>3. i - 1 \in 1 .. (n - 1) /\ (i - 1) + 1 = i
        BY <2>2, <4>1, <4>2
      <4>4. x = t[i - 1]
        BY <2>2, <4>1, <4>3
      <4> QED BY <2>2, <4>3, <4>4 DEF InUse
    <3> QED BY <3>1, <3>2
  <2>6. DOMAIN rest = InUse(t)
    BY <2>3, <2>5 DEF OrderInv
  <2>7. MaxBlocks > 0 => Len(t) <= MaxBlocks
    BY <2>2, CacheLimit DEF OrderInv, n
  <2> QED BY <2>1, <2>2, <2>3, <2>4, <2>6, <2>7 DEF OrderInv, IsCache, Cached, n
<1> QED BY <1>1, <1>2

LEMMA InsertOrder ==
    ASSUME NEW c, IsCache(c), OrderInv(c), NEW b \in BlockNums, NEW data
    PROVE  OrderInv(insert(c, b, data))
<1> DEFINE d == IF Full(c, b) THEN evict_lru(c) ELSE c
           more == [n \in Cached(d) \cup {b} |-> IF n = b THEN data ELSE d.blocks[n]]
           e == put(d, b, data)
           l == Append(RemoveFirst(d.lru, b), b)
<1>1. IsCache(d) /\ OrderInv(d) /\ Cached(d) \subseteq Cached(c)
  BY EvictOrder
<1>2. MaxBlocks > 0 /\ b \notin Cached(d) => Len(d.lru) < MaxBlocks
  <2>1. Cardinality(Cached(c)) = Len(c.lru) /\ Len(c.lru) \in Nat
    BY HeldOnce DEF OrderInv
  <2>2. CASE Full(c, b)
    <3>1. MaxBlocks > 0 /\ Len(c.lru) >= MaxBlocks
      BY <2>1, <2>2 DEF Full
    <3>2. c.lru # <<>>
      BY <3>1, CacheLimit
    <3>3. Len(d.lru) = Len(c.lru) - 1 /\ Len(c.lru) <= MaxBlocks
      BY <2>2, <3>1, <3>2, EvictOrder DEF OrderInv
    <3> HIDE DEF d
    <3> QED BY <2>1, <3>3, CacheLimit
  <2>3. CASE ~Full(c, b)
    BY <2>1, <2>3, CacheLimit DEF Full
  <2> QED BY <2>2, <2>3
<1> HIDE DEF d
<1>3. e = [blocks |-> more, lru |-> d.lru]
  BY <1>1 DEF put, IsCache
<1>4. DOMAIN more = Cached(d) \cup {b}
  OBVIOUS
<1> HIDE DEF more
<1>5. insert(c, b, data) = [blocks |-> more, lru |-> l]
  <2>1. insert(c, b, data) = touch(e, b)
    BY DEF insert, d
  <2> HIDE DEF e
  <2> QED BY <1>3, <2>1 DEF touch
<1>6. /\ l \in Seq(BlockNums) /\ Once(l) /\ InUse(l) = InUse(d.lru) \cup {b}
      /\ Len(l) = IF b \in InUse(d.lru) THEN Len(d.lru) ELSE Len(d.lru) + 1
  BY <1>1, LastUsed DEF OrderInv
<1>7. MaxBlocks > 0 => Len(l) <= MaxBlocks
  <2>1. Len(d.lru) \in Nat /\ Len(l) \in Nat
    BY <1>1, <1>6 DEF OrderInv
  <2> HIDE DEF l
  <2> QED BY <1>1, <1>2, <1>6, <2>1, CacheLimit DEF OrderInv
<1> HIDE DEF l
<1> QED BY <1>1, <1>4, <1>5, <1>6, <1>7 DEF OrderInv, Cached

-----------------------------------------------------------------------------
(* A poll leaves the order of use in order: it inserts the block it        *)
(* fetched, or none past the end of the file, or the one and then the      *)
(* other.                                                                  *)
LEMMA TryBlockOrder ==
    ASSUME NEW h, NEW b \in BlockNums, NEW o,
           Shaped(o), IsCache(o.cache), OrderInv(o.cache)
    PROVE  OrderInv(TryBlock(h, b, o).o.cache)
<1> DEFINE end == TryBlock(h, b, o)
           q == complete_fetch(o, b, <<>>)
<1>1. OrderInv(q.cache)
  <2>1. q = [Settle(o, b) EXCEPT !.cache = insert(Settle(o, b).cache, b, <<>>)]
    BY DEF complete_fetch
  <2>2. Shaped(Settle(o, b)) /\ Settle(o, b).cache = o.cache
    BY SettleKeeps
  <2>3. q.cache = insert(o.cache, b, <<>>)
    <3> HIDE DEF q
    <3> QED BY <2>1, <2>2 DEF Shaped
  <2> QED BY <2>3, InsertOrder
<1> HIDE DEF q
<1>2. CASE b \in Cached(o.cache)
  BY <1>2 DEF TryBlock, try_start_fetch, Ends
<1>3. CASE b \notin Cached(o.cache) /\ b \in o.fetching
  <2>1. end.o = [o EXCEPT !.wakers[b] = @ \cup {h}]
    BY <1>3 DEF TryBlock, try_start_fetch, Ends
  <2>2. end.o.cache = o.cache
    BY <2>1 DEF Shaped
  <2> QED BY <2>2
<1>4. CASE b \notin Cached(o.cache) /\ b \notin o.fetching /\ b \notin InFile
  <2>1. end = Ends(q, NoFetch, "read")
    BY <1>4 DEF TryBlock, try_start_fetch, q
  <2> QED BY <1>1, <2>1 DEF Ends
<1>5. CASE b \notin Cached(o.cache) /\ b \notin o.fetching /\ b \in InFile
  BY <1>5 DEF TryBlock, try_start_fetch, Ends
<1> QED BY <1>2, <1>3, <1>4, <1>5

LEMMA PollOrder ==
    ASSUME IInv, OrderInv(cache), NEW h \in Handles, Reading(h)
    PROVE  OrderInv(poll_read_block(h, read[h].block).o.cache)
<1> DEFINE b == read[h].block
           p == pending[h]
           end == poll_read_block(h, b)
           done == complete_fetch(Here, p.block, DataOf(p.block))
           gone == cancel_fetch(Here, p.block)
<1>1. b \in BlockNums /\ p.block \in BlockNums
  BY DEF IInv, Tasks, Reads, PendingFetch
<1>2. Here.cache = cache /\ Shaped(Here) /\ IsCache(cache)
  BY DEF Here, IInv, Truthful
<1>3. Shaped(done) /\ done.cache = insert(cache, p.block, DataOf(p.block))
  BY <1>1, <1>2, CompleteKeeps
<1>4. IsCache(done.cache) /\ OrderInv(done.cache)
  <2>1. Truthful(insert(cache, p.block, DataOf(p.block)))
    BY InsertKeeps DEF IInv
  <2>2. OrderInv(insert(cache, p.block, DataOf(p.block)))
    BY <1>1, <1>2, InsertOrder
  <2> HIDE DEF done
  <2> QED BY <1>3, <2>1, <2>2 DEF Truthful
<1>5. gone.cache = cache
  BY <1>1, <1>2, SettleKeeps DEF cancel_fetch
<1> HIDE DEF done, gone
<1>6. CASE end.o = Here \/ end.o = done \/ end.o = gone
  BY <1>2, <1>4, <1>5, <1>6
<1>7. CASE end = TryBlock(h, b, Here) \/ end = TryBlock(h, b, done)
  <2> HIDE DEF end, b
  <2> QED BY <1>1, <1>2, <1>3, <1>4, <1>7, TryBlockOrder DEF end, b
<1>8. \/ end.o = Here \/ end.o = done \/ end.o = gone
      \/ end = TryBlock(h, b, Here) \/ end = TryBlock(h, b, done)
  BY DEF poll_read_block, Ends, done, gone
<1> QED BY <1>6, <1>7, <1>8

LEMMA StepOrder == IInv /\ OrderInv(cache) /\ [Next]_vars => OrderInv(cache')
<1> SUFFICES ASSUME IInv, OrderInv(cache), [Next]_vars PROVE OrderInv(cache')
  OBVIOUS
<1>1. ASSUME NEW h \in Handles, Poll(h) PROVE OrderInv(cache')
  <2> DEFINE b == read[h].block
             end == poll_read_block(h, b)
             o == end.o
  <2>1. /\ Reading(h)
        /\ cache' = IF end.st = "read" /\ b \in Cached(o.cache) THEN touch(o.cache, b) ELSE o.cache
    BY <1>1 DEF Poll
  <2>2. OrderInv(o.cache) /\ IsCache(o.cache)
    BY <2>1, PollOrder, PollOutcome DEF Outcome, Truthful
  <2> HIDE DEF o
  <2> QED BY <2>1, <2>2, TouchOrder
<1>2. CASE UNCHANGED cache
  BY <1>2
<1> QED BY <1>1, <1>2 DEF Next, vars, StartRead, DropRead, CloseHandle, HostAnswers

Counted ==
    /\ error \in SUBSET Handles /\ closed \in SUBSET Handles
    /\ reads \in Nat /\ failures \in Nat
LEMMA StepCounted == Counted /\ [Next]_vars => Counted'
  BY DEF Counted, Next, vars, StartRead, Poll, DropRead, CloseHandle, HostAnswers

CacheInv == IInv /\ OrderInv(cache) /\ Counted
LEMMA InitCacheInv == Init => CacheInv
<1>1. Init => OrderInv(cache) /\ Counted
  BY CacheLimit DEF Init, EmptyCache, OrderInv, Once, InUse, Cached, Counted
<1> QED BY <1>1, InitIInv DEF CacheInv
LEMMA StepCacheInv == CacheInv /\ [Next]_vars => CacheInv'
<1>1. OrderInv(cache') <=> OrderInv(cache)'
  BY DEF OrderInv, Once, InUse, Cached
<1> QED BY <1>1, NextIInv, StepOrder, StepCounted DEF CacheInv

(* The cache never holds more than its limit, and its order of use lists   *)
(* exactly the blocks it holds, each once: evict_lru always finds one to   *)
(* let go, whatever touch and insert did before.                           *)
THEOREM CacheIsInOrder == Spec => []TypeOK
<1>1. CacheInv => TypeOK
  <2>1. Shaped(Here) => fetching \in SUBSET BlockNums /\ wakers \in [BlockNums -> SUBSET Handles]
    BY DEF Shaped, Here
  <2> QED BY <2>1, OrderIsWellFormed DEF CacheInv, IInv, Counted, Tasks, TypeOK
<1> QED BY <1>1, InitCacheInv, StepCacheInv, PTL DEF Spec
=============================================================================
