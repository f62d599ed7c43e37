------------------------------ MODULE LazyBlocks ------------------------------
(***************************************************************************)
(* Blocks of a host file fetched when they are read                        *)
(* (crates/amla-sandbox-vfs/src/lazy_block_store.rs and the fetch          *)
(* coordination of page_cache.rs).  The handles of one file share a cache; *)
(* the first that misses a block fetches it and the others wait for it.    *)
(*                                                                         *)
(* A handle reads one block at a time (ReadFuture of file_handle.rs).  Its *)
(* reads may be dropped, and so may the handle; the host answers when it   *)
(* likes.  That an answered operation wakes who polled it last is what     *)
(* module HostChannel shows of the channel.                                *)
(***************************************************************************)
EXTENDS PageCache

CONSTANTS
  Handles,     \* the handles of the file, each with a LazyBlockStore
  InFile,      \* the blocks that lie before the end of the host's file
  MaxReads,    \* bound: reads begun
  MaxFailures  \* bound: fetches that fail

ASSUME Limits == /\ BlockNums # {} /\ InFile \subseteq BlockNums
                 /\ MaxReads \in Nat /\ MaxFailures \in Nat

VARIABLES
  cache,            \* the PageCache
  fetching,         \* the keys of its pending_fetches
  wakers,           \* and the tasks to wake for each
  pending,          \* handle -> its store's PendingFetch
  error,            \* handles whose store has failed
  read,             \* handle -> its ReadFuture, or what it came to
  woken,            \* handles whose task will poll
  closed,           \* handles that are dropped
  reads, failures   \* counts, for the bounds

vars == <<cache, fetching, wakers, pending, error, read, woken, closed, reads, failures>>

\* What a block holds: the host's bytes, or nothing past the end of the file.
DataOf(b) == IF b \in InFile THEN <<b>> ELSE <<>>

PendingFetch == [block : BlockNums,
                 st : {"none", "submitted", "answered", "failed", "dropped"}]
Reads == [st : {"none", "reading", "read", "failed", "panic"},
          block : BlockNums, data : {DataOf(b) : b \in BlockNums}]

TypeOK ==
  /\ WellFormed(cache)
  /\ fetching \in SUBSET BlockNums
  /\ wakers \in [BlockNums -> SUBSET Handles]
  /\ pending \in [Handles -> PendingFetch]
  /\ error \in SUBSET Handles
  /\ read \in [Handles -> Reads]
  /\ woken \in SUBSET Handles
  /\ closed \in SUBSET Handles
  /\ reads \in Nat
  /\ failures \in Nat

AnyBlock == CHOOSE b \in BlockNums : TRUE
NoFetch == [block |-> AnyBlock, st |-> "none"]
NoRead == [st |-> "none", block |-> AnyBlock, data |-> DataOf(AnyBlock)]

Init ==
  /\ cache = EmptyCache
  /\ fetching = {}
  /\ wakers = [b \in BlockNums |-> {}]
  /\ pending = [h \in Handles |-> NoFetch]
  /\ error = {}
  /\ read = [h \in Handles |-> NoRead]
  /\ woken = {}
  /\ closed = {}
  /\ reads = 0
  /\ failures = 0

Reading(h) == read[h].st = "reading"
Pending(h) == pending[h].st # "none"

-----------------------------------------------------------------------------
(* poll_read_block, as the outcome of the state it finds: the cache, the   *)
(* fetches with their wakers, the store's pending fetch, whom it woke, and *)
(* how the read ends ("pending" if it does not).                           *)

Here == [cache |-> cache, fetching |-> fetching, wakers |-> wakers, wakes |-> {}]

\* The fetch of b is over: its entry goes and who waits is woken.
Settle(o, b) ==
  [cache |-> o.cache, fetching |-> o.fetching \ {b},
   wakers |-> [o.wakers EXCEPT ![b] = {}], wakes |-> o.wakes \cup o.wakers[b]]

complete_fetch(o, b, data) == [Settle(o, b) EXCEPT !.cache = insert(@, b, data)]

\* Mutant: who waits learns nothing of a fetch that failed.
cancel_fetch_silent(o, b) == [o EXCEPT !.fetching = @ \ {b}, !.wakers = [@ EXCEPT ![b] = {}]]
\* Mutant: nor that it is over.
cancel_fetch_kept(o, b) == o
cancel_fetch(o, b) == Settle(o, b)

\* Mutant: every store that misses fetches.
try_start_fetch_eager(o, b) == IF b \in Cached(o.cache) THEN "Cached" ELSE "Fetch"

try_start_fetch(o, b) ==
  IF b \in Cached(o.cache) THEN "Cached" ELSE IF b \in o.fetching THEN "Wait" ELSE "Fetch"

Ends(o, p, st) == [o |-> o, pending |-> p, st |-> st]

\* The store has nothing pending: the block is cached, or is fetched by another
\* (whose waiter this task becomes), or lies past the end, or is fetched now:
\* polled once, so that the operation has this task's waker.
TryBlock(h, b, o) ==
  LET action == try_start_fetch(o, b) IN
  IF action = "Cached" THEN Ends(o, NoFetch, "read")
  ELSE IF action = "Wait"
  THEN Ends([o EXCEPT !.wakers[b] = @ \cup {h}], NoFetch, "pending")
  ELSE IF b \notin InFile
  THEN Ends(complete_fetch(o, b, <<>>), NoFetch, "read")
  ELSE Ends([cache |-> o.cache, fetching |-> o.fetching \cup {b},
             wakers |-> [o.wakers EXCEPT ![b] = {}], wakes |-> o.wakes],
            [block |-> b, st |-> "submitted"], "pending")

\* Mutant: once the fetch of another block is done the block is taken for cached.
poll_read_block_unchecked(h, b) ==
  LET p == pending[h]
      done == complete_fetch(Here, p.block, DataOf(p.block)) IN
  IF h \in error THEN Ends(Here, p, "failed")
  ELSE IF p.st = "none" THEN TryBlock(h, b, Here)
  ELSE IF p.st = "submitted" THEN Ends(Here, p, "pending")
  ELSE IF p.st = "failed" THEN Ends(cancel_fetch(Here, p.block), NoFetch, "failed")
  ELSE Ends(done, NoFetch, "read")

poll_read_block(h, b) ==
  LET p == pending[h]
      done == complete_fetch(Here, p.block, DataOf(p.block)) IN
  IF h \in error THEN Ends(Here, p, "failed")
  ELSE IF p.st = "none" THEN TryBlock(h, b, Here)
  ELSE IF p.st = "submitted" THEN Ends(Here, p, "pending")
  ELSE IF p.st = "failed" THEN Ends(cancel_fetch(Here, p.block), NoFetch, "failed")
  ELSE IF p.block = b THEN Ends(done, NoFetch, "read")
  ELSE TryBlock(h, b, done)

-----------------------------------------------------------------------------
(* The readers.                                                            *)

\* The task of h reads (having sought to) block b.
StartRead(h, b) ==
  /\ h \notin closed /\ ~Reading(h) /\ reads < MaxReads
  /\ read' = [read EXCEPT ![h] = [st |-> "reading", block |-> b, data |-> DataOf(b)]]
  /\ woken' = woken \cup {h}
  /\ reads' = reads + 1
  /\ UNCHANGED <<cache, fetching, wakers, pending, error, closed, failures>>

\* What cache.get(b).unwrap() gives the future once its block is there.
Got(c, b) == IF b \in Cached(c) THEN [st |-> "read", block |-> b, data |-> get(c, b)]
             ELSE [st |-> "panic", block |-> b, data |-> DataOf(b)]

Poll(h) ==
  /\ h \in woken /\ Reading(h)
  /\ LET b == read[h].block
         end == poll_read_block(h, b)
         o == end.o IN
     /\ cache' = IF end.st = "read" /\ b \in Cached(o.cache) THEN touch(o.cache, b)
                 ELSE o.cache
     /\ fetching' = o.fetching
     /\ wakers' = o.wakers
     /\ pending' = [pending EXCEPT ![h] = end.pending]
     /\ error' = IF end.st = "failed" THEN error \cup {h} ELSE error
     /\ read' = [read EXCEPT ![h] = IF end.st = "pending" THEN @
                                    ELSE IF end.st = "failed" THEN [@ EXCEPT !.st = "failed"]
                                    ELSE Got(o.cache, b)]
     /\ woken' = (woken \ {h}) \cup {g \in o.wakes : Reading(g)}
  /\ UNCHANGED <<closed, reads, failures>>

\* The ReadFuture is dropped (its task is cancelled, or a select took another
\* branch); the store keeps what it has pending.
DropRead(h) ==
  /\ Reading(h)
  /\ read' = [read EXCEPT ![h] = [@ EXCEPT !.st = "none"]]
  /\ woken' = woken \ {h}
  /\ UNCHANGED <<cache, fetching, wakers, pending, error, closed, reads, failures>>

\* The handle goes, its store with it, and the host operation with the store;
\* nothing tells the cache.
CloseHandle(h) ==
  /\ h \notin closed /\ ~Reading(h)
  /\ closed' = closed \cup {h}
  /\ pending' = [pending EXCEPT ![h].st = IF @ = "none" THEN @ ELSE "dropped"]
  /\ UNCHANGED <<cache, fetching, wakers, error, read, woken, reads, failures>>

\* The host answers a fetch, or fails it: the task that polled the operation
\* last, which is the one of the store, is woken.
HostAnswers(h, st) ==
  /\ pending[h].st = "submitted"
  /\ st = "failed" => failures < MaxFailures
  /\ pending' = [pending EXCEPT ![h].st = st]
  /\ failures' = IF st = "failed" THEN failures + 1 ELSE failures
  /\ woken' = IF Reading(h) THEN woken \cup {h} ELSE woken
  /\ UNCHANGED <<cache, fetching, wakers, error, read, closed, reads>>

Next ==
  \E h \in Handles :
    \/ \E b \in BlockNums : StartRead(h, b)
    \/ Poll(h)
    \/ DropRead(h)
    \/ CloseHandle(h)
    \/ \E st \in {"answered", "failed"} : HostAnswers(h, st)

Spec == Init /\ [][Next]_vars

\* Woken tasks are polled, and the host answers every fetch in some way.
Fairness == \A h \in Handles : WF_vars(Poll(h)) /\ WF_vars(HostAnswers(h, "answered"))

FairSpec == Spec /\ Fairness

-----------------------------------------------------------------------------
(* Properties.                                                             *)

\* A read gives the bytes of its own block, whoever fetched it and whatever
\* was evicted meanwhile; the unwrap in ReadFuture::poll never finds nothing.
ReadIsTrue ==
  \A h \in Handles : /\ read[h].st # "panic"
                     /\ read[h].st = "read" => read[h].data = DataOf(read[h].block)

\* Duplicate host operations are avoided: the cache's entry for a block stands
\* for the fetch of exactly one store (perhaps of a dropped handle), and what is
\* being fetched is not cached.
OneFetchPerBlock ==
  /\ \A h \in Handles : Pending(h) => /\ pending[h].block \in fetching
                                     /\ pending[h].block \notin Cached(cache)
  /\ \A b \in fetching : \E h \in Handles : Pending(h) /\ pending[h].block = b
  /\ \A g, h \in Handles :
       Pending(g) /\ Pending(h) /\ pending[g].block = pending[h].block => g = h

\* No lost wake-up: a read that nobody will poll has a fetch of its own in the
\* host's hands, or is registered with the fetch of its block.
WaiterIsRegistered ==
  \A h \in Handles : (Reading(h) /\ h \notin woken) =>
    \/ pending[h].st = "submitted"
    \/ read[h].block \in fetching /\ h \in wakers[read[h].block]

\* Nobody is left to finish the fetch of b: the handle whose store began it is
\* gone, or reads no more.
Abandoned(b) ==
  \E h \in Handles : Pending(h) /\ pending[h].block = b /\ ~Reading(h)

\* A read ends, fails or is dropped, except behind a fetch that was abandoned.
OnlyAbandonedFetchHangs ==
  \A h \in Handles : Reading(h) ~> (~Reading(h) \/ Abandoned(read[h].block))

\* "Host op completes: Block cached, all waiters woken" (lazy_block_store.rs,
\* Fetch Coordination): every read ends.
ReadsEnd == \A h \in Handles : Reading(h) ~> ~Reading(h)
=============================================================================
