------------------------------ MODULE PageCache ------------------------------
(***************************************************************************)
(* The cache of a file's blocks                                            *)
(* (crates/amla-sandbox-vfs/src/page_cache.rs), shared by every handle of  *)
(* the file: the blocks held, and the order in which they were last used.  *)
(* The cache is a value here; who holds it, and the fetches under way, are *)
(* the concern of the modules that extend this one.                        *)
(***************************************************************************)
EXTENDS Naturals, FiniteSets, SequencesExt

CONSTANTS
  BlockNums,  \* the block numbers that are used
  MaxBlocks   \* PageCacheConfig::max_blocks; 0 is no limit

ASSUME CacheLimit == MaxBlocks \in Nat

EmptyCache == [blocks |-> <<>>, lru |-> <<>>]

Cached(c) == DOMAIN c.blocks

touch(c, b) == [c EXCEPT !.lru = Append(RemoveFirst(c.lru, b), b)]

\* get() is touch() and the block, where the block is there.
get(c, b) == c.blocks[b]

evict_lru(c) ==
  IF c.lru = <<>> THEN c
  ELSE [blocks |-> [n \in Cached(c) \ {Head(c.lru)} |-> c.blocks[n]],
        lru |-> Tail(c.lru)]

\* Mutant: one block too many.
Full_late(c, b) == /\ MaxBlocks > 0
                   /\ b \notin Cached(c)
                   /\ Cardinality(Cached(c)) > MaxBlocks
Full(c, b) == /\ MaxBlocks > 0
              /\ b \notin Cached(c)
              /\ Cardinality(Cached(c)) >= MaxBlocks

put(c, b, data) ==
  [c EXCEPT !.blocks = [n \in Cached(c) \cup {b} |-> IF n = b THEN data ELSE @[n]]]

\* insert: a new block displaces the one unused for longest.
insert(c, b, data) == touch(put(IF Full(c, b) THEN evict_lru(c) ELSE c, b, data), b)

\* The order lists the blocks held, each once, and there are never too many.
WellFormed(c) ==
  /\ Cached(c) = {c.lru[i] : i \in DOMAIN c.lru}
  /\ Len(c.lru) = Cardinality(Cached(c))
  /\ MaxBlocks > 0 => Len(c.lru) <= MaxBlocks
=============================================================================
