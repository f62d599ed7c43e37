------------------------------- MODULE AsyncVfs -------------------------------
(***************************************************************************)
(* Files opened by descriptor (crates/amla-sandbox-vfs/src/async_vfs.rs,   *)
(* file_handle.rs, and MemoryBlockStore of block_store.rs).  A handle has  *)
(* its own copy of the file, taken when it was opened, and shares a page   *)
(* cache with the other handles of the path; closing it puts the file      *)
(* together from the cache and writes it back to the tree, whatever has    *)
(* become of the path meanwhile.  The tree's own operations (module Vfs)   *)
(* go on while files are open.                                             *)
(***************************************************************************)
EXTENDS Vfs, PageCache, SequencesExt

CONSTANTS
  Fds,        \* file descriptors
  FilePaths,  \* the paths that are opened
  BlockSize,  \* BLOCK_SIZE
  MaxSync,    \* bound: operations on the tree
  MaxAsync    \* bound: operations on descriptors

ASSUME BlockSizeIsPositive == BlockSize \in Nat \ {0}
ASSUME FilesArePaths == FilePaths \subseteq Paths

VARIABLES
  caches,   \* path -> its PageCache and file_size, for the paths in use
  fd,       \* descriptor -> OpenFile
  written,  \* history: path -> what its handle should find and leave there
  orderly,  \* history: the paths used as the code expects (Disorder below)
  syncs, asyncs  \* counts, for the bounds

vars == <<entries, caches, fd, written, orderly, syncs, asyncs>>

Modes == {"Read", "Write", "ReadWrite", "Append"}
can_read(mode) == mode \in {"Read", "ReadWrite"}
can_write(mode) == mode # "Read"

Bytes == 0 .. 9
ClosedFile == [st |-> "closed", path |-> Root, mode |-> "Read", pos |-> 0, data |-> <<>>]
IsOpen(d) == fd[d].st = "open"
HandlesOf(p) == {d \in Fds : IsOpen(d) /\ fd[d].path = p}

OpenFile == [st : {"open", "closed"}, path : Paths, mode : Modes, pos : Nat, data : Seq(Nat)]
IsCache(c) == /\ c = [blocks |-> c.blocks, lru |-> c.lru]
              /\ Cached(c) \subseteq Nat
              /\ c.blocks \in [Cached(c) -> Seq(Nat)]

TypeOK ==
  /\ Typed(entries)
  /\ fd \in [Fds -> OpenFile]
  /\ \A d \in Fds : IsOpen(d) => fd[d].path \in FilePaths
  /\ DOMAIN caches = {p \in FilePaths : HandlesOf(p) # {}}
  /\ caches = [p \in DOMAIN caches |-> [cache |-> caches[p].cache, size |-> caches[p].size]]
  /\ \A p \in DOMAIN caches : IsCache(caches[p].cache) /\ caches[p].size \in Nat
  /\ written \in [FilePaths -> Seq(Nat)]
  /\ orderly \subseteq FilePaths
  /\ asyncs \in Nat

Init ==
  /\ VfsInit
  /\ caches = <<>>
  /\ fd = [d \in Fds |-> ClosedFile]
  /\ written = [p \in FilePaths |-> <<>>]
  /\ orderly = FilePaths
  /\ syncs = 0
  /\ asyncs = 0

-----------------------------------------------------------------------------
(* Bytes and blocks.                                                       *)

Min2(a, b) == IF a < b THEN a ELSE b
Max2(a, b) == IF a > b THEN a ELSE b

\* Vec::resize with zeros, where it grows.
Grown(s, n) == [i \in 1 .. Max2(Len(s), n) |-> IF i <= Len(s) THEN s[i] ELSE 0]

\* copy_from_slice at offset, into a vector that is long enough.
Patched(s, offset, t) ==
  [i \in 1 .. Max2(Len(s), offset + Len(t)) |->
     IF i > offset /\ i <= offset + Len(t) THEN t[i - offset] ELSE s[i]]

NumBlocks(size) == (size + BlockSize - 1) \div BlockSize
BlockOf(s, b) == SubSeq(s, b * BlockSize + 1, Min2((b + 1) * BlockSize, Len(s)))

\* close(): the cached blocks one after the other, without those that are not
\* cached, cut at the file's size.
Reconstruct(c, size) ==
  LET joined[n \in 0 .. NumBlocks(size)] ==   \* of the first n blocks
        IF n = 0 THEN <<>>
        ELSE IF n - 1 \in Cached(c) THEN joined[n - 1] \o get(c, n - 1) ELSE joined[n - 1]
      all == joined[NumBlocks(size)] IN
  SubSeq(all, 1, Min2(size, Len(all)))
\* Getting them makes them the blocks used last.
Visited(c, size) ==
  LET visited[n \in 0 .. NumBlocks(size)] ==
        IF n = 0 THEN c
        ELSE IF n - 1 \in Cached(c) THEN touch(visited[n - 1], n - 1) ELSE visited[n - 1] IN
  visited[NumBlocks(size)]

-----------------------------------------------------------------------------
(* What the code takes for granted of a path in use: one handle at a time, *)
(* in a directory, a tree left alone under it, no hole a block long,       *)
(* appends at the end, no write that pads, and room for the file in the    *)
(* cache.                                                                  *)

Disorder(p, so) == orderly' = IF so THEN orderly \ {p} ELSE orderly

\* What changes the tree disturbs the open files whose entry, or that of a
\* directory above them, it changes.
SameEntry(e, f, q) == IF q \in DOMAIN e THEN q \in DOMAIN f /\ f[q] = e[q]
                      ELSE q \notin DOMAIN f

Disturbed(e, f) ==
  {p \in FilePaths : HandlesOf(p) # {} /\ \E n \in 0 .. Len(p) : ~SameEntry(e, f, Prefix(p, n))}

SafeHole(pos, size) == pos \div BlockSize <= size \div BlockSize

-----------------------------------------------------------------------------
(* open and close.                                                         *)

\* Mutant: any mode that writes opens what may be appended to.
Openable_append_only(e, p, mode) ==
  IF p \notin DOMAIN e THEN mode # "Read" /\ MayOverwrite(e, p)
  ELSE IsFile(e, p) /\ (mode = "Read" \/ e[p].permission # "ReadOnly")
Openable(e, p, mode) ==
  IF p \notin DOMAIN e THEN mode # "Read" /\ MayOverwrite(e, p)
  ELSE IsFile(e, p) /\ (CASE mode = "Read" -> TRUE
                          [] mode = "Append" -> e[p].permission # "ReadOnly"
                          [] OTHER -> e[p].permission = "ReadWrite")

ContentAtOpen(e, p, mode) ==
  IF p \notin DOMAIN e \/ mode = "Write" THEN <<>> ELSE e[p].content

get_or_create_cache(p, size) ==
  IF p \in DOMAIN caches THEN caches[p] ELSE [cache |-> EmptyCache, size |-> size]

\* Mutant: the file's blocks are not put into the cache.
Populate_lazily(c, content) == c
Populate(c, content) ==
  LET filled[n \in 0 .. NumBlocks(Len(content))] ==
        IF n = 0 THEN c ELSE insert(filled[n - 1], n - 1, BlockOf(content, n - 1)) IN
  filled[NumBlocks(Len(content))]

WithCache(p, f) == [q \in DOMAIN caches \cup {p} |-> IF q = p THEN f ELSE caches[q]]

open(d, p, mode) ==
  LET content == ContentAtOpen(entries, p, mode)
      f == get_or_create_cache(p, Len(content)) IN
  /\ ~IsOpen(d) /\ \A c \in Fds : c < d => IsOpen(c)
  /\ Openable(entries, p, mode)
  /\ caches' = WithCache(p, [f EXCEPT !.cache = Populate(@, content)])
  /\ fd' = [fd EXCEPT ![d] = [st |-> "open", path |-> p, mode |-> mode, data |-> content,
                              pos |-> IF mode = "Append" THEN f.size ELSE 0]]
  /\ written' = IF HandlesOf(p) = {} THEN [written EXCEPT ![p] = content] ELSE written
  /\ Disorder(p, \/ HandlesOf(p) # {} \/ ~IsDir(entries, parent_of(p))
                 \/ MaxBlocks > 0 /\ NumBlocks(Len(content)) > MaxBlocks)
  /\ UNCHANGED entries

PermissionNow(e, p) == IF p \in DOMAIN e THEN e[p].permission ELSE "ReadWrite"

close(d) ==
  LET p == fd[d].path IN
  /\ IsOpen(d)
  /\ entries' = IF can_write(fd[d].mode)
                THEN insert_file(entries, p, Reconstruct(caches[p].cache, caches[p].size),
                                 PermissionNow(entries, p))
                ELSE entries
  /\ fd' = [fd EXCEPT ![d] = ClosedFile]
  /\ caches' = IF HandlesOf(p) = {d} THEN [q \in DOMAIN caches \ {p} |-> caches[q]]
               ELSE IF can_write(fd[d].mode)
               THEN [caches EXCEPT ![p].cache = Visited(@, caches[p].size)]
               ELSE caches
  /\ orderly' = orderly \ (Disturbed(entries, entries') \ {p})
  /\ UNCHANGED written

-----------------------------------------------------------------------------
(* read, write and seek.                                                   *)

\* The block poll_read_block leaves in the cache: the one it finds there, or
\* the handle's own.
BlockSeen(d, b) ==
  LET c == caches[fd[d].path].cache IN
  IF b \in Cached(c) THEN get(c, b) ELSE BlockOf(fd[d].data, b)

read(d, n) ==
  LET p == fd[d].path
      f == caches[p]
      pos == fd[d].pos
      b == pos \div BlockSize
      block == BlockSeen(d, b)
      in_block == Len(block) - Min2(Len(block), pos % BlockSize) IN
  /\ IsOpen(d) /\ can_read(fd[d].mode) /\ pos < f.size
  /\ caches' = [caches EXCEPT ![p].cache =
                  IF b \in Cached(@) THEN touch(@, b) ELSE insert(@, b, block)]
  /\ fd' = [fd EXCEPT ![d].pos = pos + Min2(n, Min2(in_block, f.size - pos))]
  /\ Disorder(p, Full(f.cache, b))
  /\ UNCHANGED <<entries, written>>

\* Mutant: what the block holds already is forgotten.
Merged_fresh(c, b, offset, bytes, pad) ==
  Patched(Grown(<<>>, offset + Len(bytes)), offset, bytes)
\* The block that is written back: the bytes alone if they fill it; otherwise
\* over what is cached, or over zeros (as many as are needed, or with pad,
\* which is AsyncWrite's way, a whole block).
Merged(c, b, offset, bytes, pad) ==
  LET existing == IF b \in Cached(c) THEN get(c, b)
                  ELSE Grown(<<>>, IF pad THEN BlockSize ELSE offset + Len(bytes)) IN
  IF offset = 0 /\ Len(bytes) = BlockSize THEN bytes
  ELSE Patched(Grown(existing, offset + Len(bytes)), offset, bytes)

write(d, n, byte, pad) ==
  LET p == fd[d].path
      f == caches[p]
      pos == fd[d].pos
      b == pos \div BlockSize
      offset == pos % BlockSize
      bytes == [i \in 1 .. Min2(n, BlockSize - offset) |-> byte]
      block == Merged(f.cache, b, offset, bytes, pad)
      data == Patched(Grown(fd[d].data, b * BlockSize + Len(block)), b * BlockSize, block)
      new_pos == pos + Len(bytes)
      padded == pad /\ b \notin Cached(f.cache) /\ Len(bytes) < BlockSize IN
  /\ IsOpen(d) /\ can_write(fd[d].mode) /\ new_pos <= MaxLen
  /\ caches' = [caches EXCEPT ![p] =
                  [cache |-> insert(@.cache, b, block),
                   size |-> IF pad THEN Len(data) ELSE Max2(Len(data), new_pos)]]
  /\ fd' = [fd EXCEPT ![d].data = data, ![d].pos = new_pos]
  /\ written' = [written EXCEPT ![p] = Patched(Grown(@, new_pos), pos, bytes)]
  /\ Disorder(p, \/ ~SafeHole(pos, f.size)
                 \/ fd[d].mode = "Append" /\ pos # f.size
                 \/ padded
                 \/ Full(f.cache, b))
  /\ UNCHANGED entries

\* seek to any place, a block past the end included.
seek(d, pos) ==
  /\ IsOpen(d) /\ pos # fd[d].pos
  /\ pos <= caches[fd[d].path].size + BlockSize
  /\ fd' = [fd EXCEPT ![d].pos = pos]
  /\ UNCHANGED <<entries, caches, written, orderly>>

-----------------------------------------------------------------------------
Sync ==
  /\ syncs < MaxSync
  /\ VfsNext
  /\ syncs' = syncs + 1
  /\ orderly' = orderly \ Disturbed(entries, entries')
  /\ UNCHANGED <<caches, fd, written, asyncs>>

\* Each write has a byte of its own.
Async ==
  /\ asyncs < MaxAsync
  /\ asyncs' = asyncs + 1
  /\ UNCHANGED syncs
  /\ \E d \in Fds :
       \/ \E p \in FilePaths, mode \in Modes : open(d, p, mode)
       \/ close(d)
       \/ \E n \in 1 .. BlockSize : read(d, n) \/ \E pad \in BOOLEAN : write(d, n, asyncs + 1, pad)
       \/ \E pos \in 0 .. MaxLen : seek(d, pos)

Next == Sync \/ Async

Spec == Init /\ [][Next]_vars

-----------------------------------------------------------------------------
(* Properties.                                                             *)

\* The handles that a step closes.
Closing == {d \in Fds : IsOpen(d) /\ fd'[d].st = "closed"}

\* The tree stays a tree whatever its own operations do, under open files too;
\* and close, which goes past check_mutation, keeps it one if the path it closes
\* was used as the code expects, whatever was done with other paths.
TreeIsTree ==
  [][(Rooted(entries) /\ \A d \in Closing : fd[d].path \in orderly)
       => Rooted(entries')]_vars

\* What is read-only stays as it is and what is append-only only grows, whatever
\* happens to the tree and to other paths; closing the path itself respects
\* that too, if it was used as the code expects.
ProtectedStays ==
  [][\A p \in Paths : (\A d \in Closing : fd[d].path = p => p \in orderly)
                        => Protected(entries, entries', p)]_vars

\* A handle of a path used as the code expects sees the file as it was when it
\* was opened with what was written since, at every place, whether its blocks
\* come from the cache or from its own copy.
HandleSeesFile ==
  \A d \in Fds : (IsOpen(d) /\ fd[d].path \in orderly) =>
    LET p == fd[d].path IN
    /\ caches[p].size = Len(written[p])
    /\ \A b \in 0 .. NumBlocks(Len(written[p])) - 1 : BlockSeen(d, b) = BlockOf(written[p], b)

\* Closing a file that was used as the code expects leaves in the tree exactly
\* that file, and its permission.
CloseSaves ==
  [][\A d \in Fds : (IsOpen(d) /\ fd'[d].st = "closed" /\ can_write(fd[d].mode)
                       /\ fd[d].path \in orderly) =>
       LET p == fd[d].path IN
       entries' = With(entries, p, File(written[p], PermissionNow(entries, p)))]_vars

\* "Append (writes go to end)" (OpenMode): a byte of an append-only file that
\* is there is there to stay.
AppendOnlyGrows ==
  [][\A p \in FilePaths : Protected(entries, entries', p)]_vars

-----------------------------------------------------------------------------
(* Why they hold: what is true of every handle of a path that is used as   *)
(* the code expects.                                                       *)

\* The cache holds all the blocks of the file, and no others.
Holds(c, file) == /\ Cached(c) = 0 .. NumBlocks(Len(file)) - 1
                  /\ \A b \in Cached(c) : get(c, b) = BlockOf(file, b)

Begins(s, t) == Len(s) <= Len(t) /\ Prefix(t, Len(s)) = s

\* The handle h, of a path in the tree e with the cache and size f, is right
\* for the file.
Fits(e, h, f, file) ==
  /\ Openable(e, h.path, h.mode) /\ IsDir(e, parent_of(h.path))
  /\ f.size = Len(file) /\ Holds(f.cache, file)
  /\ Len(h.data) = Len(file)
  /\ (h.mode = "Append" /\ h.path \in DOMAIN e) => Begins(e[h.path].content, file)

Sound(d) ==
  LET p == fd[d].path IN
  /\ \A o \in Fds : (IsOpen(o) /\ fd[o].path = p) => o = d
  /\ Fits(entries, fd[d], caches[p], written[p])

HandlesInv == \A d \in Fds : (IsOpen(d) /\ fd[d].path \in orderly) => Sound(d)

FilesInv == TypeOK /\ HandlesInv
=============================================================================
