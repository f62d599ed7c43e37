--------------------------------- MODULE Vfs ---------------------------------
(***************************************************************************)
(* The sandbox's file tree (crates/amla-sandbox-vfs/src/lib.rs): files and *)
(* directories with a permission each, changed only through check_mutation *)
(* by the operations below and, past it, by insert_file.                   *)
(*                                                                         *)
(* A path is the sequence of its names, as normalize leaves it.  What the  *)
(* operations return is left out, except where they do nothing: an         *)
(* operation that is refused is no step.                                   *)
(***************************************************************************)
EXTENDS Naturals, Sequences

CONSTANTS
  Paths,     \* the paths that are used, with all their prefixes
  Contents,  \* what write_file writes and append_file appends
  Given,     \* the permissions that new entries are given
  MaxLen     \* bound: the longest file

Permissions == {"ReadOnly", "ReadWrite", "AppendOnly"}

ASSUME GivenArePermissions == Given \subseteq Permissions
ASSUME ContentsAreBytes == Contents \subseteq Seq(Nat)
ASSUME PathsAreTrees ==
  /\ \A p \in Paths : p = <<>> \/ SubSeq(p, 1, Len(p) - 1) \in Paths
  /\ <<>> \in Paths
  /\ Paths \subseteq Seq(STRING)

VARIABLE entries   \* path -> Entry, for the paths that exist

File(content, permission) ==
  [kind |-> "File", permission |-> permission, content |-> content]
Directory(permission) ==
  [kind |-> "Directory", permission |-> permission, content |-> <<>>]

Entry == [kind : {"File", "Directory"}, permission : Permissions, content : Seq(Nat)]

Typed(e) == DOMAIN e \subseteq Paths /\ e \in [DOMAIN e -> Entry]

IsFile(e, p) == p \in DOMAIN e /\ e[p].kind = "File"
IsDir(e, p) == p \in DOMAIN e /\ e[p].kind = "Directory"

Root == <<>>
Prefix(p, n) == SubSeq(p, 1, n)
parent_of(p) == Prefix(p, Len(p) - 1)
Under(q, p) == Len(p) <= Len(q) /\ Prefix(q, Len(p)) = p

With(e, p, entry) == [q \in DOMAIN e \cup {p} |-> IF q = p THEN entry ELSE e[q]]
WithAll(e, S, entry) == [q \in DOMAIN e \cup S |-> IF q \in DOMAIN e THEN e[q] ELSE entry]
WithoutAll(e, S) == [q \in DOMAIN e \ S |-> e[q]]

\* Vfs::new, with the directories that differ: of the read-only ones, /tools,
\* and of those for scratch, /workspace.
NewEntries ==
  LET e == [p \in {Root, <<"tools">>} |-> Directory("ReadOnly")]
      f == With(With(e, <<"workspace">>, Directory("ReadWrite")),
                <<"log">>, Directory("AppendOnly"))
      g == With(f, <<"log", "actions">>, File(<<>>, "AppendOnly")) IN
  With(g, <<"workspace", "readme">>, File(<<9, 9, 9>>, "ReadWrite"))

\* They are among the paths used.
ASSUME PathsOfNew == DOMAIN NewEntries \subseteq Paths

VfsInit == entries = NewEntries

-----------------------------------------------------------------------------
(* check_mutation.                                                         *)

check_parent_writable(e, p) ==
  p # Root => IsDir(e, parent_of(p)) /\ e[parent_of(p)].permission = "ReadWrite"

MayCreate(e, p) == p \notin DOMAIN e /\ check_parent_writable(e, p)

\* can_write_to.
MayOverwrite(e, p) ==
  IF p \in DOMAIN e THEN IsFile(e, p) /\ e[p].permission = "ReadWrite"
  ELSE check_parent_writable(e, p)

\* can_append_to.
MayAppend(e, p) == IsFile(e, p) /\ e[p].permission # "ReadOnly"

MayDelete(e, p) ==
  p \in DOMAIN e /\ e[p].permission = "ReadWrite" /\ check_parent_writable(e, p)

-----------------------------------------------------------------------------
(* The operations, each as the entries it leaves.                          *)

create_dir(p, permission) ==
  /\ MayCreate(entries, p)
  /\ entries' = With(entries, p, Directory(permission))

\* One step of create_dir_all: the prefix is a directory, or may be created
\* where the one before it is, or was just made.
CanStep(e, p, n, permission) ==
  LET q == Prefix(p, n)
      above == Prefix(p, n - 1) IN
  IF q \in DOMAIN e THEN IsDir(e, q)
  ELSE IF above \in DOMAIN e THEN check_parent_writable(e, q)
  ELSE permission = "ReadWrite"

\* The directories made, up to the first step that is refused.
Made(e, p, permission) ==
  {Prefix(p, n) : n \in {m \in 1 .. Len(p) :
                           \A i \in 1 .. m : CanStep(e, p, i, permission)}} \ DOMAIN e

create_dir_all(p, permission) ==
  /\ Made(entries, p, permission) # {}
  /\ entries' = WithAll(entries, Made(entries, p, permission), Directory(permission))

write_file(p, content, permission) ==
  /\ MayOverwrite(entries, p)
  /\ entries' = With(entries, p, File(content, permission))

append_file(p, content) ==
  /\ MayAppend(entries, p)
  /\ Len(entries[p].content) + Len(content) <= MaxLen
  /\ entries' = [entries EXCEPT ![p].content = @ \o content]

Children(e, p) == {q \in DOMAIN e : q # Root /\ parent_of(q) = p}

\* Mutant: a directory goes although something is in it.
remove_any(p) == MayDelete(entries, p) /\ entries' = WithoutAll(entries, {p})
remove(p) ==
  /\ MayDelete(entries, p)
  /\ IsDir(entries, p) => Children(entries, p) = {}
  /\ entries' = WithoutAll(entries, {p})

\* All permissions are checked before anything goes.
remove_recursive(p) ==
  LET to_delete == {q \in DOMAIN entries : Under(q, p)} IN
  /\ p # Root /\ p \in to_delete
  /\ \A q \in to_delete : MayDelete(entries, q)
  /\ entries' = WithoutAll(entries, to_delete)

VfsNext ==
  \E p \in Paths :
    \/ \E permission \in Given :
         \/ create_dir(p, permission)
         \/ create_dir_all(p, permission)
         \/ \E content \in Contents : write_file(p, content, permission)
    \/ \E content \in Contents : append_file(p, content)
    \/ remove(p)
    \/ remove_recursive(p)

VfsSpec == VfsInit /\ [][VfsNext]_entries

\* insert_file: past check_mutation, with the parents that are missing (each
\* with the file's permission; insert_dir_all).
insert_file(e, p, content, permission) ==
  LET parents == {Prefix(p, n) : n \in 1 .. Len(p) - 1}
      f == IF p # Root /\ parent_of(p) \notin DOMAIN e
           THEN WithAll(e, parents, Directory(permission)) ELSE e IN
  With(f, p, File(content, permission))

-----------------------------------------------------------------------------
(* What the operations keep.                                               *)

\* Everything but the root is in a directory.
Tree(e) == /\ DOMAIN e \subseteq Paths
           /\ \A p \in DOMAIN e : p # Root => IsDir(e, parent_of(p))

\* A tree whose root cannot be removed or replaced.
Rooted(e) == Tree(e) /\ IsDir(e, Root) /\ e[Root].permission = "ReadOnly"

\* An entry that is read-only stays as it is; what is append-only stays, and
\* keeps what it holds as the beginning of what it comes to hold.
Protected(e, f, p) ==
  (p \in DOMAIN e /\ e[p].permission # "ReadWrite") =>
    /\ p \in DOMAIN f
    /\ f[p].kind = e[p].kind /\ f[p].permission = e[p].permission
    /\ e[p].permission = "ReadOnly" => f[p] = e[p]
    /\ Len(e[p].content) <= Len(f[p].content)
    /\ Prefix(f[p].content, Len(e[p].content)) = e[p].content
=============================================================================
