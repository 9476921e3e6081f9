------------------------------ MODULE Siblings ------------------------------
(***************************************************************************)
(* The directories pull works on: dest and the three siblings it creates   *)
(* beside it (pkg/pull/pull.go, Siblings).  A tree maps the paths of a     *)
(* manifest to inodes, an inode holds a file, and two names may share one  *)
(* inode (a hardlink).  The operators below are the system calls the       *)
(* package makes, each as the change it makes to the disk; which of them   *)
(* is called when is the business of the modules that EXTEND this one.     *)
(*                                                                         *)
(* A file is its content (what its SHA256 and size identify) and its       *)
(* permission bits.  The files kept under .pinsync-resume are not names    *)
(* of a tree here.                                                         *)
(***************************************************************************)
EXTENDS Naturals

CONSTANTS
    Path,       \* the paths of the manifests, numbered in lexical order
    Content,    \* the contents that manifests list
    Torn,       \* the content of a file no manifest lists (cut off, or foreign)
    Mode,       \* permission bits
    Writable,   \* a mode with the owner-write bit
    ReadOnly,   \* the modes without it
    Windows,    \* goos = "windows": modes are not meaningful
    Inode,      \* what a file system has to hold a file in
    Nil,        \* no file, no inode, no manifest
    Absent      \* no directory

ASSUME PathAssumption == Path \subseteq Nat

ASSUME ModeAssumption == Writable \in Mode \ ReadOnly /\ Windows \in BOOLEAN

ASSUME NilAssumption ==
    /\ Torn \notin Content
    /\ Nil \notin Path \cup Inode
    /\ Nil \notin [data : Content \cup {Torn}, mode : Mode]
    /\ Absent \notin [Path -> Inode \cup {Nil}]
    /\ Absent \notin [Path -> [data : Content \cup {Torn}, mode : Mode] \cup {Nil}]

Data == Content \cup {Torn}

File == [data : Data, mode : Mode]

Tree == [Path -> Inode \cup {Nil}]

Sibling == {"dest", "tmp", "old", "partial"}

EmptyTree == [p \in Path |-> Nil]

-----------------------------------------------------------------------------
(* Looking: lstat, readdir, the link count, reading a file.                *)

Holds(fs, s, p) == fs[s] # Absent /\ fs[s][p] # Nil

Named(fs, i) == \E s \in Sibling, p \in Path : Holds(fs, s, p) /\ fs[s][p] = i

Inodes(tree) == IF tree = Absent THEN {} ELSE {tree[p] : p \in Path} \ {Nil}

\* soleName: the link count of the file at p is one.
Sole(fs, s, p) ==
    \A t \in Sibling, q \in Path :
        Holds(fs, t, q) /\ fs[t][q] = fs[s][p] => t = s /\ q = p

Shared(fs, s) == {p \in Path : Holds(fs, s, p) /\ ~Sole(fs, s, p)}

\* What a reader of the tree sees.
View(tree, file) ==
    IF tree = Absent
    THEN Absent
    ELSE [p \in Path |-> IF tree[p] = Nil THEN Nil ELSE file[tree[p]]]

\* No two paths of the tree are one file.
Distinct(tree) ==
    tree # Absent =>
        \A p, q \in Path : tree[p] # Nil /\ tree[p] = tree[q] => p = q

-----------------------------------------------------------------------------
(* Changing: rename of a directory, link, unlink, create.                  *)

Move(fs, s, t) == [fs EXCEPT ![t] = fs[s], ![s] = Absent]

Name(fs, s, p, i) == [fs EXCEPT ![s][p] = i]

Unname(fs, s, p) == [fs EXCEPT ![s][p] = Nil]

\* An inode that lost its last name is gone.
Reap(fs, file) == [i \in Inode |-> IF Named(fs, i) THEN file[i] ELSE Nil]

\* The files after a name of inode i is removed.  On Windows removing a
\* read-only file can clear that attribute first, on the inode, so under every
\* name it has.
AfterRemoving(i, file) ==
    {file} \cup
        IF Windows /\ file[i].mode \in ReadOnly
        THEN {[file EXCEPT ![i] = [data |-> file[i].data, mode |-> Writable]]}
        ELSE {}

\* The inode a create takes: which one is of no consequence.
FreeInodes(file) ==
    LET free == {i \in Inode : file[i] = Nil}
    IN  IF free = {} THEN {} ELSE {CHOOSE i \in free : TRUE}
=============================================================================
