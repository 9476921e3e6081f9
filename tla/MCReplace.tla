----------------------------- MODULE MCReplace ------------------------------
(* Small instances of Replace for TLC: two paths, two contents, six inodes. *)
EXTENDS ReplaceInv

CONSTANTS x, y, rw, ro

MCPath == 1..2

MCInode == 1..6

F(c, m) == [data |-> c, mode |-> m]

\* Two files; the same two swapped over; one content twice.
TwoFiles == <<F(x, rw), F(y, rw)>>
Swapped  == <<F(y, rw), F(x, rw)>>
Twins    == <<F(y, rw), F(y, rw)>>
Moded    == <<F(x, ro), F(y, rw)>>

\* A disk with d in dest and p in the partial tree (either may be Absent), all
\* separate files.
Ino(view, base) ==
    IF view = Absent THEN Absent
    ELSE [q \in MCPath |-> IF view[q] = Nil THEN Nil ELSE base + q]

Held(view, base, i) ==
    /\ view # Absent
    /\ \E q \in MCPath : i = base + q /\ view[q] # Nil

Disk(d, p) ==
    [fs |-> [dest |-> Ino(d, 0), tmp |-> Absent, old |-> Absent,
             partial |-> Ino(p, 2)],
     file |-> [i \in MCInode |->
        IF Held(d, 0, i) THEN d[i]
        ELSE IF Held(p, 2, i) THEN p[i - 2] ELSE Nil]]

\* What v0.5.0 could leave: the partial tree holds dest's first file, and
\* perhaps one of its own, f.
SharedDisk(d, f) ==
    [fs |-> [dest |-> Ino(d, 0), tmp |-> Absent, old |-> Absent,
             partial |-> <<IF f = Nil THEN Nil ELSE 3, 1>>],
     file |-> [i \in MCInode |->
        IF Held(d, 0, i) THEN d[i] ELSE IF i = 3 THEN f ELSE Nil]]

Stale == <<F(x, rw), F(Torn, rw)>>

FaultManifests == {TwoFiles, Twins}

FaultDisks ==
    {Disk(Absent, Absent), Disk(Stale, <<F(y, rw), Nil>>), SharedDisk(Stale, Nil)}

\* Entries whose file differs from the live one in its mode only.
EditManifests == {Moded, Swapped}

EditDisks == {Disk(TwoFiles, Absent), Disk(Moded, <<F(y, ro), F(y, rw)>>)}

\* Read-only files in every tree.
Guarded == <<F(x, ro), F(y, ro)>>

WindowsManifests == {Guarded, <<F(y, ro), F(x, rw)>>}

WindowsDisks ==
    {Disk(Guarded, <<F(y, ro), Nil>>), SharedDisk(Stale, F(y, ro))}
=============================================================================
