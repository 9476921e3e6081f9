------------------------------- MODULE Mirror -------------------------------
(***************************************************************************)
(* What pull promises its caller (pkg/pull/pull.go, Pull, and recover.go,  *)
(* Recover): "Pull converges dest to exactly the manifest's tree, or       *)
(* returns a non-nil error leaving dest untouched", and neither a kill nor *)
(* a recovery ever shows anything but a tree that was there before or one  *)
(* whole manifest.                                                         *)
(*                                                                         *)
(* mirror is the tree the destination stands for: the directory itself, or *)
(* the one recovery would put back.                                        *)
(***************************************************************************)
EXTENDS Siblings

CONSTANT Manifests      \* the manifests a pull may fetch

VARIABLES
    mirror,             \* Absent or what each path of the destination holds
    status,             \* of the call in progress, or how the last one ended
    reported            \* the manifest a successful call returns

vars == <<mirror, status, reported>>

Snapshot == [Path -> File \cup {Nil}]

Ended == {"none", "ok", "recovered", "error", "killed"}

\* A destination holds exactly manifest m's files, permission bits included
\* where they mean something (manifest.VerifyTree).
Matches(view, m) ==
    /\ view # Absent
    /\ \A p \in Path :
          \/ view[p] = Nil /\ m[p] = Nil
          \/ /\ view[p] # Nil /\ m[p] # Nil
             /\ view[p].data = m[p].data
             /\ Windows \/ view[p].mode = m[p].mode

TypeOK ==
    /\ mirror \in Snapshot \cup {Absent}
    /\ status \in Ended \cup {"pulling", "recovering", "replaced"}
    /\ reported \in Manifests \cup {Nil}

-----------------------------------------------------------------------------
Init ==
    /\ mirror \in Snapshot \cup {Absent}
    /\ status = "none"
    /\ reported = Nil

Call(how) ==
    /\ status \in Ended
    /\ status' = how
    /\ reported' = Nil
    /\ UNCHANGED mirror

\* The one step that changes the tree puts a whole manifest in its place.
Replace(m) ==
    /\ status = "pulling"
    /\ mirror' \in Snapshot
    /\ Matches(mirror', m)
    /\ status' = "replaced"
    /\ reported' = m

\* Success returns the manifest that describes the installed tree.
Succeed ==
    /\ status = "replaced"
    /\ Matches(mirror, reported)
    /\ status' = "ok"
    /\ UNCHANGED <<mirror, reported>>

Recovered ==
    /\ status = "recovering"
    /\ status' = "recovered"
    /\ UNCHANGED <<mirror, reported>>

\* An error is only returned by a call that changed nothing.
Fail ==
    /\ status \in {"pulling", "recovering"}
    /\ status' = "error"
    /\ UNCHANGED <<mirror, reported>>

Killed ==
    /\ status \in {"pulling", "recovering", "replaced"}
    /\ status' = "killed"
    /\ reported' = Nil
    /\ UNCHANGED mirror

\* Somebody else writes into a file of the tree.
OutsideWrite(p, d) ==
    /\ status = "pulling"
    /\ mirror # Absent
    /\ mirror[p] # Nil
    /\ mirror' = [mirror EXCEPT ![p].data = d]
    /\ UNCHANGED <<status, reported>>

Next ==
    \/ \E how \in {"pulling", "recovering"} : Call(how)
    \/ \E m \in Manifests : Replace(m)
    \/ Succeed \/ Recovered \/ Fail \/ Killed
    \/ \E p \in Path, d \in Data : OutsideWrite(p, d)

Spec == Init /\ [][Next]_vars
=============================================================================
