------------------------------ MODULE ReadInv -------------------------------
(***************************************************************************)
(* What must hold of pulls beside pushes and prunes.                       *)
(***************************************************************************)
EXTENDS Read

\* Every variable keeps its type; a pull downloads only what its manifest
\* lists, has at most Attempts attempts, and nothing is adrift that is there.
ReadTypeOK ==
    /\ at \in [Reader -> {"idle", "fetch", "get"}]
    /\ attempt \in [Reader -> 0..Attempts]
    /\ snap \in [Reader -> Manifest]
    /\ todo \in [Reader -> SUBSET Path]
    /\ \A r \in Reader : todo[r] \subseteq Paths(snap[r])
    /\ staged \in [Reader -> SUBSET Content]
    /\ partial \in [Reader -> SUBSET Content]
    /\ dest \in [Reader -> Manifest]
    /\ outcome \in [Reader -> {"none", "ok", "missing", "mismatch", "failed"}]
    /\ adrift \subseteq Path
    /\ \A p \in adrift : object[p] = Nil

\* "A reader that fetches the manifest therefore never sees half a push": every
\* file of the published manifest has an object, whatever pushes and prunes
\* are under way, were killed or were given up; but for what is adrift.
Present ==
    \A p \in Path \ adrift : References(p) => object[p] # Nil

\* A pull that finds an object gone was working on a manifest that is no longer
\* the published one ("a pull that's still downloading an old snapshot after a
\* newer push replaced it"): to run it again is enough.
MissingMeansStale ==
    [][ \A r \in Reader :
          outcome[r] # "missing" /\ outcome'[r] = "missing" =>
             \E p \in todo[r] :
                /\ object[p] = Nil
                /\ \/ p \in adrift
                   \/ ~Decodes(object[ManifestKey])
                   \/ object[ManifestKey].body # snap[r] ]_rvars

-----------------------------------------------------------------------------
(* Liveness.                                                               *)

\* Pulls that are not stopped go on, and each machine pulls again and again
\* ("cron or launchd can run it as often as you like"), beside pushes and
\* prunes that do.
ReadFairness ==
    /\ \A r \in Reader : WF_rvars(PullStep(r)) /\ WF_rvars(BeginPull(r))
    /\ WF_rvars(PruneStep /\ Beside) /\ SF_rvars(FetchManifest /\ Beside)
    /\ \A q \in Pusher :
          /\ WF_rvars(Step(q) /\ Watched /\ Beside)
          /\ SF_rvars(Start(q, "diff") /\ Watched /\ Beside)

ReadFairSpec == ReadSpec /\ ReadFairness

\* "guarantees every copy matches it": whatever was killed, overwritten or lost
\* to a race, in the end every destination is the tree that was pushed.  (For
\* one pusher whose tree does not change any more.)
Mirrored == \A r \in Reader, q \in Pusher : <>[](dest[r] = root[q])
=============================================================================
