------------------------------ MODULE PruneInv ------------------------------
(***************************************************************************)
(* What must hold of Prune beside Push, and the inductive invariant its    *)
(* proof uses.                                                             *)
(***************************************************************************)
EXTENDS Prune, PushInv

\* Every variable keeps its type, and nobody asks for the manifest's deletion.
PruneTypeOK ==
    /\ TypeOK
    /\ stage \in {"idle", "list", "delete"}
    /\ {keep, unlisted, doomed, late, rewritten, lapsed} \subseteq SUBSET Key
    /\ ManifestKey \notin doomed \cup late
    /\ stray \in BOOLEAN
    /\ sent \in [Pusher -> SUBSET Path]

References(k) ==
    /\ Decodes(object[ManifestKey])
    /\ k \in Paths(object[ManifestKey].body)

\* A prune deletes the object at k in this step, one under way or an earlier one.
PrunesNow(k) == stage = "delete" /\ k \in doomed \ doomed'

Prunes(k) ==
    /\ PrunesNow(k) \/ k \in late \ late'
    /\ object[k] # Nil /\ object'[k] = Nil

\* The key was written after it was listed, or a manifest was put blindly.
Excused(k) == IF PrunesNow(k) THEN k \in rewritten \/ stray ELSE k \in lapsed

\* Prune: "The manifest object and all content paths it names are protected,
\* as is anything within the grace window".  What is deleted, however many
\* pushes began, died or succeeded since the manifest was read, and however late
\* the delete of a prune that was given up is carried out, is older than
\* -min-age, is not referenced by the manifest published now, and is nothing a
\* push under way relies on; unless it was written after it was listed, or
\* a manifest was put by a push that did not know the one it replaced.
SparesReferenced ==
    [][ \A k \in Path :
          Prunes(k) /\ ~Excused(k) =>
             /\ ~object[k].fresh
             /\ ~References(k)
             /\ \A q \in Pusher :
                   pc[q] \in {"head", "upload", "manifest"} /\ ~Blind(q)
                   => k \notin Settled(q) ]_pvars

\* README.md: "-min-age ... keeps any object modified inside that window.  A
\* push in progress has uploaded content its manifest doesn't reference yet,
\* and this window stops prune from deleting it."
WindowKept == [][ \A k \in Path : Prunes(k) => ~object[k].fresh ]_pvars

-----------------------------------------------------------------------------
(* Liveness.                                                               *)

\* Prunes and pushes that are not stopped go on, and both are run again and
\* again.  Heals is then to hold although a prune deletes what a push has just
\* uploaded if the two race.
PruneFairness == WF_pvars(PruneStep) /\ SF_pvars(FetchManifest)

PushFairness ==
    \A q \in Pusher :
        /\ WF_pvars(Step(q) /\ Watched)
        /\ SF_pvars(Start(q, "diff") /\ Watched)

BothFairSpec == PruneSpec /\ PruneFairness /\ PushFairness

Garbage(p) ==
    /\ object[p] # Nil /\ ~object[p].fresh
    /\ Decodes(object[ManifestKey]) /\ ~References(p)

\* "prune removes those": an old object nothing points at is deleted, unless a
\* push makes use of its key again.
Collects == \A p \in Path : Garbage(p) ~> ~Garbage(p)

-----------------------------------------------------------------------------
(* The inductive invariant.                                                *)

\* What a push that is not blind settled, it uploaded or found in the manifest
\* it knows.
Relied(q) ==
    /\ sent[q] \subseteq Settled(q)
    /\ pc[q] \notin {"upload", "manifest"} => sent[q] = {}
    /\ pc[q] # "idle" => how[q] \in Hows
    /\ pc[q] \in {"fetch", "head"} => how[q] = "diff"
    /\ how[q] = "full" /\ pc[q] # "idle" => Settled(q) = sent[q]
    /\ /\ how[q] = "diff" /\ pc[q] \in {"head", "upload", "manifest"}
       /\ ManifestKey \notin touched[q]
       => \A p \in (Settled(q) \cup heads[q]) \ sent[q] : References(p)

KnownOK == \A q \in Pusher : Relied(q)

\* What a push uploaded is young while it runs, or others have taken it away.
SentOK ==
    \A q \in Pusher : \A p \in sent[q] : object[p] # Nil => object[p].fresh

\* What is old and not to be kept has not been published again.
UnkeptOK ==
    stage # "idle" /\ ~stray =>
        \A k \in Path \ keep :
           object[k] # Nil /\ ~object[k].fresh => ~References(k)

DoomedOK ==
    /\ doomed \cap keep = {}
    /\ stage = "idle" => keep = {} /\ doomed = {}
    /\ stage # "idle" => ManifestKey \in keep
    /\ \A k \in doomed \ rewritten : object[k] # Nil /\ ~object[k].fresh

\* What is deleted late is what it was when it was listed.
LateOK ==
    \A k \in late \ lapsed :
        object[k] # Nil /\ ~object[k].fresh /\ ~References(k)

PruneIInv ==
    PruneTypeOK /\ IInv /\ KnownOK /\ SentOK /\ UnkeptOK /\ DoomedOK /\ LateOK
=============================================================================
