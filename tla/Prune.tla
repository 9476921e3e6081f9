-------------------------------- MODULE Prune -------------------------------
(***************************************************************************)
(* prune beside push (pkg/prune/prune.go).  A prune reads the manifest,    *)
(* lists the prefix, and deletes the objects that the manifest it read     *)
(* does not reference and that the listing showed as older than -min-age:  *)
(* three different moments, with pushes under way all the while.           *)
(*                                                                         *)
(* One prune runs at a time, but a delete that an earlier one has sent can *)
(* still be carried out.  Time is what Age says: -min-age is longer than   *)
(* any push or listing takes.                                              *)
(***************************************************************************)
EXTENDS Push

VARIABLES
    stage,      \* of the prune: "idle", "list" or "delete"
    keep,       \* the keys its manifest references
    unlisted,   \* keys the listing has not come to
    doomed,     \* keys listed for deletion and not yet deleted
    late,       \* keys whose delete has been sent, that nobody waits for any
                \* more, and that may yet be deleted
    rewritten,  \* history: the doomed keys somebody has written since
    lapsed,     \* history: the late keys of which the listing says nothing now
    stray,      \* history: a manifest was published blindly during the prune
    sent        \* history: the files each push has uploaded so far

prune == <<stage, keep, unlisted, doomed, late>>
pvars == <<vars, prune, rewritten, lapsed, stray, sent>>

PruneInit ==
    /\ Init
    /\ stage = "idle"
    /\ keep = {} /\ unlisted = {} /\ doomed = {} /\ late = {}
    /\ rewritten = {} /\ lapsed = {} /\ stray = FALSE
    /\ sent = [q \in Pusher |-> {}]

Begin(keys) ==
    /\ stage' = "list"
    /\ keep' = keys /\ unlisted' = Key /\ doomed' = {}
    /\ rewritten' = {} /\ stray' = FALSE

EndPrune ==
    /\ stage' = "idle"
    /\ keep' = {} /\ unlisted' = {} /\ doomed' = {}
    /\ rewritten' = {} /\ stray' = FALSE

-----------------------------------------------------------------------------
(* classify: the manifest, then the listing, page by page.                 *)

\* Mutant of FetchManifest: the manifest object is not added to the keep-set.
FetchKeepsFiles ==
    /\ stage = "idle"
    /\ Decodes(object[ManifestKey])
    /\ Begin(Paths(object[ManifestKey].body))
    /\ UNCHANGED <<vars, late, lapsed, sent>>

\* Without a manifest that decodes prune ends before it has begun.
FetchManifest ==
    /\ stage = "idle"
    /\ Decodes(object[ManifestKey])
    /\ Begin({ManifestKey} \cup Paths(object[ManifestKey].body))
    /\ UNCHANGED <<vars, late, lapsed, sent>>

\* Mutant of Doom: -min-age is not looked at.
DoomYoung(k) == object[k] # Nil /\ k \notin keep

\* An object that is neither referenced nor younger than the window.
Doom(k) == object[k] # Nil /\ k \notin keep /\ ~object[k].fresh

\* The listing comes to key k.
List(k) ==
    /\ stage = "list" /\ k \in unlisted
    /\ unlisted' = unlisted \ {k}
    /\ doomed' = IF Doom(k) THEN doomed \cup {k} ELSE doomed
    /\ UNCHANGED <<vars, stage, keep, late, rewritten, lapsed, stray, sent>>

\* Mutant of Listed: only the first page of the listing is read.
ListedFirst ==
    /\ stage = "list" /\ unlisted # Key
    /\ IF doomed = {} THEN EndPrune
       ELSE /\ stage' = "delete"
            /\ UNCHANGED <<keep, unlisted, doomed, rewritten, stray>>
    /\ UNCHANGED <<vars, late, lapsed, sent>>

\* DryRun stops here; Prune goes on to delete.
Listed ==
    /\ stage = "list" /\ unlisted = {}
    /\ IF doomed = {} THEN EndPrune
       ELSE /\ stage' = "delete"
            /\ UNCHANGED <<keep, unlisted, doomed, rewritten, stray>>
    /\ UNCHANGED <<vars, late, lapsed, sent>>

-----------------------------------------------------------------------------
(* deleteBatched: S3 deletes the keys of a request one by one.             *)

\* The object at k is deleted; a listing that found it says nothing now.
Remove(k) ==
    /\ object' = [object EXCEPT ![k] = Nil]
    /\ WrittenBy({}, k)
    /\ UNCHANGED <<wire, root, locals, counts>>

Delete(k) ==
    /\ stage = "delete" /\ k \in doomed
    /\ Remove(k)
    /\ doomed' = doomed \ {k}
    /\ lapsed' = lapsed \cup ({k} \cap late)
    /\ UNCHANGED <<stage, keep, unlisted, late, rewritten, stray, sent>>

\* A key S3 could not delete: the others still are.
DeleteFails(k) ==
    /\ stage = "delete" /\ k \in doomed
    /\ doomed' = doomed \ {k}
    /\ Fault
    /\ UNCHANGED <<object, wire, root, locals, history, stage, keep, unlisted,
                   late, rewritten, lapsed, stray, sent>>

Deleted ==
    /\ stage = "delete" /\ doomed = {}
    /\ EndPrune
    /\ UNCHANGED <<vars, late, lapsed, sent>>

\* The deletes of Keys are on their way, and nobody waits for them.
Leave(Keys) ==
    /\ late' = late \cup Keys
    /\ lapsed' = (lapsed \ Keys) \cup (IF stray THEN Keys ELSE Keys \cap rewritten)

\* No answer, and the client repeats the request while the first may yet be
\* carried out.
DeleteRepeated(k) ==
    /\ stage = "delete" /\ k \in doomed
    /\ Leave({k})
    /\ Fault
    /\ UNCHANGED <<object, wire, root, locals, history, stage, keep, unlisted,
                   doomed, rewritten, stray, sent>>

\* A page, or a whole request, fails, or the process is killed: what is
\* deleted is deleted, and the rest is left or still on its way.
PruneStops ==
    /\ stage # "idle"
    /\ EndPrune
    /\ \E Keys \in SUBSET (IF stage = "delete" THEN doomed ELSE {}) : Leave(Keys)
    /\ Fault
    /\ UNCHANGED <<object, wire, root, locals, history, sent>>

\* A delete nobody waits for any more is carried out after all.
LateDelete(k) ==
    /\ k \in late
    /\ Remove(k)
    /\ late' = late \ {k}
    /\ lapsed' = lapsed \ {k}
    /\ rewritten' = rewritten \cup ({k} \cap doomed)
    /\ UNCHANGED <<stage, keep, unlisted, doomed, stray, sent>>

-----------------------------------------------------------------------------
(* Pushes beside it, and time.                                             *)

\* A push that does not know the manifest its own will replace, and relies on
\* objects nevertheless.
Blind(q) == how[q] = "adopt" \/ (how[q] = "diff" /\ ManifestKey \in touched[q])

\* A manifest is put by a blind push, or for a push that was given up.
PublishesBlindly ==
    \/ \E q \in Pusher : Blind(q) /\ PutManifest(q)
    \/ \E w \in wire : w.key = ManifestKey /\ Land(w)

\* The files a push has uploaded after this step.
SentNow(q) ==
    IF pc'[q] \notin {"upload", "manifest"} THEN {}
    ELSE IF pc[q] = "upload" THEN sent[q] \cup (upload[q] \ upload'[q])
    ELSE sent[q]

\* What a push's step means to the prune.
Watched ==
    /\ sent' = [q \in Pusher |-> SentNow(q)]
    /\ rewritten' = rewritten \cup {k \in doomed : object'[k] # object[k]}
    /\ lapsed' = lapsed \cup {k \in late :
                                object'[k] # object[k] \/ PublishesBlindly}
    /\ stray' = (stray \/ (stage # "idle" /\ PublishesBlindly))
    /\ UNCHANGED prune

PushStep == Next /\ Watched

\* Another object grows older than -min-age: no push that put it still runs,
\* and no listing compares it with its cutoff.
Age(k) ==
    /\ object[k] # Nil /\ object[k].fresh
    /\ stage = "idle"
    /\ \A q \in Pusher : k \notin sent[q]
    /\ object' = [object EXCEPT ![k].fresh = FALSE]
    /\ UNCHANGED <<wire, root, locals, history, counts, prune, rewritten,
                   lapsed, stray, sent>>

PruneStep ==
    \/ \E k \in Key : List(k) \/ Delete(k) \/ DeleteFails(k) \/ DeleteRepeated(k)
    \/ Listed \/ Deleted \/ PruneStops

PruneNext ==
    \/ PushStep
    \/ FetchManifest \/ PruneStep
    \/ \E k \in Key : LateDelete(k) \/ Age(k)

PruneSpec == PruneInit /\ [][PruneNext]_pvars
=============================================================================
