-------------------------------- MODULE Read --------------------------------
(***************************************************************************)
(* pull beside push and prune (pkg/pull/pull.go).  A pull fetches the      *)
(* manifest, downloads the objects its entries lack one by one, and        *)
(* installs the tree when it has them all.  The bucket changes meanwhile:  *)
(* an object may be newer than the manifest that was fetched, or gone.     *)
(*                                                                         *)
(* What a pull does on disk is Replace; here a destination is the manifest *)
(* it was made equal to, and what a failed attempt keeps is contents.      *)
(***************************************************************************)
EXTENDS PruneInv

CONSTANTS
    Reader,     \* the machines that pull, each with its own destination
    Attempts    \* mismatchRetries

ASSUME AttemptAssumption == Attempts \in Nat \ {0}

VARIABLES
    at,         \* where each pull is: "idle", "fetch" or "get"
    attempt,    \* which attempt it is
    snap,       \* the manifest of the attempt
    todo,       \* its entries that are not staged yet
    staged,     \* contents the attempt has that dest does not supply
    partial,    \* contents kept from a failed attempt
    dest,       \* the tree each destination is a copy of
    outcome,    \* how its last pull ended
    adrift      \* history: absent paths that no promise covers (Unowed)

pull == <<at, attempt, snap, todo, staged, partial, dest, outcome>>
rvars == <<pvars, pull, adrift>>

ReadInit ==
    /\ PruneInit
    /\ at = [r \in Reader |-> "idle"]
    /\ attempt = [r \in Reader |-> 0]
    /\ snap = [r \in Reader |-> NoFiles]
    /\ todo = [r \in Reader |-> {}]
    /\ staged = [r \in Reader |-> {}]
    /\ partial = [r \in Reader |-> {}]
    /\ dest = [r \in Reader |-> NoFiles]
    /\ outcome = [r \in Reader |-> "none"]
    /\ adrift = {}

-----------------------------------------------------------------------------
(* The end of an attempt, and of a pull.                                   *)

\* What was staged becomes the partial tree; without a staging tree the
\* partial tree stays as it was.
Kept(r) == IF at[r] = "get" THEN staged[r] ELSE partial[r]

EndAttempt(r, next, n, kept) ==
    /\ at' = [at EXCEPT ![r] = next]
    /\ attempt' = [attempt EXCEPT ![r] = n]
    /\ snap' = [snap EXCEPT ![r] = NoFiles]
    /\ todo' = [todo EXCEPT ![r] = {}]
    /\ staged' = [staged EXCEPT ![r] = {}]
    /\ partial' = [partial EXCEPT ![r] = kept]

EndPull(r, res, kept) ==
    /\ EndAttempt(r, "idle", 0, kept)
    /\ outcome' = [outcome EXCEPT ![r] = res]

-----------------------------------------------------------------------------
(* One pull.                                                               *)

BeginPull(r) ==
    /\ at[r] = "idle"
    /\ at' = [at EXCEPT ![r] = "fetch"]
    /\ attempt' = [attempt EXCEPT ![r] = 1]
    /\ outcome' = [outcome EXCEPT ![r] = "none"]
    /\ UNCHANGED <<snap, todo, staged, partial, dest>>
    /\ UNCHANGED <<pvars, adrift>>

\* classify: what dest holds at its path is linked or copied from there, what
\* the partial tree holds is taken over, and the rest is downloaded.
Live(r, m, p) == dest[r][p] # Nil /\ dest[r][p].data = m[p].data

Lacking(r, m) == {p \in Paths(m) : ~Live(r, m, p) /\ m[p].data \notin partial[r]}

TakenOver(r, m) ==
    {m[p].data : p \in {q \in Paths(m) : ~Live(r, m, q)}} \cap partial[r]

\* syncOnce: the manifest, and everything that is here already; then the
\* partial tree is removed.
FetchSnapshot(r) ==
    LET m == object[ManifestKey].body
    IN  /\ at[r] = "fetch"
        /\ Decodes(object[ManifestKey])
        /\ at' = [at EXCEPT ![r] = "get"]
        /\ snap' = [snap EXCEPT ![r] = m]
        /\ todo' = [todo EXCEPT ![r] = Lacking(r, m)]
        /\ staged' = [staged EXCEPT ![r] = TakenOver(r, m)]
        /\ partial' = [partial EXCEPT ![r] = {}]
        /\ UNCHANGED <<attempt, dest, outcome>>
        /\ UNCHANGED <<pvars, adrift>>

\* No manifest, or none that decodes: the pull fails at once.
NoSnapshot(r) ==
    /\ at[r] = "fetch"
    /\ ~Decodes(object[ManifestKey])
    /\ EndPull(r, "failed", partial[r])
    /\ UNCHANGED <<pvars, dest, adrift>>

\* downloadWhole and checkStaged: the object has the bytes of the entry.
Get(r, p) ==
    /\ at[r] = "get" /\ p \in todo[r]
    /\ object[p] # Nil /\ object[p].body = snap[r][p].data
    /\ todo' = [todo EXCEPT ![r] = @ \ {p}]
    /\ staged' = [staged EXCEPT ![r] = @ \cup {snap[r][p].data}]
    /\ UNCHANGED <<at, attempt, snap, partial, dest, outcome>>
    /\ UNCHANGED <<pvars, adrift>>

\* Mutant of GetMismatch: no limit.
GetMismatchForever(r, p) ==
    /\ at[r] = "get" /\ p \in todo[r]
    /\ object[p] # Nil /\ object[p].body # snap[r][p].data
    /\ EndAttempt(r, "fetch", attempt[r] + 1, Kept(r)) /\ UNCHANGED outcome
    /\ UNCHANGED <<pvars, dest, adrift>>

\* Other bytes: the manifest is fetched again, a limited number of times.
GetMismatch(r, p) ==
    /\ at[r] = "get" /\ p \in todo[r]
    /\ object[p] # Nil /\ object[p].body # snap[r][p].data
    /\ IF attempt[r] < Attempts
       THEN EndAttempt(r, "fetch", attempt[r] + 1, Kept(r)) /\ UNCHANGED outcome
       ELSE EndPull(r, "mismatch", Kept(r))
    /\ UNCHANGED <<pvars, dest, adrift>>

\* Mutant of GetMissing: the pull waits for the object.
GetMissingWaits(r, p) ==
    at[r] = "get" /\ p \in todo[r] /\ object[p] = Nil /\ UNCHANGED rvars

\* No object: like any failure but a mismatch, it ends the pull.
GetMissing(r, p) ==
    /\ at[r] = "get" /\ p \in todo[r]
    /\ object[p] = Nil
    /\ EndPull(r, "missing", Kept(r))
    /\ UNCHANGED <<pvars, dest, adrift>>

\* VerifyTree and swap.
Install(r) ==
    /\ at[r] = "get" /\ todo[r] = {}
    /\ dest' = [dest EXCEPT ![r] = snap[r]]
    /\ EndPull(r, "ok", {})
    /\ UNCHANGED <<pvars, adrift>>

\* A request or a file operation fails, or the process is killed: the next
\* pull finds what was staged, or part of it.
PullFails(r) ==
    /\ at[r] # "idle"
    /\ \E kept \in SUBSET Kept(r) : EndPull(r, "failed", kept)
    /\ Fault
    /\ UNCHANGED <<object, wire, root, locals, history, prune, rewritten,
                   lapsed, stray, sent, dest, adrift>>

PullStep(r) ==
    \/ FetchSnapshot(r) \/ NoSnapshot(r)
    \/ \E p \in Path : Get(r, p) \/ GetMismatch(r, p) \/ GetMissing(r, p)
    \/ Install(r)

-----------------------------------------------------------------------------
(* Pushes and prunes meanwhile.                                            *)

\* Nobody promised p: somebody else has deleted it, prune has although it was
\* written after the listing or a manifest was published blindly meanwhile, or
\* a manifest that lists it was published blindly.
Unowed(p) ==
    \/ p \in adrift
    \/ object[p] # Nil /\ (~Prunes(p) \/ Excused(p))
    \/ PublishesBlindly

\* What a step of the others means to the pulls.
Beside ==
    /\ adrift' = {p \in Path : object'[p] = Nil /\ Unowed(p)}
    /\ UNCHANGED pull

Others == PruneNext /\ Beside

ReadNext ==
    \/ Others
    \/ \E r \in Reader : BeginPull(r) \/ PullStep(r) \/ PullFails(r)

ReadSpec == ReadInit /\ [][ReadNext]_rvars
=============================================================================
