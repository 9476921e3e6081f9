-------------------------------- MODULE Push --------------------------------
(***************************************************************************)
(* push: the publication of local trees to one bucket prefix, one request  *)
(* at a time (pkg/push/push.go).  A push builds a manifest of its tree,    *)
(* compares it with the remote one, HEADs the objects it would skip,       *)
(* uploads the others and puts the manifest last.                          *)
(*                                                                         *)
(* Several processes push at once, each with its own tree.  Each can be    *)
(* killed between any two requests, the tree can change under it, requests *)
(* fail, and one whose sender has given up on it can still be carried out  *)
(* later.  Others overwrite and delete objects.                            *)
(***************************************************************************)
EXTENDS Bucket, Naturals

CONSTANTS
    Pusher,         \* the processes that push
    Trees,          \* what the local trees can hold
    Buckets,        \* what the prefix can hold to begin with
    Hows,           \* the ways push is called: "diff", "full", "adopt"
    Exposed,        \* the keys that others may overwrite or delete
    MaxFaults,      \* bound: requests that fail, are refused or are repeated
    MaxKills,       \* bound: kills of a process
    MaxDamage,      \* bound: objects others overwrite or delete
    MaxEdits        \* bound: changes of a local tree

ASSUME BoundAssumption == {MaxFaults, MaxKills, MaxDamage, MaxEdits} \subseteq Nat

ASSUME HowAssumption == Hows \subseteq {"diff", "full", "adopt"}

ASSUME ExposedAssumption == Exposed \subseteq Key

ASSUME TreeAssumption == Trees \subseteq Manifest

\* A bucket to begin with: what its manifest lists is there.
Consistent(o) ==
    /\ DOMAIN o = Key
    /\ \A k \in Key : o[k] \in Store(k)
    /\ Decodes(o[ManifestKey]) =>
          \A p \in Paths(o[ManifestKey].body) : o[p] # Nil

ASSUME BucketAssumption == \A o \in Buckets : Consistent(o)

VARIABLES
    object,     \* the objects of the prefix
    wire,       \* puts whose sender no longer waits, and that may yet happen
    root,       \* each process's local tree
    pc,         \* where each process is; "idle" when there is none
    how,        \* how its push was called
    want,       \* the manifest it built
    same,       \* the remote manifest was byte-identical (sameManifest)
    heads,      \* candidates for skipping that are not HEADed yet
    upload,     \* files not uploaded yet
    failed,     \* an upload failed
    result,     \* how its last push ended
    touched,    \* history: keys written by others since the push last knew
    quiet,      \* history: began in sync, and nothing has gone wrong since
    faultCount, killCount, damageCount, editCount

counts == <<faultCount, killCount, damageCount, editCount>>
locals == <<pc, how, want, same, heads, upload, failed, result>>
history == <<touched, quiet>>
vars == <<object, wire, root, locals, history, counts>>

Labels == {"idle", "fetch", "head", "upload", "manifest"}

Init ==
    /\ object \in Buckets
    /\ root \in [Pusher -> Trees]
    /\ wire = {}
    /\ pc = [q \in Pusher |-> "idle"]
    /\ how = [q \in Pusher |-> "none"]
    /\ want = [q \in Pusher |-> NoFiles]
    /\ same = [q \in Pusher |-> FALSE]
    /\ heads = [q \in Pusher |-> {}]
    /\ upload = [q \in Pusher |-> {}]
    /\ failed = [q \in Pusher |-> FALSE]
    /\ result = [q \in Pusher |-> "none"]
    /\ touched = [q \in Pusher |-> {}]
    /\ quiet = [q \in Pusher |-> FALSE]
    /\ faultCount = 0 /\ killCount = 0 /\ damageCount = 0 /\ editCount = 0

NoFault == UNCHANGED counts

Fault ==
    /\ faultCount < MaxFaults
    /\ faultCount' = faultCount + 1
    /\ UNCHANGED <<killCount, damageCount, editCount>>

\* The bucket is what tree t would publish.
InSync(t) ==
    /\ Decodes(object[ManifestKey]) /\ object[ManifestKey].body = t
    /\ \A p \in Paths(t) : Verifies(object[p], t[p].data)

-----------------------------------------------------------------------------
(* Writes to the bucket.                                                   *)

Request(k, b) == [key |-> k, body |-> b]

\* The pushes under way, and those whose success can still be relied on.
Concerned(q) == pc[q] # "idle" \/ result[q] = "ok"

\* A write to key k by the processes Who: one of them, or others.
WrittenBy(Who, k) ==
    /\ touched' = [q \in Pusher |->
                      IF q \in Who THEN touched[q] \ {k}
                      ELSE IF Concerned(q) THEN touched[q] \cup {k}
                      ELSE touched[q]]
    /\ quiet' = [q \in Pusher |-> q \in Who /\ quiet[q]]

PutObject(q, k, b) ==
    /\ object' = [object EXCEPT ![k] = Stored(b)]
    /\ WrittenBy({q}, k)

\* The open file still has the bytes that were hashed, so S3 accepts the put.
Unchanged(q, p) == root[q][p] # Nil /\ root[q][p].data = want[q][p].data

\* The requests that a sender which stops waiting may leave behind.
Pending(q) ==
    IF pc[q] = "upload"
    THEN {Request(p, want[q][p].data) : p \in {u \in upload[q] : Unchanged(q, u)}}
    ELSE IF pc[q] = "manifest" THEN {Request(ManifestKey, want[q])} ELSE {}

-----------------------------------------------------------------------------
(* The end of a push.                                                      *)

End(q, r) ==
    /\ pc' = [pc EXCEPT ![q] = "idle"]
    /\ result' = [result EXCEPT ![q] = r]
    /\ want' = IF r = "ok" THEN want ELSE [want EXCEPT ![q] = NoFiles]
    /\ same' = [same EXCEPT ![q] = FALSE]
    /\ heads' = [heads EXCEPT ![q] = {}]
    /\ upload' = [upload EXCEPT ![q] = {}]
    /\ failed' = [failed EXCEPT ![q] = FALSE]
    /\ how' = IF r = "ok" THEN how ELSE [how EXCEPT ![q] = "none"]

\* Only of a push that succeeded is anything to be said later.
Forget(q) ==
    /\ touched' = [touched EXCEPT ![q] = {}]
    /\ quiet' = [quiet EXCEPT ![q] = FALSE]

EndWithError(q) == End(q, "failed") /\ Forget(q)

-----------------------------------------------------------------------------
(* prepare and remoteManifest.                                             *)

\* Push: the manifest is built, then -adopt publishes it as it is, -full
\* uploads every file, and otherwise the remote manifest is fetched.
Start(q, h) ==
    /\ pc[q] = "idle"
    /\ pc' = [pc EXCEPT ![q] = CASE h = "adopt" -> "manifest"
                                 [] h = "full" -> "upload"
                                 [] OTHER -> "fetch"]
    /\ how' = [how EXCEPT ![q] = h]
    /\ want' = [want EXCEPT ![q] = root[q]]
    /\ upload' = [upload EXCEPT ![q] = IF h = "full" THEN Paths(root[q]) ELSE {}]
    /\ result' = [result EXCEPT ![q] = "none"]
    /\ touched' = [touched EXCEPT ![q] = {}]
    /\ quiet' = [quiet EXCEPT ![q] = h = "diff" /\ InSync(root[q])]
    /\ UNCHANGED <<object, wire, root, same, heads, failed, counts>>

\* Mutant of Candidates: a file the manifest does not list may be there as well.
CandidatesUnlisted(q, m) ==
    {p \in Paths(want[q]) : m[p] = Nil \/ m[p].data = want[q][p].data}

\* The files the remote manifest lists with the same SHA256.
Candidates(q, m) ==
    {p \in Paths(want[q]) : m[p] # Nil /\ m[p].data = want[q][p].data}

\* Mutant of SameManifest: manifests that list the same contents are the same.
SameContents(q, o) ==
    o # Nil /\ \A p \in Path :
        \/ want[q][p] = Nil /\ o.body[p] = Nil
        \/ want[q][p] # Nil /\ o.body[p] # Nil /\ want[q][p].data = o.body[p].data

\* The re-encoded remote manifest and the local one are the same bytes.
SameManifest(q, o) == o # Nil /\ o.body = want[q]

\* Mutant of NewOrChanged: what only the remote manifest lists as well.
NewOrGone(q, m) == (Paths(want[q]) \cup Paths(m)) \ Candidates(q, m)

NewOrChanged(q, m) == Paths(want[q]) \ Candidates(q, m)

\* diffRemote: without a remote manifest every file is an upload.
Fetch(q) ==
    LET o == object[ManifestKey]
        m == IF o = Nil THEN NoFiles ELSE o.body
    IN  /\ pc[q] = "fetch"
        /\ o = Nil \/ Decodes(o)
        /\ pc' = [pc EXCEPT ![q] = "head"]
        /\ same' = [same EXCEPT ![q] = SameManifest(q, o)]
        /\ heads' = [heads EXCEPT ![q] = Candidates(q, m)]
        /\ upload' = [upload EXCEPT ![q] = NewOrChanged(q, m)]
        /\ touched' = [touched EXCEPT ![q] = {}]
        /\ UNCHANGED <<object, wire, root, how, want, failed, result, quiet, counts>>

\* A manifest that does not decode, or any other failure, asks for -full.
FetchFails(q) ==
    LET o == object[ManifestKey]
    IN  /\ pc[q] = "fetch"
        /\ EndWithError(q)
        /\ IF o # Nil /\ ~Decodes(o) THEN NoFault ELSE Fault
        /\ UNCHANGED <<object, wire, root>>

-----------------------------------------------------------------------------
(* verifyObjects: HEADs of the candidates, any number under way at once.   *)

\* Mutant of Head: the size and the remote manifest's word are enough.
HeadTrusts(q, p) ==
    /\ pc[q] = "head" /\ p \in heads[q]
    /\ heads' = [heads EXCEPT ![q] = @ \ {p}]
    /\ upload' = [upload EXCEPT ![q] = IF object[p] # Nil THEN @ ELSE @ \cup {p}]
    /\ touched' = [touched EXCEPT ![q] = @ \ {p}]
    /\ NoFault
    /\ UNCHANGED <<object, wire, root, pc, how, want, same, failed, result, quiet>>

\* Mutant of Head: whatever the answer, the file is uploaded again.
HeadDoubts(q, p) ==
    /\ pc[q] = "head" /\ p \in heads[q]
    /\ heads' = [heads EXCEPT ![q] = @ \ {p}]
    /\ upload' = [upload EXCEPT ![q] = @ \cup {p}]
    /\ touched' = [touched EXCEPT ![q] = @ \ {p}]
    /\ NoFault
    /\ UNCHANGED <<object, wire, root, pc, how, want, same, failed, result, quiet>>

\* One HEAD: the object verifies and its file is skipped, or is repaired.
Head(q, p) ==
    /\ pc[q] = "head" /\ p \in heads[q]
    /\ heads' = [heads EXCEPT ![q] = @ \ {p}]
    /\ upload' = [upload EXCEPT ![q] =
          IF Verifies(object[p], want[q][p].data) THEN @ ELSE @ \cup {p}]
    /\ touched' = [touched EXCEPT ![q] = @ \ {p}]
    /\ UNCHANGED <<object, wire, root, pc, how, want, same, failed, result,
                   quiet, counts>>

\* A 403 says nothing about the object: it is repaired too.
HeadForbidden(q, p) ==
    /\ pc[q] = "head" /\ p \in heads[q]
    /\ heads' = [heads EXCEPT ![q] = @ \ {p}]
    /\ upload' = [upload EXCEPT ![q] = @ \cup {p}]
    /\ quiet' = [quiet EXCEPT ![q] = FALSE]
    /\ Fault
    /\ UNCHANGED <<object, wire, root, pc, how, want, same, failed, result,
                   touched>>

\* Any other failure ends the push; the other HEADs change nothing.
HeadFails(q) ==
    /\ pc[q] = "head" /\ heads[q] # {}
    /\ EndWithError(q)
    /\ Fault
    /\ UNCHANGED <<object, wire, root>>

\* A push with nothing to do ends here; any other goes on to upload.
HeadsDone(q) ==
    /\ pc[q] = "head" /\ heads[q] = {}
    /\ IF same[q] /\ upload[q] = {}
       THEN End(q, "ok")
       ELSE /\ pc' = [pc EXCEPT ![q] = "upload"]
            /\ UNCHANGED <<how, want, same, heads, upload, failed, result>>
    /\ UNCHANGED <<object, wire, root, history, counts>>

-----------------------------------------------------------------------------
(* uploadFiles: puts of the files, any number under way at once.           *)

\* Mutant of PutFile: the file is hashed anew as it is sent.
PutRehashed(q, p) ==
    /\ pc[q] = "upload" /\ p \in upload[q]
    /\ root[q][p] # Nil
    /\ PutObject(q, p, root[q][p].data)
    /\ upload' = [upload EXCEPT ![q] = @ \ {p}]
    /\ UNCHANGED <<wire, root, pc, how, want, same, heads, failed, result, counts>>

\* putFile, and S3 accepts it.
PutFile(q, p) ==
    /\ pc[q] = "upload" /\ p \in upload[q]
    /\ Unchanged(q, p)
    /\ PutObject(q, p, want[q][p].data)
    /\ upload' = [upload EXCEPT ![q] = @ \ {p}]
    /\ UNCHANGED <<wire, root, pc, how, want, same, heads, failed, result, counts>>

\* The file is gone, or its bytes are not those the checksum is of.
PutRefused(q, p) ==
    /\ pc[q] = "upload" /\ p \in upload[q]
    /\ ~Unchanged(q, p)
    /\ failed' = [failed EXCEPT ![q] = TRUE]
    /\ UNCHANGED <<object, wire, root, pc, how, want, same, heads, upload,
                   result, history, counts>>

\* No answer: the put fails, and may yet be carried out.
PutUnanswered(q, p) ==
    /\ pc[q] = "upload" /\ p \in upload[q]
    /\ Unchanged(q, p)
    /\ failed' = [failed EXCEPT ![q] = TRUE]
    /\ \E sent \in SUBSET {Request(p, want[q][p].data)} : wire' = wire \cup sent
    /\ Fault
    /\ UNCHANGED <<object, root, pc, how, want, same, heads, upload, result,
                   history>>

\* No answer, and the client repeats the put while the first may yet happen.
PutRepeated(q, p) ==
    /\ pc[q] = "upload" /\ p \in upload[q]
    /\ Unchanged(q, p)
    /\ wire' = wire \cup {Request(p, want[q][p].data)}
    /\ Fault
    /\ UNCHANGED <<object, root, locals, history>>

\* Mutant of UploadsDone: the manifest is put whatever became of the files.
UploadsIgnored(q) ==
    /\ pc[q] = "upload"
    /\ upload[q] = {} \/ failed[q]
    /\ IF same[q] THEN End(q, "ok") ELSE
          /\ pc' = [pc EXCEPT ![q] = "manifest"]
          /\ UNCHANGED <<how, want, same, heads, upload, failed, result>>
    /\ UNCHANGED <<object, wire, root, history, counts>>

\* Every upload succeeded: a manifest that is there already is not put again.
UploadsDone(q) ==
    /\ pc[q] = "upload" /\ upload[q] = {} /\ ~failed[q]
    /\ IF same[q] THEN End(q, "ok") ELSE
          /\ pc' = [pc EXCEPT ![q] = "manifest"]
          /\ UNCHANGED <<how, want, same, heads, upload, failed, result>>
    /\ UNCHANGED <<object, wire, root, history, counts>>

\* One upload failed: the others are cancelled, done or on their way.
UploadsFail(q) ==
    /\ pc[q] = "upload" /\ failed[q]
    /\ \E sent \in SUBSET Pending(q) : wire' = wire \cup sent
    /\ EndWithError(q)
    /\ UNCHANGED <<object, root, counts>>

-----------------------------------------------------------------------------
(* putManifest.                                                            *)

PutManifest(q) ==
    /\ pc[q] = "manifest"
    /\ PutObject(q, ManifestKey, want[q])
    /\ End(q, "ok")
    /\ UNCHANGED <<wire, root, counts>>

ManifestUnanswered(q) ==
    /\ pc[q] = "manifest"
    /\ \E sent \in SUBSET Pending(q) : wire' = wire \cup sent
    /\ EndWithError(q)
    /\ Fault
    /\ UNCHANGED <<object, root>>

ManifestRepeated(q) ==
    /\ pc[q] = "manifest"
    /\ wire' = wire \cup Pending(q)
    /\ Fault
    /\ UNCHANGED <<object, root, locals, history>>

-----------------------------------------------------------------------------
(* The process dies; the tree changes; the bucket changes.                 *)

Kill(q) ==
    /\ pc[q] # "idle"
    /\ killCount < MaxKills
    /\ killCount' = killCount + 1
    /\ \E sent \in SUBSET Pending(q) : wire' = wire \cup sent
    /\ EndWithError(q)
    /\ UNCHANGED <<object, root, faultCount, damageCount, editCount>>

Edit(q, t) ==
    /\ root[q] # t
    /\ editCount < MaxEdits
    /\ editCount' = editCount + 1
    /\ root' = [root EXCEPT ![q] = t]
    /\ UNCHANGED <<object, wire, locals, history, faultCount, killCount, damageCount>>

\* A put nobody waits for any more is carried out after all.
Land(w) ==
    /\ w \in wire
    /\ wire' = wire \ {w}
    /\ object' = [object EXCEPT ![w.key] = Stored(w.body)]
    /\ WrittenBy({}, w.key)
    /\ UNCHANGED <<root, locals, counts>>

\* Others delete an object, put another in its place, or upload the same
\* bytes without a checksum push can use.
Damage(k) ==
    /\ damageCount < MaxDamage
    /\ damageCount' = damageCount + 1
    /\ object' \in {[object EXCEPT ![k] = o] : o \in
          {Nil, [body |-> Torn, sum |-> TRUE, fresh |-> TRUE]} \cup
          (IF object[k] = Nil THEN {} ELSE {[object[k] EXCEPT !.sum = FALSE]})}
    /\ object' # object
    /\ WrittenBy({}, k)
    /\ UNCHANGED <<wire, root, locals, faultCount, killCount, editCount>>

-----------------------------------------------------------------------------
Diff(q) ==
    \/ Fetch(q) \/ FetchFails(q)
    \/ \E p \in Path : Head(q, p) \/ HeadForbidden(q, p)
    \/ HeadFails(q) \/ HeadsDone(q)

Upload(q) ==
    \/ \E p \in Path :
          PutFile(q, p) \/ PutRefused(q, p) \/ PutUnanswered(q, p) \/ PutRepeated(q, p)
    \/ UploadsDone(q) \/ UploadsFail(q)

Publish(q) == PutManifest(q) \/ ManifestUnanswered(q) \/ ManifestRepeated(q)

Step(q) == Diff(q) \/ Upload(q) \/ Publish(q)

Environment ==
    \/ \E q \in Pusher : Kill(q)
    \/ \E q \in Pusher, t \in Trees : Edit(q, t)
    \/ \E w \in wire : Land(w)
    \/ \E k \in Exposed : Damage(k)

Next ==
    \/ \E q \in Pusher, h \in Hows : Start(q, h)
    \/ \E q \in Pusher : Step(q)
    \/ Environment

Spec == Init /\ [][Next]_vars
=============================================================================
