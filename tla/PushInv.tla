------------------------------ MODULE PushInv -------------------------------
(***************************************************************************)
(* What must hold of Push, and the inductive invariants its proofs use.    *)
(***************************************************************************)
EXTENDS Push

\* Every variable keeps its type, a push HEADs and uploads only files of its
\* own manifest (diffRemote), and each at most once: what is HEADed still is
\* not to be uploaded yet.
TypeOK ==
    /\ \A k \in Key : object[k] \in Store(k)
    /\ DOMAIN object = Key
    /\ \A w \in wire : w.key \in Key /\ w.body \in Body(w.key)
    /\ root \in [Pusher -> Trees]
    /\ pc \in [Pusher -> Labels]
    /\ how \in [Pusher -> Hows \cup {"none"}]
    /\ want \in [Pusher -> Manifest]
    /\ same \in [Pusher -> BOOLEAN]
    /\ failed \in [Pusher -> BOOLEAN]
    /\ result \in [Pusher -> {"none", "ok", "failed"}]
    /\ heads \in [Pusher -> SUBSET Path]
    /\ upload \in [Pusher -> SUBSET Path]
    /\ \A q \in Pusher :
          /\ heads[q] \cup upload[q] \subseteq Paths(want[q])
          /\ heads[q] \cap upload[q] = {}
    /\ touched \in [Pusher -> SUBSET Key]
    /\ quiet \in [Pusher -> BOOLEAN]
    /\ {faultCount, killCount, damageCount, editCount} \subseteq Nat

-----------------------------------------------------------------------------
(* Safety.                                                                 *)

\* A push that is about to put its manifest, and one that has returned nil,
\* leaves every file of the manifest in the bucket with its bytes and a
\* checksum that says so, whatever was there when it began (a push that died,
\* an outside change) and whatever became of its own tree; except where others
\* have written since it last looked.  (The package comment of push.go, and
\* Push: "Only after every content upload succeeds does Push upload the
\* manifest".  -adopt takes the remote tree on trust.)
ContentFirst ==
    \A q \in Pusher :
        /\ how[q] # "adopt"
        /\ pc[q] = "manifest" \/ (pc[q] = "idle" /\ result[q] = "ok")
        => \A p \in Paths(want[q]) \ touched[q] :
              Verifies(object[p], want[q][p].data)

\* A push returns nil only when the manifest it built is the published one,
\* unless others have written it since; also when it found it there and did
\* not put it again (sameManifest).
OkIsPublished ==
    \A q \in Pusher :
        /\ pc[q] = "idle" /\ result[q] = "ok"
        /\ ManifestKey \notin touched[q]
        => /\ Decodes(object[ManifestKey])
           /\ object[ManifestKey].body = want[q]

AllPresent ==
    Decodes(object[ManifestKey]) =>
        \A p \in Paths(object[ManifestKey].body) : object[p] # Nil

\* Whatever is killed, fails, is repeated or pushed at the same time, and
\* whenever a forgotten put is carried out, every file the published manifest
\* lists has an object: "a failed push never publishes a manifest whose
\* content is missing".  (Until somebody else writes to the bucket, and without
\* -adopt.)
NothingMissing == damageCount = 0 => AllPresent

\* Push: "An unchanged, verified tree is a no-op that uploads nothing."
NoOp ==
    \A q \in Pusher :
        quiet[q] => upload[q] = {} /\ pc[q] # "manifest"

-----------------------------------------------------------------------------
(* Liveness.                                                               *)

\* A push that is not killed goes on, and somebody pushes again and again.
\* Nothing is assumed about puts that nobody waits for.
Fairness ==
    \A q \in Pusher : WF_vars(Step(q)) /\ SF_vars(Start(q, "diff"))

FairSpec == Spec /\ Fairness

\* "A push that died between content and manifest, or an outside change to an
\* object, is therefore repaired by the next push": the published snapshot
\* becomes and stays the local tree.  (For one pusher and a manifest that can
\* be read.)
Heals == \A q \in Pusher : <>[]InSync(root[q])

-----------------------------------------------------------------------------
(* Inductive invariants.                                                   *)

\* The files a push has dealt with already.
Settled(q) == Paths(want[q]) \ (heads[q] \cup upload[q])

Knows(q) ==
    \/ pc[q] \in {"head", "upload", "manifest"}
    \/ pc[q] = "idle" /\ result[q] = "ok"

LocalsOK ==
    \A q \in Pusher :
        /\ pc[q] # "idle" => result[q] = "none"
        /\ pc[q] # "head" => heads[q] = {}
        /\ pc[q] \notin {"head", "upload"} => upload[q] = {}
        /\ same[q] => pc[q] \in {"head", "upload"}
        /\ pc[q] \in {"fetch", "head"} => how[q] # "adopt"
        /\ pc[q] = "upload" => how[q] # "adopt"

\* What a push has dealt with and nobody has written since verifies, and so
\* does what it believes of the manifest.
ContentKnown(q) ==
    how[q] # "adopt" /\ Knows(q) =>
        \A p \in Settled(q) \ touched[q] : Verifies(object[p], want[q][p].data)

ManifestKnown(q) ==
    /\ same[q] \/ (pc[q] = "idle" /\ result[q] = "ok")
    /\ ManifestKey \notin touched[q]
    => Decodes(object[ManifestKey]) /\ object[ManifestKey].body = want[q]

SettledOK == \A q \in Pusher : ContentKnown(q) /\ ManifestKnown(q)

IInv == TypeOK /\ LocalsOK /\ SettledOK

\* Once dealt with, a file has an object, and so has every file of a manifest
\* that is still on its way.
PresentOK ==
    /\ \A q \in Pusher : Knows(q) => \A p \in Settled(q) : object[p] # Nil
    /\ \A w \in wire : w.key = ManifestKey =>
          \A p \in Paths(w.body) : object[p] # Nil

QuietOK ==
    \A q \in Pusher :
        quiet[q] =>
            /\ pc[q] = "idle" \/ (how[q] = "diff" /\ InSync(want[q]))
            /\ pc[q] = "head" => same[q]
            /\ upload[q] = {}
            /\ pc[q] \notin {"upload", "manifest"}
=============================================================================
