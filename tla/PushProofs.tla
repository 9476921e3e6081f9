----------------------------- MODULE PushProofs -----------------------------
(***************************************************************************)
(* Proofs about Push, for every set of paths, contents and trees, any      *)
(* number of processes that push at once, and every number of failures.    *)
(***************************************************************************)
EXTENDS PushInv, TLAPS

-----------------------------------------------------------------------------
(* Bodies, objects and writes.                                             *)

\* What is put under a key is of the kind the key has.
LEMMA Bodies ==
    /\ Path \subseteq Key /\ ManifestKey \in Key
    /\ \A p \in Path : Body(p) = Content /\ p # ManifestKey
    /\ Body(ManifestKey) = Manifest
    /\ NoFiles \in Manifest
    /\ \A m \in Manifest : Paths(m) \subseteq Path /\ m # Torn
    /\ \A m \in Manifest : \A p \in Paths(m) : m[p].data \in Content
    /\ \A k \in Key : \A b \in Body(k) :
          Stored(b) \in Store(k) /\ Stored(b) # Nil
<1>1. Path \subseteq Key /\ ManifestKey \in Key
  BY DEF Key
<1>2. \A p \in Path : Body(p) = Content /\ p # ManifestKey
  BY KeyAssumption DEF Body
<1>3. Body(ManifestKey) = Manifest
  BY DEF Body
<1>4. NoFiles \in Manifest
  BY DEF NoFiles, Manifest
<1>5. \A m \in Manifest : Paths(m) \subseteq Path /\ m # Torn
  BY BodyAssumption DEF Paths
<1>6. \A m \in Manifest : \A p \in Paths(m) : m[p].data \in Content
  BY DEF Paths, Manifest, File
<1>7. ASSUME NEW k \in Key, NEW b \in Body(k)
      PROVE  Stored(b) \in Store(k) /\ Stored(b) # Nil
  <2>1. Stored(b) \in Object(k)
    BY DEF Stored, Object
  <2>. QED BY <2>1, BodyAssumption DEF Store
<1>. QED BY <1>1, <1>2, <1>3, <1>4, <1>5, <1>6, <1>7

\* A write changes one object, and everybody whose push matters hears of it.
LEMMA Writes ==
    ASSUME TypeOK, NEW Who \in SUBSET Pusher, NEW k \in Key, NEW o \in Store(k),
           object' = [object EXCEPT ![k] = o], WrittenBy(Who, k)
    PROVE  /\ DOMAIN object' = Key /\ \A j \in Key : object'[j] \in Store(j)
           /\ object'[k] = o
           /\ \A j \in Key \ {k} : object'[j] = object[j]
           /\ touched' \in [Pusher -> SUBSET Key]
           /\ quiet' \in [Pusher -> BOOLEAN]
           /\ \A q \in Who : touched'[q] = touched[q] \ {k}
           /\ \A q \in Pusher \ Who :
                 Concerned(q) => touched'[q] = touched[q] \cup {k}
           /\ \A q \in Pusher : touched'[q] \in SUBSET (touched[q] \cup {k})
           /\ \A q \in Pusher : quiet'[q] => quiet[q] /\ q \in Who
BY DEF TypeOK, WrittenBy

-----------------------------------------------------------------------------
(* What a push knows is not disturbed by the others.                       *)

\* Push q goes on unchanged.
Still(q) ==
    /\ pc'[q] = pc[q] /\ how'[q] = how[q] /\ want'[q] = want[q]
    /\ same'[q] = same[q] /\ heads'[q] = heads[q] /\ upload'[q] = upload[q]
    /\ result'[q] = result[q]

\* The keys q has reason to rely on are as they were.
Seen(q) ==
    Concerned(q) => \A k \in Key \ touched'[q] :
                       k \notin touched[q] /\ object'[k] = object[k]

LEMMA Undisturbed ==
    ASSUME TypeOK, LocalsOK, NEW q \in Pusher, Still(q), Seen(q),
           ContentKnown(q), ManifestKnown(q)
    PROVE  ContentKnown(q)' /\ ManifestKnown(q)'
<1>1. ContentKnown(q)'
  BY Bodies
     DEF TypeOK, Still, Seen, Concerned, ContentKnown, Knows, Settled, Verifies
<1>2. ManifestKnown(q)'
  BY Bodies
     DEF LocalsOK, Still, Seen, Concerned, ManifestKnown, Decodes
<1>. QED BY <1>1, <1>2

-----------------------------------------------------------------------------
(* Types and the variables of a process.                                   *)

LocalTypes ==
    /\ pc \in [Pusher -> Labels]
    /\ how \in [Pusher -> Hows \cup {"none"}]
    /\ want \in [Pusher -> Manifest]
    /\ same \in [Pusher -> BOOLEAN]
    /\ failed \in [Pusher -> BOOLEAN]
    /\ result \in [Pusher -> {"none", "ok", "failed"}]
    /\ heads \in [Pusher -> SUBSET Path]
    /\ upload \in [Pusher -> SUBSET Path]
    /\ \A q \in Pusher :
          /\ heads[q] \cup upload[q] \subseteq Paths(want[q])
          /\ heads[q] \cap upload[q] = {}

\* The end of a push leaves its variables as they should be.
LEMMA EndTypes ==
    ASSUME TypeOK, LocalsOK, NEW q \in Pusher, NEW r \in {"ok", "failed"},
           End(q, r)
    PROVE  /\ LocalTypes' /\ LocalsOK'
           /\ \A s \in Pusher \ {q} : Still(s)
           /\ pc'[q] = "idle" /\ result'[q] = r /\ ~same'[q]
           /\ heads'[q] = {} /\ upload'[q] = {}
           /\ r = "ok" => want'[q] = want[q] /\ how'[q] = how[q]
<1>1. /\ pc' \in [Pusher -> Labels]
      /\ how' \in [Pusher -> Hows \cup {"none"}]
      /\ want' \in [Pusher -> Manifest]
      /\ same' \in [Pusher -> BOOLEAN]
      /\ failed' \in [Pusher -> BOOLEAN]
      /\ result' \in [Pusher -> {"none", "ok", "failed"}]
      /\ heads' \in [Pusher -> SUBSET Path]
      /\ upload' \in [Pusher -> SUBSET Path]
  BY Bodies DEF TypeOK, End, Labels
<1>2. \A s \in Pusher \ {q} : Still(s)
  BY DEF TypeOK, End, Still
<1>3. /\ pc'[q] = "idle" /\ result'[q] = r /\ ~same'[q]
      /\ heads'[q] = {} /\ upload'[q] = {}
      /\ r = "ok" => want'[q] = want[q] /\ how'[q] = how[q]
  BY DEF TypeOK, End
<1>4. LocalTypes'
  BY <1>1, <1>2, <1>3 DEF LocalTypes, TypeOK, Still
<1>5. LocalsOK'
  BY <1>1, <1>2, <1>3 DEF LocalsOK, Still
<1>. QED BY <1>2, <1>3, <1>4, <1>5

LEMMA ErrorTypes ==
    ASSUME TypeOK, LocalsOK, NEW q \in Pusher, EndWithError(q)
    PROVE  /\ LocalTypes' /\ LocalsOK'
           /\ touched' \in [Pusher -> SUBSET Key]
           /\ quiet' \in [Pusher -> BOOLEAN]
           /\ \A s \in Pusher \ {q} :
                 Still(s) /\ touched'[s] = touched[s] /\ quiet'[s] = quiet[s]
           /\ pc'[q] = "idle" /\ result'[q] = "failed" /\ ~same'[q] /\ ~quiet'[q]
           /\ heads'[q] = {} /\ upload'[q] = {}
<1>1. End(q, "failed") /\ Forget(q)
  BY DEF EndWithError
<1>2. /\ touched' \in [Pusher -> SUBSET Key]
      /\ quiet' \in [Pusher -> BOOLEAN]
      /\ ~quiet'[q]
      /\ \A s \in Pusher \ {q} : touched'[s] = touched[s] /\ quiet'[s] = quiet[s]
  BY <1>1 DEF Forget, TypeOK
<1>. QED BY <1>1, <1>2, EndTypes

\* What a sender that gives up leaves behind is a request like any other.
LEMMA Requests ==
    ASSUME TypeOK, NEW q \in Pusher
    PROVE  /\ \A w \in Pending(q) : w.key \in Key /\ w.body \in Body(w.key)
           /\ \A p \in Paths(want[q]) :
                 LET w == Request(p, want[q][p].data)
                 IN  w.key \in Key /\ w.body \in Body(w.key)
<1>1. want[q] \in Manifest /\ upload[q] \subseteq Paths(want[q])
  BY DEF TypeOK
<1>. QED BY <1>1, Bodies DEF Pending, Request

LEMMA CountTypes ==
    ASSUME TypeOK, UNCHANGED counts \/ Fault
    PROVE  {faultCount, killCount, damageCount, editCount}' \subseteq Nat
BY DEF TypeOK, counts, Fault

BucketTypes ==
    /\ \A k \in Key : object[k] \in Store(k)
    /\ DOMAIN object = Key
    /\ \A w \in wire : w.key \in Key /\ w.body \in Body(w.key)

OtherTypes ==
    /\ root \in [Pusher -> Trees]
    /\ touched \in [Pusher -> SUBSET Key]
    /\ quiet \in [Pusher -> BOOLEAN]
    /\ {faultCount, killCount, damageCount, editCount} \subseteq Nat

LEMMA Types == TypeOK <=> LocalTypes /\ BucketTypes /\ OtherTypes
BY DEF TypeOK, LocalTypes, BucketTypes, OtherTypes

\* What is to be shown of a step of q.
LEMMA StepOf ==
    ASSUME IInv, NEW q \in Pusher,
           LocalTypes', BucketTypes', OtherTypes', LocalsOK',
           \A s \in Pusher \ {q} : Still(s) /\ Seen(s),
           ContentKnown(q)', ManifestKnown(q)'
    PROVE  IInv'
<1>1. TypeOK'
  BY Types DEF TypeOK, LocalTypes, BucketTypes, OtherTypes
<1>2. \A s \in Pusher \ {q} : ContentKnown(s)' /\ ManifestKnown(s)'
  BY Undisturbed DEF IInv, SettledOK
<1>. QED BY <1>1, <1>2 DEF IInv, SettledOK

\* A step of q that writes nothing disturbs nobody.
LEMMA Unseen ==
    ASSUME IInv, NEW q \in Pusher, object' = object,
           \A s \in Pusher \ {q} : touched'[s] = touched[s]
    PROVE  \A s \in Pusher \ {q} : Seen(s)
BY DEF Seen

-----------------------------------------------------------------------------
(* Every step keeps the invariant.                                         *)

LEMMA StartStep ==
    ASSUME IInv, NEW q \in Pusher, NEW h \in Hows, Start(q, h)
    PROVE  IInv'
<1>1. root[q] \in Manifest
  BY TreeAssumption DEF IInv, TypeOK
<1>2. LocalTypes'
  BY <1>1, Bodies, HowAssumption
     DEF IInv, TypeOK, LocalsOK, LocalTypes, Start, Labels
<1>3. BucketTypes' /\ OtherTypes'
  BY DEF IInv, TypeOK, BucketTypes, OtherTypes, Start, counts
<1>4. LocalsOK'
  BY HowAssumption DEF IInv, TypeOK, LocalsOK, Start
<1>5. \A s \in Pusher \ {q} : Still(s) /\ Seen(s)
  BY DEF IInv, TypeOK, Start, Still, Seen
<1>6. ContentKnown(q)'
  BY <1>1, HowAssumption
     DEF IInv, TypeOK, LocalsOK, Start, ContentKnown, Knows, Settled
<1>7. ManifestKnown(q)'
  BY DEF IInv, TypeOK, LocalsOK, Start, ManifestKnown
<1>. QED BY <1>2, <1>3, <1>4, <1>5, <1>6, <1>7, StepOf

LEMMA FetchStep ==
    ASSUME IInv, NEW q \in Pusher, Fetch(q)
    PROVE  IInv'
<1>. DEFINE o == object[ManifestKey]
            m == IF o = Nil THEN NoFiles ELSE o.body
<1>1. m \in Manifest /\ want[q] \in Manifest
  BY Bodies DEF IInv, TypeOK, Fetch, Store, Object, Decodes
<1>2. Candidates(q, m) \subseteq Paths(want[q])
  BY DEF Candidates
<1>3. /\ pc[q] = "fetch"
      /\ pc' = [pc EXCEPT ![q] = "head"]
      /\ same' = [same EXCEPT ![q] = SameManifest(q, o)]
      /\ heads' = [heads EXCEPT ![q] = Candidates(q, m)]
      /\ upload' = [upload EXCEPT ![q] = Paths(want[q]) \ Candidates(q, m)]
      /\ touched' = [touched EXCEPT ![q] = {}]
      /\ UNCHANGED <<object, wire, root, how, want, failed, result, quiet, counts>>
  BY DEF Fetch, NewOrChanged
<1>. HIDE DEF m
<1>4. LocalTypes'
  BY <1>1, <1>2, <1>3, Bodies DEF IInv, TypeOK, LocalTypes, Labels, SameManifest
<1>5. BucketTypes' /\ OtherTypes'
  BY <1>3 DEF IInv, TypeOK, BucketTypes, OtherTypes, counts
<1>6. LocalsOK'
  BY <1>3 DEF IInv, TypeOK, LocalsOK
<1>7. \A s \in Pusher \ {q} : Still(s) /\ Seen(s)
  BY <1>3 DEF IInv, TypeOK, Still, Seen
<1>8. ContentKnown(q)'
  BY <1>2, <1>3 DEF IInv, TypeOK, LocalsOK, ContentKnown, Knows, Settled
<1>9. ManifestKnown(q)'
  <2>1. same'[q] => o # Nil /\ o.body = want[q]
    BY <1>3 DEF IInv, TypeOK, SameManifest
  <2>2. ~(pc'[q] = "idle") /\ object' = object /\ want' = want
    BY <1>3 DEF IInv, TypeOK
  <2>. QED BY <2>1, <2>2, <1>1, Bodies DEF ManifestKnown, Decodes
<1>. QED BY <1>4, <1>5, <1>6, <1>7, <1>8, <1>9, StepOf

LEMMA HeadStep ==
    ASSUME IInv, NEW q \in Pusher, NEW p \in Path, Head(q, p)
    PROVE  IInv'
<1>1. LocalTypes'
  BY DEF IInv, TypeOK, LocalTypes, Head
<1>2. BucketTypes' /\ OtherTypes'
  BY DEF IInv, TypeOK, BucketTypes, OtherTypes, Head, counts
<1>3. LocalsOK'
  BY DEF IInv, TypeOK, LocalsOK, Head
<1>4. \A s \in Pusher \ {q} : Still(s) /\ Seen(s)
  BY DEF IInv, TypeOK, Head, Still, Seen
<1>5. ContentKnown(q)'
  <2>1. \A u \in Settled(q)' \ touched'[q] :
            u \in Settled(q) \ touched[q] \/ Verifies(object[u], want[q][u].data)
    BY DEF IInv, TypeOK, Head, Settled
  <2>2. how'[q] = how[q] /\ want' = want /\ object' = object /\ Knows(q)
    BY DEF Head, Knows
  <2>. QED BY <2>1, <2>2 DEF IInv, SettledOK, ContentKnown
<1>6. ManifestKnown(q)'
  BY Bodies DEF IInv, TypeOK, Head, SettledOK, ManifestKnown
<1>. QED BY <1>1, <1>2, <1>3, <1>4, <1>5, <1>6, StepOf

LEMMA HeadForbiddenStep ==
    ASSUME IInv, NEW q \in Pusher, NEW p \in Path, HeadForbidden(q, p)
    PROVE  IInv'
<1>1. LocalTypes'
  BY DEF IInv, TypeOK, LocalTypes, HeadForbidden
<1>2. BucketTypes' /\ OtherTypes'
  BY CountTypes DEF IInv, TypeOK, BucketTypes, OtherTypes, HeadForbidden
<1>3. LocalsOK'
  BY DEF IInv, TypeOK, LocalsOK, HeadForbidden
<1>4. \A s \in Pusher \ {q} : Still(s) /\ Seen(s)
  BY DEF IInv, TypeOK, HeadForbidden, Still, Seen
<1>5. ContentKnown(q)'
  BY DEF IInv, TypeOK, HeadForbidden, SettledOK, ContentKnown, Knows, Settled
<1>6. ManifestKnown(q)'
  BY DEF IInv, TypeOK, HeadForbidden, SettledOK, ManifestKnown
<1>. QED BY <1>1, <1>2, <1>3, <1>4, <1>5, <1>6, StepOf

\* The push ends with an error or is killed, whatever it leaves on the wire.
LEMMA ErrorStep ==
    ASSUME IInv, NEW q \in Pusher, EndWithError(q), object' = object,
           BucketTypes', root' = root,
           {faultCount, killCount, damageCount, editCount}' \subseteq Nat
    PROVE  IInv'
<1>1. LocalTypes' /\ LocalsOK' /\ OtherTypes'
  BY ErrorTypes DEF IInv, TypeOK, OtherTypes
<1>2. \A s \in Pusher \ {q} : Still(s) /\ Seen(s)
  BY ErrorTypes, Unseen DEF IInv
<1>3. ContentKnown(q)' /\ ManifestKnown(q)'
  BY ErrorTypes DEF IInv, ContentKnown, Knows, ManifestKnown
<1>. QED BY <1>1, <1>2, <1>3, StepOf

LEMMA FetchFailsStep ==
    ASSUME IInv, NEW q \in Pusher, FetchFails(q) \/ HeadFails(q)
    PROVE  IInv'
<1>1. /\ EndWithError(q) /\ object' = object /\ wire' = wire /\ root' = root
      /\ UNCHANGED counts \/ Fault
  BY DEF FetchFails, HeadFails, NoFault
<1>2. BucketTypes'
  BY <1>1 DEF IInv, TypeOK, BucketTypes
<1>. QED BY <1>1, <1>2, CountTypes, ErrorStep DEF IInv

\* Those that send, and are not answered.
LEMMA GivesUpStep ==
    ASSUME IInv, NEW q \in Pusher,
           UploadsFail(q) \/ ManifestUnanswered(q) \/ Kill(q)
    PROVE  IInv'
<1>1. /\ EndWithError(q) /\ object' = object /\ root' = root
      /\ \E sent \in SUBSET Pending(q) : wire' = wire \cup sent
  BY DEF UploadsFail, ManifestUnanswered, Kill
<1>2. {faultCount, killCount, damageCount, editCount}' \subseteq Nat
  BY DEF IInv, TypeOK, UploadsFail, ManifestUnanswered, Kill, counts, Fault
<1>3. BucketTypes'
  BY <1>1, Requests DEF IInv, TypeOK, BucketTypes
<1>. QED BY <1>1, <1>2, <1>3, ErrorStep

\* A step that only moves q on, knowing what it knew.
LEMMA MoveStep ==
    ASSUME IInv, NEW q \in Pusher, NEW l \in {"upload", "manifest"},
           pc[q] \in {"head", "upload"}, heads[q] = {},
           l = "manifest" => upload[q] = {} /\ ~same[q],
           pc' = [pc EXCEPT ![q] = l],
           UNCHANGED <<how, want, same, heads, upload, failed, result>>,
           UNCHANGED <<object, wire, root, history, counts>>
    PROVE  IInv'
<1>1. LocalTypes'
  BY DEF IInv, TypeOK, LocalTypes, Labels
<1>2. BucketTypes' /\ OtherTypes'
  BY DEF IInv, TypeOK, BucketTypes, OtherTypes, history, counts
<1>3. LocalsOK'
  BY DEF IInv, TypeOK, LocalsOK
<1>4. \A s \in Pusher \ {q} : Still(s) /\ Seen(s)
  BY DEF IInv, TypeOK, Still, Seen, history
<1>5. ContentKnown(q)'
  BY DEF IInv, TypeOK, SettledOK, ContentKnown, Knows, Settled, history
<1>6. ManifestKnown(q)'
  BY DEF IInv, TypeOK, SettledOK, ManifestKnown, history
<1>. QED BY <1>1, <1>2, <1>3, <1>4, <1>5, <1>6, StepOf

\* A step after which q has nothing more to do: the manifest is there.
LEMMA FinishStep ==
    ASSUME IInv, NEW q \in Pusher,
           pc[q] \in {"head", "upload"}, heads[q] = {}, upload[q] = {}, same[q],
           End(q, "ok"), UNCHANGED <<object, wire, root, history, counts>>
    PROVE  IInv'
<1>1. LocalTypes' /\ LocalsOK'
  BY EndTypes DEF IInv
<1>2. BucketTypes' /\ OtherTypes'
  BY DEF IInv, TypeOK, BucketTypes, OtherTypes, history, counts
<1>3. \A s \in Pusher \ {q} : Still(s) /\ Seen(s)
  BY EndTypes DEF IInv, Seen, history
<1>4. want'[q] = want[q] /\ how'[q] = how[q] /\ pc'[q] = "idle"
      /\ heads'[q] = {} /\ upload'[q] = {}
  BY EndTypes DEF IInv
<1>5. ContentKnown(q)'
  BY <1>4 DEF IInv, SettledOK, ContentKnown, Knows, Settled, history
<1>6. ManifestKnown(q)'
  BY <1>4 DEF IInv, SettledOK, ManifestKnown, history
<1>. QED BY <1>1, <1>2, <1>3, <1>5, <1>6, StepOf

LEMMA DoneStep ==
    ASSUME IInv, NEW q \in Pusher, HeadsDone(q) \/ UploadsDone(q)
    PROVE  IInv'
<1>1. CASE HeadsDone(q)
  <2>1. CASE same[q] /\ upload[q] = {}
    BY <1>1, <2>1, FinishStep DEF HeadsDone
  <2>2. CASE ~(same[q] /\ upload[q] = {})
    BY <1>1, <2>2, MoveStep DEF HeadsDone
  <2>. QED BY <2>1, <2>2
<1>2. CASE UploadsDone(q)
  <2>1. heads[q] = {}
    BY <1>2 DEF IInv, LocalsOK, UploadsDone
  <2>2. CASE same[q]
    BY <1>2, <2>1, <2>2, FinishStep DEF UploadsDone
  <2>3. CASE ~same[q]
    BY <1>2, <2>1, <2>3, MoveStep DEF UploadsDone
  <2>. QED BY <2>2, <2>3
<1>. QED BY <1>1, <1>2

LEMMA PutFileStep ==
    ASSUME IInv, NEW q \in Pusher, NEW p \in Path, PutFile(q, p)
    PROVE  IInv'
<1>. DEFINE o == Stored(want[q][p].data)
<1>1. want[q] \in Manifest /\ p \in Paths(want[q]) /\ p \in Key
  BY Bodies DEF IInv, TypeOK, PutFile
<1>2. o \in Store(p) /\ o # Nil
  BY <1>1, Bodies
<1>3. object' = [object EXCEPT ![p] = o] /\ WrittenBy({q}, p)
  BY DEF PutFile, PutObject
<1>. HIDE DEF o
<1>4. /\ DOMAIN object' = Key /\ \A j \in Key : object'[j] \in Store(j)
      /\ object'[p] = o
      /\ \A j \in Key \ {p} : object'[j] = object[j]
      /\ touched' \in [Pusher -> SUBSET Key]
      /\ quiet' \in [Pusher -> BOOLEAN]
      /\ touched'[q] = touched[q] \ {p}
      /\ \A s \in Pusher \ {q} :
            Concerned(s) => touched'[s] = touched[s] \cup {p}
  <2>1. TypeOK /\ {q} \in SUBSET Pusher
    BY DEF IInv
  <2>. QED BY <1>1, <1>2, <1>3, <2>1, Writes, Zenon
<1>5. LocalTypes'
  BY DEF IInv, TypeOK, LocalTypes, PutFile
<1>6. BucketTypes' /\ OtherTypes'
  BY <1>4 DEF IInv, TypeOK, BucketTypes, OtherTypes, PutFile, counts
<1>7. LocalsOK'
  BY DEF IInv, TypeOK, LocalsOK, PutFile
<1>8. \A s \in Pusher \ {q} : Still(s) /\ Seen(s)
  BY <1>4 DEF IInv, TypeOK, PutFile, Still, Seen
<1>9. ContentKnown(q)'
  <2>1. Verifies(object'[p], want[q][p].data)
    BY <1>2, <1>4 DEF o, Verifies, Stored
  <2>2. \A u \in Settled(q)' \ touched'[q] : u = p \/ u \in Settled(q) \ touched[q]
    BY <1>4 DEF IInv, TypeOK, PutFile, Settled
  <2>3. how'[q] = how[q] /\ want' = want /\ Knows(q) /\ Settled(q) \subseteq Key
    BY Bodies DEF IInv, TypeOK, PutFile, Knows, Settled
  <2>. QED BY <1>4, <2>1, <2>2, <2>3 DEF IInv, SettledOK, ContentKnown
<1>10. ManifestKnown(q)'
  BY <1>4, Bodies DEF IInv, SettledOK, ManifestKnown, PutFile
<1>. QED BY <1>5, <1>6, <1>7, <1>8, <1>9, <1>10, StepOf

LEMMA PutManifestStep ==
    ASSUME IInv, NEW q \in Pusher, PutManifest(q)
    PROVE  IInv'
<1>. DEFINE o == Stored(want[q])
<1>1. /\ want[q] \in Manifest /\ ManifestKey \in Key
      /\ o \in Store(ManifestKey) /\ o # Nil
  BY Bodies DEF IInv, TypeOK
<1>2. /\ object' = [object EXCEPT ![ManifestKey] = o]
      /\ WrittenBy({q}, ManifestKey) /\ End(q, "ok")
      /\ UNCHANGED <<wire, root, counts>> /\ pc[q] = "manifest"
  BY DEF PutManifest, PutObject
<1>. HIDE DEF o
<1>3. /\ DOMAIN object' = Key /\ \A j \in Key : object'[j] \in Store(j)
      /\ object'[ManifestKey] = o
      /\ \A j \in Key \ {ManifestKey} : object'[j] = object[j]
      /\ touched' \in [Pusher -> SUBSET Key]
      /\ quiet' \in [Pusher -> BOOLEAN]
      /\ touched'[q] = touched[q] \ {ManifestKey}
      /\ \A s \in Pusher \ {q} :
            Concerned(s) => touched'[s] = touched[s] \cup {ManifestKey}
  <2>1. TypeOK /\ {q} \in SUBSET Pusher
    BY DEF IInv
  <2>. QED BY <1>1, <1>2, <2>1, Writes, Zenon
<1>4. /\ LocalTypes' /\ LocalsOK' /\ \A s \in Pusher \ {q} : Still(s)
      /\ want'[q] = want[q] /\ how'[q] = how[q] /\ pc'[q] = "idle"
      /\ heads'[q] = {} /\ upload'[q] = {} /\ ~same'[q]
  BY <1>2, EndTypes DEF IInv
<1>5. BucketTypes' /\ OtherTypes'
  BY <1>2, <1>3 DEF IInv, TypeOK, BucketTypes, OtherTypes, counts
<1>6. \A s \in Pusher \ {q} : Seen(s)
  BY <1>3 DEF Seen
<1>7. ContentKnown(q)'
  <2>1. heads[q] = {} /\ upload[q] = {} /\ Knows(q)
    BY <1>2 DEF IInv, LocalsOK, Knows
  <2>2. Settled(q)' = Settled(q) /\ Settled(q) \subseteq Key \ {ManifestKey}
    BY <1>1, <1>4, <2>1, Bodies DEF Settled
  <2>. QED BY <1>3, <1>4, <2>1, <2>2 DEF IInv, SettledOK, ContentKnown
<1>8. ManifestKnown(q)'
  BY <1>1, <1>3, <1>4, Bodies DEF o, ManifestKnown, Stored, Decodes
<1>. QED BY <1>4, <1>5, <1>6, <1>7, <1>8, StepOf

\* A put that fails or is repeated is nothing to anybody yet.
LEMMA UnsettledStep ==
    ASSUME IInv, NEW q \in Pusher,
           \/ \E p \in Path :
                 PutRefused(q, p) \/ PutUnanswered(q, p) \/ PutRepeated(q, p)
           \/ ManifestRepeated(q)
    PROVE  IInv'
<1>1. /\ UNCHANGED <<object, root, pc, how, want, same, heads, upload, result,
                     history>>
      /\ failed' = failed \/ failed' = [failed EXCEPT ![q] = TRUE]
      /\ UNCHANGED counts \/ Fault
  BY DEF PutRefused, PutUnanswered, PutRepeated, ManifestRepeated, locals
<1>2. \A w \in wire' : w.key \in Key /\ w.body \in Body(w.key)
  BY Requests DEF IInv, TypeOK, PutRefused, PutUnanswered, PutRepeated,
                  ManifestRepeated
<1>3. {faultCount, killCount, damageCount, editCount}' \subseteq Nat
  BY <1>1, CountTypes DEF IInv
<1>4. LocalTypes' /\ LocalsOK'
  BY <1>1 DEF IInv, TypeOK, LocalTypes, LocalsOK
<1>5. BucketTypes' /\ OtherTypes'
  BY <1>1, <1>2, <1>3 DEF IInv, TypeOK, BucketTypes, OtherTypes, history
<1>6. \A s \in Pusher : Still(s) /\ Seen(s)
  BY <1>1 DEF Still, Seen, history
<1>7. ContentKnown(q)' /\ ManifestKnown(q)'
  BY <1>6, Undisturbed DEF IInv, SettledOK
<1>. QED BY <1>4, <1>5, <1>6, <1>7, StepOf

LEMMA EditStep ==
    ASSUME IInv, NEW q \in Pusher, NEW t \in Trees, Edit(q, t)
    PROVE  IInv'
<1>1. LocalTypes' /\ LocalsOK'
  BY DEF IInv, TypeOK, LocalTypes, LocalsOK, Edit, locals
<1>2. BucketTypes' /\ OtherTypes'
  BY DEF IInv, TypeOK, BucketTypes, OtherTypes, Edit, history
<1>3. \A s \in Pusher : Still(s) /\ Seen(s)
  BY DEF Still, Seen, Edit, locals, history
<1>4. ContentKnown(q)' /\ ManifestKnown(q)'
  BY <1>3, Undisturbed DEF IInv, SettledOK
<1>. QED BY <1>1, <1>2, <1>3, <1>4, StepOf

\* What others write, everybody hears of.
LEMMA OutsideStep ==
    ASSUME IInv, NEW k \in Key, NEW o \in Store(k),
           object' = [object EXCEPT ![k] = o], WrittenBy({}, k),
           UNCHANGED <<root, locals>>,
           \A w \in wire' : w \in wire,
           {faultCount, killCount, damageCount, editCount}' \subseteq Nat
    PROVE  IInv'
<1>1. /\ DOMAIN object' = Key /\ \A j \in Key : object'[j] \in Store(j)
      /\ \A j \in Key \ {k} : object'[j] = object[j]
      /\ touched' \in [Pusher -> SUBSET Key]
      /\ quiet' \in [Pusher -> BOOLEAN]
      /\ \A s \in Pusher : Concerned(s) => touched'[s] = touched[s] \cup {k}
  <2>1. TypeOK /\ {} \in SUBSET Pusher
    BY DEF IInv
  <2>. QED BY <2>1, Writes, Zenon
<1>2. TypeOK' /\ LocalsOK'
  BY <1>1 DEF IInv, TypeOK, LocalsOK, locals
<1>3. \A s \in Pusher : Still(s) /\ Seen(s)
  BY <1>1 DEF Still, Seen, locals
<1>4. SettledOK'
  BY <1>3, Undisturbed DEF IInv, SettledOK
<1>. QED BY <1>2, <1>4 DEF IInv

LEMMA LandStep ==
    ASSUME IInv, NEW w \in wire, Land(w)
    PROVE  IInv'
<1>1. w.key \in Key /\ Stored(w.body) \in Store(w.key)
  BY Bodies DEF IInv, TypeOK
<1>. QED BY <1>1, OutsideStep DEF Land, counts, IInv, TypeOK

LEMMA DamageStep ==
    ASSUME IInv, NEW k \in Exposed, Damage(k)
    PROVE  IInv'
<1>1. k \in Key /\ object[k] \in Store(k)
  BY ExposedAssumption DEF IInv, TypeOK
<1>2. PICK o \in {Nil, [body |-> Torn, sum |-> TRUE, fresh |-> TRUE]} \cup
             (IF object[k] = Nil THEN {} ELSE {[object[k] EXCEPT !.sum = FALSE]}) :
         object' = [object EXCEPT ![k] = o]
  BY DEF Damage
<1>3. o \in Store(k)
  <2>1. CASE o = Nil
    BY <2>1 DEF Store
  <2>2. CASE o = [body |-> Torn, sum |-> TRUE, fresh |-> TRUE]
    BY <2>2 DEF Store, Object
  <2>3. CASE object[k] # Nil /\ o = [object[k] EXCEPT !.sum = FALSE]
    BY <1>1, <2>3 DEF Store, Object
  <2>. QED BY <1>2, <2>1, <2>2, <2>3
<1>4. {faultCount, killCount, damageCount, editCount}' \subseteq Nat
  BY DEF Damage, IInv, TypeOK
<1>. QED BY <1>1, <1>2, <1>3, <1>4, OutsideStep DEF Damage

LEMMA InitInv == Init => IInv
<1>1. SUFFICES ASSUME Init PROVE IInv
  OBVIOUS
<1>2. object \in Buckets
  BY <1>1 DEF Init
<1>3. DOMAIN object = Key /\ \A k \in Key : object[k] \in Store(k)
  BY <1>2, BucketAssumption DEF Consistent
<1>4. TypeOK
  BY <1>1, <1>3, Bodies DEF Init, TypeOK, Labels
<1>5. LocalsOK /\ SettledOK
  BY <1>1 DEF Init, LocalsOK, SettledOK, ContentKnown, Knows, ManifestKnown
<1>. QED BY <1>4, <1>5 DEF IInv

LEMMA StepInv == IInv /\ [Next]_vars => IInv'
<1>1. SUFFICES ASSUME IInv, [Next]_vars PROVE IInv'
  OBVIOUS
<1>2. ASSUME NEW q \in Pusher, NEW h \in Hows, Start(q, h) PROVE IInv'
  BY <1>1, <1>2, StartStep
<1>3. ASSUME NEW q \in Pusher, Diff(q) PROVE IInv'
  BY <1>1, <1>3, FetchStep, FetchFailsStep, HeadStep, HeadForbiddenStep, DoneStep
     DEF Diff
<1>4. ASSUME NEW q \in Pusher, Upload(q) PROVE IInv'
  BY <1>1, <1>4, PutFileStep, UnsettledStep, DoneStep, GivesUpStep DEF Upload
<1>5. ASSUME NEW q \in Pusher, Publish(q) PROVE IInv'
  <2>1. CASE PutManifest(q)
    BY <1>1, <2>1, PutManifestStep
  <2>2. CASE ManifestUnanswered(q)
    BY <1>1, <2>2, GivesUpStep
  <2>3. CASE ManifestRepeated(q)
    BY <1>1, <2>3, UnsettledStep
  <2>. QED BY <1>5, <2>1, <2>2, <2>3 DEF Publish
<1>6. CASE Environment
  BY <1>1, <1>6, GivesUpStep, EditStep, LandStep, DamageStep DEF Environment
<1>7. CASE UNCHANGED vars
  BY <1>1, <1>7
     DEF vars, locals, history, counts, IInv, TypeOK, LocalsOK, SettledOK,
         ContentKnown, Knows, Settled, ManifestKnown
<1>. QED BY <1>1, <1>2, <1>3, <1>4, <1>5, <1>6, <1>7 DEF Next, Step

\* IInv holds of every behaviour.
THEOREM PushInvariance == Spec => []IInv
BY InitInv, StepInv, PTL DEF Spec

\* Every variable of Push keeps its type.
THEOREM PushTypes == Spec => []TypeOK
BY PushInvariance, PTL DEF IInv

\* A push puts its manifest, and returns nil, only over content that verifies.
THEOREM ContentIsFirst == Spec => []ContentFirst
<1>1. IInv => ContentFirst
  BY DEF IInv, LocalsOK, SettledOK, ContentKnown, ContentFirst, Knows, Settled
<1>. QED BY <1>1, PushInvariance, PTL

\* A push returns nil only when its manifest is the published one.
THEOREM OkMeansPublished == Spec => []OkIsPublished
<1>1. IInv => OkIsPublished
  BY DEF IInv, SettledOK, ManifestKnown, OkIsPublished
<1>. QED BY <1>1, PushInvariance, PTL

-----------------------------------------------------------------------------
(* One process beside another.                                             *)

\* What another process does leaves the locals of q alone.
LEMMA OthersStill ==
    ASSUME IInv, NEW q \in Pusher, NEW r \in Pusher \ {q},
           (\E h \in Hows : Start(r, h)) \/ Step(r) \/ Kill(r)
    PROVE  Still(q)
<1>1. ASSUME NEW h \in Hows, Start(r, h) PROVE Still(q)
  BY <1>1 DEF IInv, TypeOK, Still, Start
<1>2. ASSUME NEW x \in {"ok", "failed"}, End(r, x) PROVE Still(q)
  BY <1>2 DEF IInv, TypeOK, Still, End
<1>3. ASSUME UNCHANGED locals PROVE Still(q)
  BY <1>3 DEF Still, locals
<1>4. CASE Diff(r)
  <2>1. CASE Fetch(r)
    BY <2>1 DEF IInv, TypeOK, Still, Fetch
  <2>2. CASE \E p \in Path : Head(r, p) \/ HeadForbidden(r, p)
    BY <2>2 DEF IInv, TypeOK, Still, Head, HeadForbidden
  <2>3. CASE FetchFails(r) \/ HeadFails(r)
    BY <1>2, <2>3 DEF FetchFails, HeadFails, EndWithError
  <2>4. CASE HeadsDone(r)
    BY <1>2, <2>4 DEF IInv, TypeOK, Still, HeadsDone
  <2>. QED BY <1>4, <2>1, <2>2, <2>3, <2>4 DEF Diff
<1>5. CASE Upload(r)
  <2>1. CASE \E p \in Path : PutFile(r, p)
    BY <2>1 DEF IInv, TypeOK, Still, PutFile
  <2>2. CASE \E p \in Path : PutRefused(r, p) \/ PutUnanswered(r, p)
    BY <2>2 DEF IInv, TypeOK, Still, PutRefused, PutUnanswered
  <2>3. CASE \E p \in Path : PutRepeated(r, p)
    BY <1>3, <2>3 DEF PutRepeated
  <2>4. CASE UploadsDone(r)
    BY <1>2, <2>4 DEF IInv, TypeOK, Still, UploadsDone
  <2>5. CASE UploadsFail(r)
    BY <1>2, <2>5 DEF UploadsFail, EndWithError
  <2>. QED BY <1>5, <2>1, <2>2, <2>3, <2>4, <2>5 DEF Upload
<1>6. CASE Publish(r)
  BY <1>2, <1>3, <1>6
     DEF Publish, PutManifest, ManifestUnanswered, ManifestRepeated, EndWithError
<1>7. CASE Kill(r)
  BY <1>2, <1>7 DEF Kill, EndWithError
<1>. QED BY <1>1, <1>4, <1>5, <1>6, <1>7 DEF Step

\* When q is still quiet, another process has written nothing.
LEMMA OthersQuiet ==
    ASSUME IInv, NEW q \in Pusher, NEW r \in Pusher \ {q}, quiet'[q],
           (\E h \in Hows : Start(r, h)) \/ Step(r) \/ Kill(r)
    PROVE  quiet[q] /\ object' = object
<1>1. CASE \E h \in Hows : Start(r, h)
  BY <1>1 DEF IInv, TypeOK, Start
<1>2. ASSUME NEW k \in Key, NEW b, PutObject(r, k, b) PROVE FALSE
  BY <1>2 DEF PutObject, WrittenBy
<1>3. ASSUME EndWithError(r) PROVE quiet[q]
  BY <1>3 DEF IInv, TypeOK, EndWithError, Forget
<1>4. CASE Diff(r)
  <2>1. CASE Fetch(r) \/ HeadsDone(r) \/ \E p \in Path : Head(r, p)
    BY <2>1 DEF Fetch, HeadsDone, Head, history
  <2>2. CASE \E p \in Path : HeadForbidden(r, p)
    BY <2>2 DEF IInv, TypeOK, HeadForbidden
  <2>3. CASE FetchFails(r) \/ HeadFails(r)
    BY <1>3, <2>3 DEF FetchFails, HeadFails
  <2>. QED BY <1>4, <2>1, <2>2, <2>3 DEF Diff
<1>5. CASE Upload(r)
  <2>1. ~ \E p \in Path : PutFile(r, p)
    BY <1>2 DEF PutFile, Key
  <2>2. CASE UploadsDone(r) \/ \E p \in Path :
                 PutRefused(r, p) \/ PutUnanswered(r, p) \/ PutRepeated(r, p)
    BY <2>2 DEF PutRefused, PutUnanswered, PutRepeated, UploadsDone, history
  <2>3. CASE UploadsFail(r)
    BY <1>3, <2>3 DEF UploadsFail
  <2>. QED BY <1>5, <2>1, <2>2, <2>3 DEF Upload
<1>6. CASE Publish(r)
  <2>1. ~ PutManifest(r)
    BY <1>2 DEF PutManifest, Key
  <2>2. CASE ManifestRepeated(r)
    BY <2>2 DEF ManifestRepeated, history
  <2>3. CASE ManifestUnanswered(r)
    BY <1>3, <2>3 DEF ManifestUnanswered
  <2>. QED BY <1>6, <2>1, <2>2, <2>3 DEF Publish
<1>7. CASE Kill(r)
  BY <1>3, <1>7 DEF Kill
<1>. QED BY <1>1, <1>4, <1>5, <1>6, <1>7 DEF Step

-----------------------------------------------------------------------------
(* Nothing is missing, in buckets that only push writes.                   *)

\* One step of a push, as far as what it has settled goes: a file is settled
\* anew only when there is an object for it.
LEMMA SettlesPresent ==
    ASSUME IInv, "adopt" \notin Hows, NEW q \in Pusher,
           \/ \E h \in Hows : Start(q, h)
           \/ Step(q) \/ Kill(q),
           Knows(q)', NEW p \in Settled(q)'
    PROVE  (Knows(q) /\ p \in Settled(q)) \/ object'[p] # Nil
<1>1. CASE \E h \in Hows : Start(q, h)
  <2>1. PICK h \in Hows : Start(q, h)
    BY <1>1
  <2>2. /\ pc'[q] = "fetch" \/ (pc'[q] = "upload" /\ h = "full")
        /\ want'[q] = root[q]
        /\ upload'[q] = IF h = "full" THEN Paths(root[q]) ELSE {}
    BY <2>1, HowAssumption DEF IInv, TypeOK, Start
  <2>. QED BY <2>2 DEF Knows, Settled
<1>2. CASE Fetch(q)
  <2>1. Settled(q)' = {}
    BY <1>2 DEF IInv, TypeOK, Fetch, NewOrChanged, Settled
  <2>. QED BY <2>1
<1>3. CASE EndWithError(q)
  BY <1>3, ErrorTypes DEF IInv, Knows
<1>4. CASE \E u \in Path : Head(q, u)
  BY <1>4 DEF IInv, TypeOK, Head, Knows, Settled, Verifies
<1>5. CASE \E u \in Path : HeadForbidden(q, u)
  BY <1>5 DEF IInv, TypeOK, HeadForbidden, Knows, Settled
<1>6. CASE HeadsDone(q) \/ UploadsDone(q)
  BY <1>6 DEF IInv, TypeOK, LocalsOK, HeadsDone, UploadsDone, End, Knows, Settled
<1>7. CASE \E u \in Path : PutFile(q, u)
  <2>1. PICK u \in Path : PutFile(q, u)
    BY <1>7
  <2>2. u \in Key /\ Stored(want[q][u].data) # Nil
    BY <2>1, Bodies DEF IInv, TypeOK, PutFile
  <2>3. object'[u] # Nil
    BY <2>1, <2>2 DEF IInv, TypeOK, PutFile, PutObject
  <2>4. p = u \/ (Knows(q) /\ p \in Settled(q))
    BY <2>1 DEF IInv, TypeOK, PutFile, Knows, Settled
  <2>. QED BY <2>3, <2>4
<1>8. CASE \/ \E u \in Path :
                 PutRefused(q, u) \/ PutUnanswered(q, u) \/ PutRepeated(q, u)
           \/ ManifestRepeated(q)
  BY <1>8 DEF PutRefused, PutUnanswered, PutRepeated, ManifestRepeated, locals,
              Knows, Settled
<1>9. CASE PutManifest(q)
  <2>1. want'[q] = want[q] /\ Knows(q) /\ heads[q] = {} /\ upload[q] = {}
    BY <1>9 DEF IInv, TypeOK, LocalsOK, PutManifest, End, Knows
  <2>. QED BY <2>1 DEF Settled
<1>. QED
  BY <1>1, <1>2, <1>3, <1>4, <1>5, <1>6, <1>7, <1>8, <1>9
     DEF Step, Diff, Upload, Publish, FetchFails, HeadFails, UploadsFail,
         ManifestUnanswered, Kill

\* A manifest goes on the wire only when all its files are settled.
LEMMA SendsSettled ==
    ASSUME IInv, NEW q \in Pusher,
           \/ \E h \in Hows : Start(q, h)
           \/ Step(q) \/ Kill(q),
           NEW w \in wire', w \notin wire, w.key = ManifestKey
    PROVE  w.body = want[q] /\ Knows(q) /\ Settled(q) = Paths(want[q])
<1>1. w \in Pending(q) \/ \E p \in upload[q] : w = Request(p, want[q][p].data)
  BY DEF Step, Diff, Upload, Publish, Start, Fetch, FetchFails, Head,
         HeadForbidden, HeadFails, HeadsDone, PutFile, PutRefused, PutUnanswered,
         PutRepeated, UploadsDone, UploadsFail, PutManifest, ManifestUnanswered,
         ManifestRepeated, Kill
<1>2. upload[q] \subseteq Path
  BY DEF IInv, TypeOK
<1>3. pc[q] = "manifest" /\ w = Request(ManifestKey, want[q])
  BY <1>1, <1>2, KeyAssumption DEF Pending, Request
<1>. QED BY <1>3 DEF IInv, LocalsOK, Knows, Settled, Request

\* The manifest is replaced by one whose files are settled, or from the wire.
LEMMA PublishesSettled ==
    ASSUME IInv, [Next]_vars, ~(\E j \in Exposed : Damage(j)),
           object'[ManifestKey] # object[ManifestKey]
    PROVE  \/ \E q \in Pusher : /\ object'[ManifestKey].body = want[q]
                                /\ Knows(q) /\ Settled(q) = Paths(want[q])
           \/ \E w \in wire : /\ w.key = ManifestKey
                              /\ object'[ManifestKey].body = w.body
<1>1. CASE \E q \in Pusher : PutManifest(q)
  <2>1. PICK q \in Pusher : PutManifest(q)
    BY <1>1
  <2>2. object'[ManifestKey].body = want[q]
    BY <2>1, Bodies DEF IInv, TypeOK, PutManifest, PutObject, Stored
  <2>3. Knows(q) /\ Settled(q) = Paths(want[q])
    BY <2>1 DEF IInv, LocalsOK, PutManifest, Knows, Settled
  <2>. QED BY <2>2, <2>3
<1>2. CASE \E w \in wire : Land(w)
  <2>1. PICK w \in wire : Land(w)
    BY <1>2
  <2>2. w.key = ManifestKey /\ object'[ManifestKey].body = w.body
    BY <2>1, Bodies DEF IInv, TypeOK, Land, Stored
  <2>. QED BY <2>2
<1>3. CASE \E q \in Pusher, p \in Path : PutFile(q, p)
  BY <1>3, Bodies DEF IInv, TypeOK, PutFile, PutObject
<1>4. CASE object' = object
  BY <1>4
<1>. QED
  BY <1>1, <1>2, <1>3, <1>4
     DEF Next, Step, Diff, Upload, Publish, Environment, Start, Fetch,
         FetchFails, Head, HeadForbidden, HeadFails, HeadsDone, PutRefused,
         PutUnanswered, PutRepeated, UploadsDone, UploadsFail,
         ManifestUnanswered, ManifestRepeated, Kill, Edit, vars

\* No step of a push, and no put that lands, takes an object away.
LEMMA NothingGoes ==
    ASSUME IInv, [Next]_vars, ~(\E j \in Exposed : Damage(j)),
           NEW k \in Key, object[k] # Nil
    PROVE  object'[k] # Nil
<1>1. CASE \E q \in Pusher : PutManifest(q)
  <2>1. PICK q \in Pusher : PutManifest(q)
    BY <1>1
  <2>2. want[q] \in Body(ManifestKey)
    BY Bodies DEF IInv, TypeOK
  <2>. QED BY <2>1, <2>2, Bodies DEF IInv, TypeOK, PutManifest, PutObject
<1>2. CASE \E w \in wire : Land(w)
  <2>1. PICK w \in wire : Land(w)
    BY <1>2
  <2>2. Stored(w.body) # Nil
    BY Bodies DEF IInv, TypeOK
  <2>. QED BY <2>1, <2>2 DEF IInv, TypeOK, Land
<1>3. CASE \E q \in Pusher, p \in Path : PutFile(q, p)
  <2>1. PICK q \in Pusher, p \in Path : PutFile(q, p)
    BY <1>3
  <2>2. Stored(want[q][p].data) # Nil
    BY <2>1, Bodies DEF IInv, TypeOK, PutFile
  <2>. QED BY <2>1, <2>2 DEF IInv, TypeOK, PutFile, PutObject
<1>4. CASE object' = object
  BY <1>4
<1>. QED
  BY <1>1, <1>2, <1>3, <1>4
     DEF Next, Step, Diff, Upload, Publish, Environment, Start, Fetch,
         FetchFails, Head, HeadForbidden, HeadFails, HeadsDone, PutRefused,
         PutUnanswered, PutRepeated, UploadsDone, UploadsFail,
         ManifestUnanswered, ManifestRepeated, Kill, Edit, vars

PresentInv == IInv /\ PresentOK /\ AllPresent

LEMMA PresentStep ==
    ASSUME "adopt" \notin Hows, PresentInv, [Next]_vars,
           ~(\E j \in Exposed : Damage(j))
    PROVE  PresentInv'
<1>1. IInv /\ IInv'
  BY StepInv DEF PresentInv
<1>2. \A k \in Key : object[k] # Nil => object'[k] # Nil
  BY <1>1, NothingGoes
<1>3. /\ \A q \in Pusher : want[q] \in Manifest /\ want'[q] \in Manifest
      /\ \A q \in Pusher : Settled(q)' \subseteq Key
  BY <1>1, Bodies DEF IInv, TypeOK, Settled
<1>4. ASSUME NEW q \in Pusher, Knows(q)', NEW p \in Settled(q)'
      PROVE  object'[p] # Nil
  <2>1. CASE (\E h \in Hows : Start(q, h)) \/ Step(q) \/ Kill(q)
    BY <1>1, <1>2, <1>3, <1>4, <2>1, SettlesPresent DEF PresentInv, PresentOK
  <2>2. CASE Still(q)
    BY <1>2, <1>3, <1>4, <2>2 DEF PresentInv, PresentOK, Still, Knows, Settled
  <2>3. ASSUME NEW r \in Pusher \ {q},
               (\E h \in Hows : Start(r, h)) \/ Step(r) \/ Kill(r)
        PROVE  Still(q)
    BY <1>1, <2>3, OthersStill
  <2>4. CASE \/ \E r \in Pusher, t \in Trees : Edit(r, t)
             \/ \E w \in wire : Land(w)
             \/ UNCHANGED vars
    <3>1. Still(q)
      BY <2>4 DEF Still, Edit, Land, locals, vars
    <3>. QED BY <2>2, <3>1
  <2>. QED BY <2>1, <2>2, <2>3, <2>4 DEF PresentInv, Next, Environment
<1>5. ASSUME NEW w \in wire', w.key = ManifestKey
      PROVE  \A p \in Paths(w.body) : object'[p] # Nil
  <2>1. w.body \in Manifest
    BY <1>1, <1>5, Bodies DEF IInv, TypeOK
  <2>2. CASE w \in wire
    BY <1>2, <1>5, <2>1, <2>2, Bodies DEF PresentInv, PresentOK
  <2>3. ASSUME NEW q \in Pusher, w \notin wire,
               (\E h \in Hows : Start(q, h)) \/ Step(q) \/ Kill(q)
        PROVE  \A p \in Paths(w.body) : object'[p] # Nil
    <3>1. w.body = want[q] /\ Knows(q) /\ Settled(q) = Paths(want[q])
      BY <1>1, <1>5, <2>3, SendsSettled
    <3>. QED BY <1>2, <2>1, <3>1, Bodies DEF PresentInv, PresentOK
  <2>4. CASE \/ \E r \in Pusher, t \in Trees : Edit(r, t)
             \/ \E v \in wire : Land(v)
             \/ UNCHANGED vars
    BY <2>2, <2>4 DEF Edit, Land, vars
  <2>. QED BY <2>2, <2>3, <2>4 DEF PresentInv, Next, Environment
<1>6. AllPresent'
  <2>1. CASE object'[ManifestKey] = object[ManifestKey]
    <3>1. Decodes(object[ManifestKey]) =>
              Paths(object[ManifestKey].body) \subseteq Key
      BY Bodies DEF Paths
    <3>. QED BY <1>2, <2>1, <3>1 DEF PresentInv, AllPresent
  <2>2. CASE object'[ManifestKey] # object[ManifestKey]
    <3>1. \/ \E q \in Pusher : /\ object'[ManifestKey].body = want[q]
                               /\ Knows(q) /\ Settled(q) = Paths(want[q])
          \/ \E w \in wire : /\ w.key = ManifestKey
                             /\ object'[ManifestKey].body = w.body
      BY <1>1, <2>2, PublishesSettled
    <3>2. \A p \in Paths(object'[ManifestKey].body) : object[p] # Nil
      BY <3>1 DEF PresentInv, PresentOK
    <3>3. Paths(object'[ManifestKey].body) \subseteq Key
      BY Bodies DEF Paths
    <3>. QED BY <1>2, <3>2, <3>3 DEF AllPresent
  <2>. QED BY <2>1, <2>2
<1>. QED BY <1>1, <1>4, <1>5, <1>6 DEF PresentInv, PresentOK

\* Damage is counted.
LEMMA Undamaged ==
    ASSUME IInv, [Next]_vars, damageCount' = 0
    PROVE  damageCount = 0 /\ ~(\E j \in Exposed : Damage(j))
<1>1. damageCount \in Nat
  BY DEF IInv, TypeOK
<1>2. ~(\E j \in Exposed : Damage(j))
  BY <1>1 DEF Damage
<1>. QED
  BY <1>2
     DEF Next, Step, Diff, Upload, Publish, Environment, Start, Fetch,
         FetchFails, Head, HeadForbidden, HeadFails, HeadsDone, PutFile,
         PutRefused, PutUnanswered, PutRepeated, UploadsDone, UploadsFail,
         PutManifest, ManifestUnanswered, ManifestRepeated, Kill, Edit, Land,
         Fault, NoFault, EndWithError, counts, vars

UndamagedInv == IInv /\ (damageCount = 0 => PresentInv)

\* A failed push never publishes a manifest whose content is missing.
THEOREM NothingIsMissing ==
    ASSUME "adopt" \notin Hows
    PROVE  Spec => []NothingMissing
<1>1. Init => UndamagedInv
  <2>1. SUFFICES ASSUME Init PROVE PresentInv
    BY DEF UndamagedInv, PresentInv
  <2>2. AllPresent
    BY <2>1, BucketAssumption DEF Init, Consistent, AllPresent
  <2>3. PresentOK
    BY <2>1 DEF Init, PresentOK, Knows
  <2>. QED BY <2>1, <2>2, <2>3, InitInv DEF PresentInv
<1>2. UndamagedInv /\ [Next]_vars => UndamagedInv'
  <2>1. SUFFICES ASSUME UndamagedInv, [Next]_vars PROVE UndamagedInv'
    OBVIOUS
  <2>2. IInv /\ IInv'
    BY <2>1, StepInv DEF UndamagedInv
  <2>3. ASSUME damageCount' = 0 PROVE PresentInv'
    BY <2>1, <2>2, <2>3, Undamaged, PresentStep DEF UndamagedInv
  <2>. QED BY <2>2, <2>3 DEF UndamagedInv
<1>3. UndamagedInv => NothingMissing
  BY DEF UndamagedInv, PresentInv, NothingMissing
<1>. QED BY <1>1, <1>2, <1>3, PTL DEF Spec

-----------------------------------------------------------------------------
(* A push of a tree that is in sync uploads nothing.                       *)

LEMMA QuietStep ==
    ASSUME IInv, QuietOK, [Next]_vars
    PROVE  QuietOK'
<1>. DEFINE Good(q) ==
              /\ pc[q] = "idle" \/ (how[q] = "diff" /\ InSync(want[q]))
              /\ pc[q] = "head" => same[q]
              /\ upload[q] = {}
              /\ pc[q] \notin {"upload", "manifest"}
<1>. SUFFICES ASSUME NEW q \in Pusher, quiet'[q]
              PROVE  Good(q)'
  BY DEF QuietOK
<1>1. CASE \E h \in Hows : Start(q, h)
  <2>1. PICK h \in Hows : Start(q, h)
    BY <1>1
  <2>2. /\ h = "diff" /\ InSync(root[q])
        /\ pc'[q] = "fetch" /\ how'[q] = "diff" /\ want'[q] = root[q]
        /\ upload'[q] = {} /\ object' = object
    BY <2>1 DEF IInv, TypeOK, Start
  <2>. QED BY <2>2 DEF InSync
<1>2. CASE Fetch(q)
  <2>1. /\ pc[q] = "fetch" /\ quiet[q] /\ how[q] = "diff" /\ InSync(want[q])
        /\ pc'[q] = "head" /\ how'[q] = how[q] /\ want'[q] = want[q]
        /\ object' = object /\ object[ManifestKey] # Nil
        /\ same'[q] = SameManifest(q, object[ManifestKey])
        /\ upload'[q] = NewOrChanged(q, object[ManifestKey].body)
    BY <1>2 DEF IInv, TypeOK, QuietOK, Fetch, InSync, Decodes
  <2>2. object[ManifestKey].body = want[q]
    BY <2>1 DEF InSync
  <2>3. same'[q] /\ upload'[q] = {}
    BY <2>1, <2>2 DEF SameManifest, NewOrChanged, Candidates, Paths
  <2>. QED BY <2>1, <2>3 DEF InSync
<1>3. CASE \E p \in Path : Head(q, p)
  <2>1. PICK p \in Path : Head(q, p)
    BY <1>3
  <2>2. /\ pc[q] = "head" /\ quiet[q] /\ p \in Paths(want[q])
    BY <2>1 DEF IInv, TypeOK, Head
  <2>3. InSync(want[q]) /\ how[q] = "diff" /\ same[q] /\ upload[q] = {}
    BY <2>2 DEF QuietOK
  <2>4. Verifies(object[p], want[q][p].data)
    BY <2>2, <2>3 DEF InSync
  <2>5. upload'[q] = {}
    BY <2>1, <2>3, <2>4 DEF IInv, TypeOK, Head
  <2>. QED BY <2>1, <2>2, <2>3, <2>5 DEF Head, InSync
<1>4. CASE HeadsDone(q)
  BY <1>4 DEF IInv, TypeOK, QuietOK, HeadsDone, End, history
<1>5. CASE EndWithError(q) \/ \E p \in Path : HeadForbidden(q, p)
  BY <1>5 DEF IInv, TypeOK, EndWithError, Forget, HeadForbidden
<1>6. CASE (Upload(q) \/ Publish(q)) /\ ~EndWithError(q)
  <2>1. quiet'[q] = quiet[q] /\ pc[q] \in {"upload", "manifest"}
    BY <1>6 DEF IInv, TypeOK, Upload, Publish, PutFile, PutRefused,
                PutUnanswered, PutRepeated, UploadsDone, UploadsFail,
                PutManifest, ManifestUnanswered, ManifestRepeated, PutObject,
                WrittenBy, history
  <2>. QED BY <2>1 DEF QuietOK
<1>7. ASSUME Still(q), object' = object, quiet[q] PROVE Good(q)'
  BY <1>7 DEF QuietOK, Still, InSync
<1>8. ASSUME NEW r \in Pusher \ {q},
             (\E h \in Hows : Start(r, h)) \/ Step(r) \/ Kill(r)
      PROVE  Still(q) /\ quiet[q] /\ object' = object
  <2>1. Still(q)
    BY <1>8, OthersStill
  <2>2. quiet[q] /\ object' = object
    BY <1>8, OthersQuiet
  <2>. QED BY <2>1, <2>2
<1>9. CASE \/ \E r \in Pusher, t \in Trees : Edit(r, t)
           \/ \E w \in wire : Land(w)
           \/ \E k \in Exposed : Damage(k)
           \/ UNCHANGED vars
  <2>1. Still(q) /\ quiet[q] /\ object' = object
    BY <1>9 DEF IInv, TypeOK, Still, Edit, Land, Damage, WrittenBy, locals,
                history, vars
  <2>. QED BY <2>1, <1>7
<1>. QED
  BY <1>1, <1>2, <1>3, <1>4, <1>5, <1>6, <1>7, <1>8, <1>9
     DEF Next, Environment, Step, Diff, FetchFails, HeadFails, Kill

\* An unchanged, verified tree is a no-op that uploads nothing.
THEOREM NoOpPush == Spec => []NoOp
<1>1. Init => QuietOK
  BY DEF Init, QuietOK
<1>2. IInv /\ QuietOK /\ [Next]_vars => QuietOK'
  BY QuietStep
<1>3. QuietOK => NoOp
  BY DEF QuietOK, NoOp
<1>. QED BY <1>1, <1>2, <1>3, PushInvariance, PTL DEF Spec
=============================================================================
