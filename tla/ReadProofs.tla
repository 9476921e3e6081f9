----------------------------- MODULE ReadProofs -----------------------------
(***************************************************************************)
(* Proofs about pulls beside any number of pushes and a prune: what the    *)
(* published manifest lists is there, and a pull that finds an object gone *)
(* was reading an old manifest.                                            *)
(***************************************************************************)
EXTENDS ReadInv, PruneProofs

\* What a push has uploaded is still there, but for what is adrift.
HereOK == \A q \in Pusher : \A p \in sent[q] \ adrift : object[p] # Nil

ReadIInv == PruneIInv /\ ReadTypeOK /\ HereOK /\ Present

-----------------------------------------------------------------------------
(* Pushes and prunes.                                                      *)

\* What is absent after the step, and not adrift, was absent before, or prune
\* has deleted it although nobody relied on it.
LEMMA Gone ==
    ASSUME PruneIInv, Others, NEW p \in Path, p \notin adrift', object'[p] = Nil
    PROVE  /\ p \notin adrift /\ ~PublishesBlindly
           /\ \/ object[p] = Nil
              \/ Prunes(p) /\ ~Excused(p)
BY DEF Others, Beside, Unowed

\* A path the manifest lists from this step on was listed before, or the push
\* that puts the manifest has uploaded it.
LEMMA NewlyListed ==
    ASSUME PruneIInv, PruneNext, ~PublishesBlindly,
           NEW p \in Path, References(p)'
    PROVE  References(p) \/ \E q \in Pusher : p \in sent[q]
<1>1. ASSUME NEW q \in Pusher, PutManifest(q)
      PROVE  References(p) \/ p \in sent[q]
  <2>1. ~Blind(q) /\ Relied(q) /\ q \in Pusher /\ IInv
    BY <1>1 DEF PublishesBlindly, PruneIInv, KnownOK
  <2>2. pc[q] = "manifest" /\ Settled(q) = Paths(want[q])
    BY <1>1, <2>1 DEF IInv, LocalsOK, PutManifest, Settled
  <2>3. object'[ManifestKey].body = want[q]
    BY <1>1, <2>1, Bodies DEF IInv, TypeOK, PutManifest, PutObject, Stored
  <2>4. p \in Settled(q)
    BY <2>2, <2>3 DEF References
  <2>. QED
    BY <2>1, <2>2, <2>4, HowAssumption DEF Relied, Blind
<1>2. ASSUME NEW w \in wire, Land(w)
      PROVE  References(p)
  <2>1. w.key # ManifestKey /\ IInv
    BY <1>2 DEF PublishesBlindly, PruneIInv
  <2>. QED BY <1>2, <2>1 DEF Land, IInv, TypeOK, References
<1>3. ASSUME NEW q \in Pusher, NEW u \in Path, PutFile(q, u)
      PROVE  References(p)
  BY <1>3, Bodies DEF PutFile, PutObject, PruneIInv, IInv, TypeOK, References
<1>4. ASSUME NEW j \in Exposed, Damage(j)
      PROVE  References(p)
  <2>1. PICK o \in {Nil, [body |-> Torn, sum |-> TRUE, fresh |-> TRUE]} \cup
               (IF object[j] = Nil THEN {} ELSE {[object[j] EXCEPT !.sum = FALSE]}) :
           object' = [object EXCEPT ![j] = o]
    BY <1>4 DEF Damage
  <2>2. j \in Key /\ object[j] \in Store(j) /\ IInv
    BY ExposedAssumption DEF PruneIInv, IInv, TypeOK
  <2>3. o = Nil \/ o.body = Torn \/ (object[j] # Nil /\ o.body = object[j].body)
    BY <2>1, <2>2 DEF Store, Object
  <2>. QED BY <2>1, <2>2, <2>3 DEF IInv, TypeOK, References, Decodes
<1>5. ASSUME NEW k \in Key, Delete(k) \/ LateDelete(k) \/ Age(k)
      PROVE  References(p)
  <2>1. k \in doomed \cup late => k # ManifestKey
    BY DEF PruneIInv, PruneTypeOK
  <2>2. IInv /\ object[k] \in Store(k)
    BY DEF PruneIInv, IInv, TypeOK
  <2>3. CASE Delete(k) \/ LateDelete(k)
    <3>1. k # ManifestKey /\ object' = [object EXCEPT ![k] = Nil]
      BY <2>1, <2>3 DEF Delete, LateDelete, Remove
    <3>2. object'[ManifestKey] = object[ManifestKey]
      BY <2>2, <3>1 DEF IInv, TypeOK
    <3>. QED BY <1>5, <3>2 DEF References
  <2>4. CASE Age(k)
    BY <2>2, <2>4, BodyAssumption
       DEF Age, IInv, TypeOK, References, Decodes, Store, Object
  <2>. QED BY <1>5, <2>3, <2>4
<1>6. CASE object' = object
  BY <1>6 DEF References
<1>7. CASE Next
  BY <1>1, <1>2, <1>3, <1>4, <1>6, <1>7
     DEF Next, Step, Diff, Upload, Publish, Environment, Start, Fetch,
         FetchFails, Head, HeadForbidden, HeadFails, HeadsDone, PutRefused,
         PutUnanswered, PutRepeated, UploadsDone, UploadsFail,
         ManifestUnanswered, ManifestRepeated, Kill, Edit
<1>. QED
  BY <1>5, <1>6, <1>7
     DEF PruneNext, PushStep, FetchManifest, PruneStep, List, Listed, Deleted,
         DeleteFails, DeleteRepeated, PruneStops, vars

LEMMA OthersStep ==
    ASSUME ReadIInv, Others
    PROVE  ReadIInv'
<1>1. PruneIInv /\ PruneIInv' /\ PruneNext
  BY PruneStepInv DEF ReadIInv, Others
<1>2. ReadTypeOK'
  BY DEF ReadIInv, ReadTypeOK, Others, Beside, pull
<1>3. HereOK'
  <2>1. SUFFICES ASSUME NEW q \in Pusher, NEW p \in sent'[q], p \notin adrift',
                        object'[p] = Nil
                 PROVE  FALSE
    BY DEF HereOK
  <2>2. p \in Path
    BY <1>1 DEF PruneIInv, PruneTypeOK
  <2>3. CASE p \in sent[q]
    <3>1. Prunes(p) /\ ~Excused(p)
      BY <1>1, <2>1, <2>2, <2>3, Gone DEF ReadIInv, HereOK
    <3>2. Old(p)
      BY <1>1, <2>2, <3>1, PrunedIsOld
    <3>. QED BY <1>1, <2>3, <3>2 DEF PruneIInv, SentOK, Old
  <2>4. CASE p \notin sent[q]
    BY <1>1, <2>1, <2>4, Uploaded
       DEF PruneNext, FetchManifest, PruneStep, List, Delete, DeleteFails,
           DeleteRepeated, Listed, Deleted, PruneStops, LateDelete, Age
  <2>. QED BY <2>3, <2>4
<1>4. Present'
  <2>1. SUFFICES ASSUME NEW p \in Path, p \notin adrift', References(p)',
                        object'[p] = Nil
                 PROVE  FALSE
    BY DEF Present
  <2>2. /\ p \notin adrift /\ ~PublishesBlindly
        /\ object[p] = Nil \/ (Prunes(p) /\ ~Excused(p))
    BY <1>1, <2>1, Gone
  <2>3. References(p) \/ \E q \in Pusher : p \in sent[q]
    BY <1>1, <2>1, <2>2, NewlyListed
  <2>4. object[p] # Nil
    BY <2>2, <2>3 DEF ReadIInv, HereOK, Present
  <2>5. Old(p) /\ ~References(p)
    BY <1>1, <2>2, <2>4, PrunedIsOld
  <2>. QED BY <1>1, <2>3, <2>5 DEF PruneIInv, SentOK, Old
<1>. QED BY <1>1, <1>2, <1>3, <1>4 DEF ReadIInv
-----------------------------------------------------------------------------
(* The pulls.                                                              *)

\* Only the count of failures changes.
LEMMA Unmoved ==
    ASSUME ReadIInv, UNCHANGED <<object, wire, root, locals, history, prune,
                                 rewritten, lapsed, stray, sent, adrift>>,
           UNCHANGED counts \/ Fault
    PROVE  PruneIInv' /\ HereOK' /\ Present'
<1>1. {faultCount, killCount, damageCount, editCount}' \subseteq Nat
  BY CountTypes DEF ReadIInv, PruneIInv, IInv, TypeOK, counts
<1>2. IInv'
  BY <1>1
     DEF ReadIInv, PruneIInv, IInv, TypeOK, LocalsOK, SettledOK, ContentKnown,
         Knows, Settled, ManifestKnown, locals, history
<1>3. KnownOK' /\ SentOK'
  BY DEF ReadIInv, PruneIInv, KnownOK, Relied, SentOK, Settled, References,
         locals, history
<1>4. PruneTypeOK' /\ UnkeptOK' /\ DoomedOK' /\ LateOK'
  BY <1>2
     DEF ReadIInv, PruneIInv, PruneTypeOK, IInv, UnkeptOK, DoomedOK, LateOK, References,
         prune
<1>5. HereOK' /\ Present'
  BY DEF ReadIInv, HereOK, Present, References
<1>. QED BY <1>2, <1>3, <1>4, <1>5 DEF PruneIInv

\* The manifest a pull fetches is one.
LEMMA Fetched ==
    ASSUME ReadIInv, Decodes(object[ManifestKey])
    PROVE  object[ManifestKey].body \in Manifest
BY Bodies DEF ReadIInv, PruneIInv, IInv, TypeOK, Store, Object, Decodes

\* What an attempt leaves is contents.
LEMMA KeptTypes ==
    ASSUME ReadTypeOK, NEW r \in Reader
    PROVE  Kept(r) \in SUBSET Content
BY DEF ReadTypeOK, Kept

LEMMA EndAttemptTypes ==
    ASSUME ReadTypeOK, NEW r \in Reader, NEW next \in {"idle", "fetch"},
           NEW n \in 0..Attempts, NEW kept \in SUBSET Content,
           EndAttempt(r, next, n, kept), UNCHANGED <<object, adrift>>,
           dest' \in [Reader -> Manifest],
           outcome' \in [Reader -> {"none", "ok", "missing", "mismatch", "failed"}]
    PROVE  ReadTypeOK'
BY Bodies DEF ReadTypeOK, EndAttempt, Paths, NoFiles

LEMMA EndPullTypes ==
    ASSUME ReadTypeOK, NEW r \in Reader,
           NEW res \in {"ok", "missing", "mismatch", "failed"},
           NEW kept \in SUBSET Content,
           EndPull(r, res, kept), UNCHANGED <<object, adrift>>,
           dest' \in [Reader -> Manifest]
    PROVE  ReadTypeOK'
<1>1. outcome' \in [Reader -> {"none", "ok", "missing", "mismatch", "failed"}]
  BY DEF ReadTypeOK, EndPull
<1>2. 0 \in 0..Attempts
  BY AttemptAssumption
<1>. QED BY <1>1, <1>2, EndAttemptTypes DEF EndPull

LEMMA FetchSnapshotTypes ==
    ASSUME ReadIInv, NEW r \in Reader, FetchSnapshot(r)
    PROVE  ReadTypeOK'
<1>. DEFINE m == object[ManifestKey].body
<1>1. m \in Manifest
  BY Fetched DEF FetchSnapshot
<1>2. Lacking(r, m) \subseteq Paths(m) /\ Paths(m) \subseteq Path
  BY DEF Lacking, Paths
<1>3. TakenOver(r, m) \subseteq Content
  BY DEF TakenOver, ReadIInv, ReadTypeOK
<1>4. /\ at' = [at EXCEPT ![r] = "get"] /\ snap' = [snap EXCEPT ![r] = m]
      /\ todo' = [todo EXCEPT ![r] = Lacking(r, m)]
      /\ staged' = [staged EXCEPT ![r] = TakenOver(r, m)]
      /\ partial' = [partial EXCEPT ![r] = {}]
      /\ UNCHANGED <<attempt, dest, outcome, adrift, object>>
  BY DEF FetchSnapshot, pvars, vars
<1>. HIDE DEF m
<1>. QED BY <1>1, <1>2, <1>3, <1>4 DEF ReadIInv, ReadTypeOK

LEMMA GetMismatchTypes ==
    ASSUME ReadIInv, NEW r \in Reader, NEW p \in Path, GetMismatch(r, p)
    PROVE  ReadTypeOK'
<1>1. ReadTypeOK /\ Kept(r) \in SUBSET Content
  BY KeptTypes DEF ReadIInv
<1>2. UNCHANGED <<object, adrift, dest>> /\ dest' \in [Reader -> Manifest]
  BY <1>1 DEF GetMismatch, pvars, vars, ReadTypeOK
<1>3. CASE attempt[r] < Attempts
  <2>1. attempt[r] + 1 \in 0..Attempts
    BY <1>1, <1>3, AttemptAssumption DEF ReadTypeOK
  <2>2. EndAttempt(r, "fetch", attempt[r] + 1, Kept(r)) /\ UNCHANGED outcome
    BY <1>3 DEF GetMismatch
  <2>3. outcome' \in [Reader -> {"none", "ok", "missing", "mismatch", "failed"}]
    BY <1>1, <2>2 DEF ReadTypeOK
  <2>. QED BY <1>1, <1>2, <2>1, <2>2, <2>3, EndAttemptTypes
<1>4. CASE ~(attempt[r] < Attempts)
  BY <1>1, <1>2, <1>4, EndPullTypes DEF GetMismatch
<1>. QED BY <1>3, <1>4

LEMMA PullTypes ==
    ASSUME ReadIInv, NEW r \in Reader, BeginPull(r) \/ PullStep(r) \/ PullFails(r)
    PROVE  ReadTypeOK'
<1>1. ReadTypeOK /\ Kept(r) \in SUBSET Content /\ partial[r] \in SUBSET Content
  BY KeptTypes DEF ReadIInv, ReadTypeOK
<1>2. CASE BeginPull(r)
  <2>1. 1 \in 0..Attempts
    BY AttemptAssumption
  <2>. QED BY <1>1, <1>2, <2>1 DEF BeginPull, ReadTypeOK, pvars, vars
<1>3. CASE NoSnapshot(r)
  BY <1>1, <1>3, EndPullTypes DEF NoSnapshot, ReadTypeOK, pvars, vars
<1>4. CASE \E p \in Path : Get(r, p)
  <2>1. PICK p \in Path : Get(r, p)
    BY <1>4
  <2>2. snap[r][p].data \in Content
    BY <1>1, <2>1, Bodies DEF Get, ReadTypeOK
  <2>. QED BY <1>1, <2>1, <2>2 DEF Get, ReadTypeOK, pvars, vars
<1>5. CASE \E p \in Path : GetMissing(r, p)
  BY <1>1, <1>5, EndPullTypes DEF GetMissing, ReadTypeOK, pvars, vars
<1>6. CASE Install(r)
  <2>1. dest' \in [Reader -> Manifest]
    BY <1>1, <1>6 DEF Install, ReadTypeOK
  <2>. QED BY <1>1, <1>6, <2>1, EndPullTypes DEF Install, pvars, vars
<1>7. CASE PullFails(r)
  <2>1. PICK kept \in SUBSET Kept(r) : EndPull(r, "failed", kept)
    BY <1>7 DEF PullFails
  <2>. QED BY <1>1, <1>7, <2>1, EndPullTypes DEF PullFails, ReadTypeOK
<1>. QED
  BY <1>2, <1>3, <1>4, <1>5, <1>6, <1>7, FetchSnapshotTypes, GetMismatchTypes
     DEF PullStep

LEMMA PullsStep ==
    ASSUME ReadIInv, NEW r \in Reader, BeginPull(r) \/ PullStep(r) \/ PullFails(r)
    PROVE  ReadIInv'
<1>1. /\ UNCHANGED <<object, wire, root, locals, history, prune, rewritten,
                     lapsed, stray, sent, adrift>>
      /\ UNCHANGED counts \/ Fault
  BY DEF BeginPull, PullStep, PullFails, FetchSnapshot, NoSnapshot, Get,
         GetMismatch, GetMissing, Install, pvars, vars
<1>. QED BY <1>1, Unmoved, PullTypes DEF ReadIInv

-----------------------------------------------------------------------------
(* The theorems.                                                           *)

LEMMA ReadInitInv == ReadInit => ReadIInv
<1>1. SUFFICES ASSUME ReadInit PROVE ReadIInv
  OBVIOUS
<1>2. PruneIInv /\ HereOK
  BY <1>1, PruneInitInv DEF ReadInit, PruneInit, HereOK
<1>3. ReadTypeOK
  BY <1>1, Bodies, AttemptAssumption DEF ReadInit, ReadTypeOK, Paths, NoFiles
<1>4. Present
  BY <1>1, BucketAssumption
     DEF ReadInit, PruneInit, Init, Consistent, Present, References
<1>. QED BY <1>2, <1>3, <1>4 DEF ReadIInv

LEMMA ReadStepInv == ReadIInv /\ [ReadNext]_rvars => ReadIInv'
<1>1. SUFFICES ASSUME ReadIInv, [ReadNext]_rvars PROVE ReadIInv'
  OBVIOUS
<1>2. CASE ReadNext
  BY <1>1, <1>2, OthersStep, PullsStep DEF ReadNext
<1>3. CASE UNCHANGED rvars
  <2>1. PruneIInv' /\ HereOK' /\ Present'
    BY <1>1, <1>3, Unmoved DEF rvars, pvars, vars
  <2>2. ReadTypeOK'
    BY <1>1, <1>3 DEF ReadIInv, ReadTypeOK, rvars, pull, pvars, vars
  <2>. QED BY <2>1, <2>2 DEF ReadIInv
<1>. QED BY <1>1, <1>2, <1>3

\* ReadIInv holds of every behaviour of pulls, pushes and prunes.
THEOREM ReadInvariance == ReadSpec => []ReadIInv
BY ReadInitInv, ReadStepInv, PTL DEF ReadSpec

\* Every variable keeps its type, and no pull makes more than Attempts attempts.
THEOREM ReadTypes == ReadSpec => []ReadTypeOK
BY ReadInvariance, PTL DEF ReadIInv

\* Whatever pushes and prunes are under way, were killed or were given up: what
\* the published manifest lists is there.
THEOREM PublishedIsPresent == ReadSpec => []Present
BY ReadInvariance, PTL DEF ReadIInv

\* A pull that finds an object gone has a manifest that has been replaced.
THEOREM MissingIsStale == ReadSpec => MissingMeansStale
<1>. DEFINE Stale ==
       \A r \in Reader :
          outcome[r] # "missing" /\ outcome'[r] = "missing" =>
             \E p \in todo[r] :
                /\ object[p] = Nil
                /\ \/ p \in adrift
                   \/ ~Decodes(object[ManifestKey])
                   \/ object[ManifestKey].body # snap[r]
<1>1. ASSUME ReadIInv, [ReadNext]_rvars, NEW r \in Reader,
             outcome[r] # "missing", outcome'[r] = "missing"
      PROVE  \E p \in Path : GetMissing(r, p)
  <2>1. outcome \in [Reader -> {"none", "ok", "missing", "mismatch", "failed"}]
    BY <1>1 DEF ReadIInv, ReadTypeOK
  <2>2. ASSUME NEW s \in Reader,
               BeginPull(s) \/ FetchSnapshot(s) \/ NoSnapshot(s) \/ Install(s)
        PROVE  outcome'[r] # "missing"
    BY <1>1, <2>1, <2>2 DEF BeginPull, FetchSnapshot, NoSnapshot, Install, EndPull
  <2>3. ASSUME NEW s \in Reader, PullFails(s)
        PROVE  outcome'[r] # "missing"
    BY <1>1, <2>1, <2>3 DEF PullFails, EndPull
  <2>4. ASSUME NEW s \in Reader, NEW p \in Path, Get(s, p) \/ GetMismatch(s, p)
        PROVE  outcome'[r] # "missing"
    BY <1>1, <2>1, <2>4 DEF Get, GetMismatch, EndPull
  <2>5. ASSUME NEW s \in Reader, NEW p \in Path, GetMissing(s, p)
        PROVE  s = r
    BY <1>1, <2>1, <2>5 DEF GetMissing, EndPull
  <2>6. ~Others /\ ~UNCHANGED rvars
    BY <1>1 DEF Others, Beside, pull, rvars
  <2>. QED BY <1>1, <2>2, <2>3, <2>4, <2>5, <2>6 DEF ReadNext, PullStep
<1>2. ASSUME ReadIInv, NEW r \in Reader, NEW p \in Path, GetMissing(r, p)
      PROVE  /\ p \in todo[r] /\ object[p] = Nil
             /\ \/ p \in adrift
                \/ ~Decodes(object[ManifestKey])
                \/ object[ManifestKey].body # snap[r]
  BY <1>2 DEF GetMissing, ReadIInv, ReadTypeOK, Present, References
<1>3. ReadIInv /\ [ReadNext]_rvars => [Stale]_rvars
  BY <1>1, <1>2
<1>. QED BY <1>3, ReadInvariance, PTL DEF ReadSpec, MissingMeansStale
=============================================================================
