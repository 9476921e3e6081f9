---------------------------- MODULE PruneProofs -----------------------------
(***************************************************************************)
(* Proofs about Prune beside any number of pushes: what prune deletes is   *)
(* old, and referenced by nobody who knows what there is to reference.     *)
(***************************************************************************)
EXTENDS PruneInv, PushProofs

-----------------------------------------------------------------------------
(* What one step of Push does, to the bucket and to one push.              *)

\* Push q itself takes the step.
Own(q) ==
    \/ \E h \in Hows : Start(q, h)
    \/ Step(q) \/ Kill(q)

\* A push that does not take the step hears of a manifest others put.
Aware(q) ==
    /\ ManifestKey \in touched[q] => ManifestKey \in touched'[q]
    /\ pc[q] # "idle" /\ object'[ManifestKey] # object[ManifestKey]
       => ManifestKey \in touched'[q]

Old(k) == object[k] # Nil /\ ~object[k].fresh

Relying(q) == pc[q] \in {"head", "upload", "manifest"}

\* What others write, a push hears of.
LEMMA HeardOf ==
    ASSUME TypeOK, NEW q \in Pusher, NEW k, NEW o,
           object' = [object EXCEPT ![k] = o], WrittenBy({}, k),
           UNCHANGED locals
    PROVE  Still(q) /\ Aware(q)
<1>1. Still(q)
  BY DEF Still, locals
<1>2. pc[q] # "idle" => touched'[q] = touched[q] \cup {k}
  BY DEF TypeOK, WrittenBy, Concerned
<1>3. touched[q] \subseteq touched'[q]
  BY DEF TypeOK, WrittenBy
<1>4. k # ManifestKey => object'[ManifestKey] = object[ManifestKey]
  BY DEF TypeOK
<1>. QED BY <1>1, <1>2, <1>3, <1>4 DEF Aware

LEMMA Movement ==
    ASSUME IInv, [Next]_vars, NEW q \in Pusher
    PROVE  Own(q) \/ (Still(q) /\ Aware(q))
<1>1. ASSUME NEW r \in Pusher \ {q}, Own(r)
      PROVE  Still(q)
  BY <1>1
     DEF IInv, TypeOK, Still, Own, Start, Step, Diff, Upload, Publish, Fetch,
         FetchFails, Head, HeadForbidden, HeadFails, HeadsDone, PutFile,
         PutRefused, PutUnanswered, PutRepeated, UploadsDone, UploadsFail,
         PutManifest, ManifestUnanswered, ManifestRepeated, Kill, locals,
         EndWithError, End
<1>2. ASSUME NEW r \in Pusher \ {q}, Own(r)
      PROVE  Aware(q)
  <2>1. CASE \E p \in Path : PutFile(r, p)
    BY <2>1, KeyAssumption, Bodies
       DEF IInv, TypeOK, Aware, PutFile, PutObject, WrittenBy
  <2>2. CASE PutManifest(r)
    BY <2>2, Bodies DEF IInv, TypeOK, Aware, PutManifest, PutObject, WrittenBy,
                        Concerned
  <2>3. CASE object' = object /\ touched'[q] = touched[q]
    BY <2>3 DEF Aware
  <2>4. CASE (\E h \in Hows : Start(r, h)) \/ Diff(r)
    BY <2>3, <2>4
       DEF IInv, TypeOK, Start, Diff, Fetch, FetchFails, Head, HeadForbidden,
           HeadFails, HeadsDone, history, EndWithError, Forget
  <2>5. CASE Upload(r)
    BY <2>1, <2>3, <2>5
       DEF IInv, TypeOK, Upload, PutRefused, PutUnanswered, PutRepeated,
           UploadsDone, UploadsFail, history, EndWithError, Forget
  <2>6. CASE Publish(r) \/ Kill(r)
    BY <2>2, <2>3, <2>6
       DEF IInv, TypeOK, Publish, ManifestUnanswered, ManifestRepeated, Kill,
           history, EndWithError, Forget
  <2>. QED BY <1>2, <2>4, <2>5, <2>6 DEF Own, Step
<1>3. CASE \E r \in Pusher, t \in Trees : Edit(r, t)
  BY <1>3 DEF Still, Aware, Edit, locals, history
<1>4. CASE \E w \in wire : Land(w)
  BY <1>4, HeardOf DEF Land, IInv
<1>5. CASE \E k \in Exposed : Damage(k)
  BY <1>5, HeardOf DEF Damage, IInv
<1>6. CASE UNCHANGED vars
  BY <1>6 DEF Still, Aware, vars, locals, history
<1>. QED
  BY <1>1, <1>2, <1>3, <1>4, <1>5, <1>6 DEF Next, Environment, Own

\* No step of Push makes an object older.
LEMMA StaysYoung ==
    ASSUME IInv, [Next]_vars, NEW k \in Key, Old(k)'
    PROVE  Old(k)
<1>1. CASE \E q \in Pusher, p \in Path : PutFile(q, p)
  BY <1>1, Bodies DEF IInv, TypeOK, PutFile, PutObject, Stored, Old
<1>2. CASE \E q \in Pusher : PutManifest(q)
  BY <1>2, Bodies DEF IInv, TypeOK, PutManifest, PutObject, Stored, Old
<1>3. CASE \E w \in wire : Land(w)
  BY <1>3, Bodies DEF IInv, TypeOK, Land, Stored, Old
<1>4. CASE \E j \in Exposed : Damage(j)
  <2>1. PICK j \in Exposed : Damage(j)
    BY <1>4
  <2>2. PICK o \in {Nil, [body |-> Torn, sum |-> TRUE, fresh |-> TRUE]} \cup
               (IF object[j] = Nil THEN {} ELSE {[object[j] EXCEPT !.sum = FALSE]}) :
           object' = [object EXCEPT ![j] = o]
    BY <2>1 DEF Damage
  <2>3. j \in Key /\ object[j] \in Store(j)
    BY ExposedAssumption DEF IInv, TypeOK
  <2>4. o = Nil \/ o.fresh \/ (object[j] # Nil /\ o.fresh = object[j].fresh)
    BY <2>2, <2>3 DEF Store, Object
  <2>. QED BY <2>2, <2>3, <2>4 DEF IInv, TypeOK, Old
<1>5. CASE object' = object
  BY <1>5 DEF Old
<1>. QED
  BY <1>1, <1>2, <1>3, <1>4, <1>5
     DEF Next, Step, Diff, Upload, Publish, Environment, Start, Fetch,
         FetchFails, Head, HeadForbidden, HeadFails, HeadsDone, PutRefused,
         PutUnanswered, PutRepeated, UploadsDone, UploadsFail,
         ManifestUnanswered, ManifestRepeated, Kill, Edit, vars

-----------------------------------------------------------------------------
(* What a push relies on.                                                  *)

\* An old object that the manifest does not list is nothing to a push that
\* knows the manifest.
LEMMA NotRelied ==
    ASSUME IInv, SentOK, NEW q \in Pusher, Relied(q), Relying(q), ~Blind(q),
           NEW k \in Path, Old(k), ~References(k)
    PROVE  k \notin Settled(q)
<1>1. k \notin sent[q]
  BY DEF SentOK, Old
<1>2. CASE how[q] = "full"
  BY <1>1, <1>2 DEF Relied, Relying
<1>3. CASE how[q] = "diff"
  BY <1>1, <1>3 DEF Relied, Relying, Blind
<1>. QED BY <1>2, <1>3, HowAssumption DEF Relied, Relying, Blind

\* The push that takes the step goes on to rely on what it may.
LEMMA OwnRelied ==
    ASSUME IInv, IInv', NEW q \in Pusher, Relied(q), Own(q),
           sent'[q] = SentNow(q)
    PROVE  Relied(q)'
<1>1. CASE \E h \in Hows : Start(q, h)
  <2>1. PICK h \in Hows : Start(q, h)
    BY <1>1
  <2>2. /\ how'[q] = h /\ heads'[q] = {} /\ sent'[q] = {}
        /\ pc'[q] = CASE h = "adopt" -> "manifest" [] h = "full" -> "upload"
                      [] OTHER -> "fetch"
        /\ upload'[q] = IF h = "full" THEN Paths(want'[q]) ELSE {}
    BY <2>1, HowAssumption
       DEF IInv, TypeOK, LocalsOK, Start, Relied, SentNow
  <2>. QED BY <2>2, HowAssumption DEF Relied, Settled
<1>2. CASE Fetch(q)
  <2>1. /\ pc'[q] = "head" /\ how'[q] = how[q] /\ how[q] = "diff"
        /\ sent'[q] = {} /\ Settled(q)' = {} /\ how[q] \in Hows
    BY <1>2 DEF IInv, TypeOK, Fetch, NewOrChanged, Settled, Relied, SentNow
  <2>2. \A p \in heads'[q] : References(p)'
    BY <1>2, Bodies
       DEF IInv, TypeOK, Fetch, Candidates, References, Decodes, NoFiles, Paths
  <2>. QED BY <2>1, <2>2 DEF Relied
<1>3. CASE EndWithError(q)
  BY <1>3, ErrorTypes DEF IInv, Relied, SentNow, Settled
<1>4. CASE (\E p \in Path : Head(q, p) \/ HeadForbidden(q, p))
  <2>1. /\ pc[q] = "head" /\ pc'[q] = "head" /\ how' = how /\ sent'[q] = {}
        /\ sent[q] = {} /\ object' = object
        /\ ManifestKey \in touched[q] => ManifestKey \in touched'[q]
        /\ (Settled(q) \cup heads[q])' \subseteq Settled(q) \cup heads[q]
    BY <1>4, Bodies
       DEF IInv, TypeOK, Head, HeadForbidden, Relied, SentNow, Settled
  <2>. QED BY <2>1 DEF Relied, References
<1>5. CASE HeadsDone(q) \/ UploadsDone(q)
  <2>1. CASE pc'[q] = "idle"
    BY <1>5, <2>1 DEF Relied, SentNow
  <2>2. CASE pc'[q] # "idle"
    BY <1>5, <2>2
       DEF IInv, TypeOK, LocalsOK, HeadsDone, UploadsDone, End, Relied, SentNow,
           Settled, References, history
  <2>. QED BY <2>1, <2>2
<1>6. CASE \E p \in Path : PutFile(q, p)
  <2>1. PICK p \in Path : PutFile(q, p)
    BY <1>6
  <2>2. /\ pc[q] = "upload" /\ pc'[q] = "upload" /\ how' = how /\ heads' = heads
        /\ sent'[q] = sent[q] \cup {p}
        /\ Settled(q)' = Settled(q) \cup {p}
        /\ object'[ManifestKey] = object[ManifestKey]
        /\ ManifestKey \in touched[q] => ManifestKey \in touched'[q]
    BY <2>1, Bodies
       DEF IInv, TypeOK, PutFile, PutObject, WrittenBy, SentNow, Settled
  <2>. QED BY <2>2 DEF Relied, References
<1>7. CASE \/ \E p \in Path :
                 PutRefused(q, p) \/ PutUnanswered(q, p) \/ PutRepeated(q, p)
           \/ ManifestRepeated(q)
  BY <1>7
     DEF PutRefused, PutUnanswered, PutRepeated, ManifestRepeated, locals,
         history, Relied, SentNow, Settled, References
<1>8. CASE PutManifest(q)
  <2>1. pc'[q] = "idle" /\ sent'[q] = {}
    BY <1>8 DEF IInv, TypeOK, PutManifest, End, SentNow
  <2>. QED BY <2>1 DEF Relied
<1>. QED
  BY <1>1, <1>2, <1>3, <1>4, <1>5, <1>6, <1>7, <1>8
     DEF Own, Step, Diff, Upload, Publish, FetchFails, HeadFails, UploadsFail,
         ManifestUnanswered, Kill

\* The others rely on what they relied on.
LEMMA StillRelied ==
    ASSUME IInv, NEW q \in Pusher, Relied(q), Still(q), Aware(q),
           sent'[q] = SentNow(q) \/ sent' = sent
    PROVE  Relied(q)'
<1>1. sent'[q] = sent[q] /\ Settled(q)' = Settled(q)
  BY DEF Relied, Still, SentNow, Settled
<1>2. ASSUME pc[q] # "idle", ManifestKey \notin touched'[q]
      PROVE  /\ ManifestKey \notin touched[q]
             /\ \A p \in Path : References(p)' <=> References(p)
  BY <1>2 DEF Aware, References
<1>3. Settled(q) \cup heads[q] \subseteq Path
  BY Bodies DEF IInv, TypeOK, Settled
<1>. QED BY <1>1, <1>2, <1>3 DEF Relied, Still

-----------------------------------------------------------------------------
(* A step of Push beside a prune.                                          *)

LEMMA PushTypesStep ==
    ASSUME PruneIInv, PushStep
    PROVE  IInv' /\ PruneTypeOK'
<1>1. IInv'
  BY StepInv DEF PruneIInv, PushStep
<1>2. ASSUME NEW q \in Pusher
      PROVE  SentNow(q) \in SUBSET Path
  BY <1>1 DEF PruneIInv, PruneTypeOK, IInv, TypeOK, SentNow
<1>3. sent' \in [Pusher -> SUBSET Path]
  BY <1>2 DEF PushStep, Watched
<1>4. {rewritten', lapsed'} \subseteq SUBSET Key /\ stray' \in BOOLEAN
  BY DEF PruneIInv, PruneTypeOK, PushStep, Watched
<1>. QED BY <1>1, <1>3, <1>4 DEF PruneIInv, PruneTypeOK, IInv, PushStep, Watched, prune

LEMMA PushRelied ==
    ASSUME PruneIInv, PushStep
    PROVE  KnownOK'
<1>1. SUFFICES ASSUME NEW q \in Pusher PROVE Relied(q)'
  BY DEF KnownOK
<1>2. sent'[q] = SentNow(q) /\ IInv /\ IInv' /\ Relied(q) /\ [Next]_vars
  BY PushTypesStep DEF PushStep, Watched, PruneIInv, KnownOK
<1>. QED BY <1>2, Movement, OwnRelied, StillRelied

\* What a push has just uploaded is there, and young.
LEMMA Uploaded ==
    ASSUME PruneIInv, PushStep, NEW q \in Pusher, NEW p \in sent'[q],
           p \notin sent[q]
    PROVE  object'[p] # Nil /\ object'[p].fresh
<1>1. p \in SentNow(q) /\ p \in Key /\ IInv /\ [Next]_vars
  BY PushTypesStep, Bodies DEF PushStep, Watched, PruneIInv, PruneTypeOK
<1>2. p \in upload[q] \ upload'[q] /\ pc'[q] \in {"upload", "manifest"}
      /\ pc[q] = "upload"
  BY <1>1 DEF SentNow
<1>3. CASE Own(q)
  <2>1. ~EndWithError(q)
    BY <1>1, <1>2, ErrorTypes DEF IInv
  <2>2. PICK u \in Path : PutFile(q, u)
    BY <1>2, <1>3, <2>1
       DEF Own, Step, Diff, Upload, Publish, Start, Fetch, FetchFails, Head,
           HeadForbidden, HeadFails, HeadsDone, PutRefused, PutUnanswered,
           PutRepeated, UploadsDone, UploadsFail, PutManifest,
           ManifestUnanswered, ManifestRepeated, Kill, locals, PruneIInv,
           IInv, TypeOK, End
  <2>3. p = u
    BY <1>1, <1>2, <2>2 DEF PutFile, IInv, TypeOK
  <2>4. object'[p] = Stored(want[q][p].data)
    BY <1>1, <2>2, <2>3 DEF PutFile, PutObject, IInv, TypeOK
  <2>5. want[q][p].data \in Body(p) /\ p \in Key
    BY <1>1, <1>2, Bodies DEF IInv, TypeOK, LocalsOK
  <2>. QED BY <2>4, <2>5, Bodies DEF Stored
<1>4. CASE Still(q)
  BY <1>2, <1>4 DEF Still
<1>. QED BY <1>1, <1>3, <1>4, Movement

\* A push uploads young objects.
LEMMA PushSent ==
    ASSUME PruneIInv, PushStep
    PROVE  SentOK'
<1>1. SUFFICES ASSUME NEW q \in Pusher, NEW p \in sent'[q]
               PROVE  ~Old(p)'
  BY PushTypesStep DEF SentOK, Old
<1>2. p \in Key /\ IInv /\ [Next]_vars
  BY PushTypesStep, Bodies DEF PushStep, PruneIInv, PruneTypeOK
<1>3. CASE p \in sent[q]
  BY <1>2, <1>3, StaysYoung DEF PruneIInv, SentOK, Old
<1>4. CASE p \notin sent[q]
  BY <1>4, Uploaded DEF Old
<1>. QED BY <1>3, <1>4

\* A manifest that lists an old object which was not listed is put by nobody but
\* a blind push.
LEMMA StaysUnlisted ==
    ASSUME PruneIInv, PushStep, ~PublishesBlindly,
           NEW k \in Path, Old(k), ~References(k)
    PROVE  ~References(k)'
<1>1. IInv /\ [Next]_vars /\ k \in Key
  BY Bodies DEF PruneIInv, PushStep
<1>2. CASE \E q \in Pusher : PutManifest(q)
  <2>1. PICK q \in Pusher : PutManifest(q)
    BY <1>2
  <2>2. Relying(q) /\ ~Blind(q) /\ Relied(q) /\ SentOK
    BY <2>1 DEF PublishesBlindly, PutManifest, Relying, PruneIInv, KnownOK
  <2>3. k \notin Settled(q)
    BY <1>1, <2>2, NotRelied
  <2>4. Settled(q) = Paths(want[q])
    BY <1>1, <2>1 DEF IInv, LocalsOK, PutManifest, Settled
  <2>5. object'[ManifestKey].body = want[q]
    BY <1>1, <2>1, Bodies DEF IInv, TypeOK, PutManifest, PutObject, Stored
  <2>. QED BY <2>3, <2>4, <2>5 DEF References
<1>3. CASE \E w \in wire : Land(w)
  <2>1. PICK w \in wire : Land(w)
    BY <1>3
  <2>2. w.key # ManifestKey
    BY <2>1 DEF PublishesBlindly
  <2>. QED BY <1>1, <2>1, <2>2 DEF Land, IInv, TypeOK, References
<1>4. CASE \E q \in Pusher, p \in Path : PutFile(q, p)
  BY <1>1, <1>4, Bodies DEF PutFile, PutObject, IInv, TypeOK, References
<1>5. CASE \E j \in Exposed : Damage(j)
  <2>1. PICK j \in Exposed : Damage(j)
    BY <1>5
  <2>2. PICK o \in {Nil, [body |-> Torn, sum |-> TRUE, fresh |-> TRUE]} \cup
               (IF object[j] = Nil THEN {} ELSE {[object[j] EXCEPT !.sum = FALSE]}) :
           object' = [object EXCEPT ![j] = o]
    BY <2>1 DEF Damage
  <2>3. j \in Key /\ object[j] \in Store(j)
    BY <1>1, ExposedAssumption DEF IInv, TypeOK
  <2>4. o = Nil \/ o.body = Torn \/ (object[j] # Nil /\ o.body = object[j].body)
    BY <2>2, <2>3 DEF Store, Object
  <2>. QED
    BY <1>1, <2>2, <2>3, <2>4 DEF IInv, TypeOK, References, Decodes
<1>6. CASE object' = object
  BY <1>6 DEF References
<1>. QED
  BY <1>1, <1>2, <1>3, <1>4, <1>5, <1>6
     DEF Next, Step, Diff, Upload, Publish, Environment, Start, Fetch,
         FetchFails, Head, HeadForbidden, HeadFails, HeadsDone, PutRefused,
         PutUnanswered, PutRepeated, UploadsDone, UploadsFail,
         ManifestUnanswered, ManifestRepeated, Kill, Edit, vars

LEMMA PushUnkept ==
    ASSUME PruneIInv, PushStep
    PROVE  UnkeptOK'
<1>1. SUFFICES ASSUME stage # "idle", ~stray, ~PublishesBlindly,
                      NEW k \in Path, k \notin keep, Old(k)'
               PROVE  ~References(k)'
  BY DEF PushStep, Watched, prune, UnkeptOK, Old
<1>2. IInv /\ [Next]_vars /\ k \in Key
  BY Bodies DEF PruneIInv, PushStep
<1>3. Old(k) /\ ~References(k)
  BY <1>1, <1>2, StaysYoung DEF PruneIInv, UnkeptOK, Old
<1>. QED BY <1>1, <1>3, StaysUnlisted

\* What is to be deleted late and was not written stays what it was.
LEMMA PushLate ==
    ASSUME PruneIInv, PushStep
    PROVE  LateOK'
<1>1. SUFFICES ASSUME NEW k \in late, k \notin lapsed, ~PublishesBlindly,
                      object'[k] = object[k]
               PROVE  Old(k)' /\ ~References(k)'
  BY DEF PushStep, Watched, prune, LateOK, Old
<1>2. k \in Path
  BY Bodies DEF PruneIInv, PruneTypeOK, Key
<1>3. Old(k) /\ ~References(k)
  BY <1>1 DEF PruneIInv, LateOK, Old
<1>. QED BY <1>1, <1>2, <1>3, StaysUnlisted DEF Old

LEMMA PushBeside ==
    ASSUME PruneIInv, PushStep
    PROVE  PruneIInv'
<1>1. DoomedOK'
  BY DEF PruneIInv, PushStep, Watched, DoomedOK, prune
<1>. QED
  BY <1>1, PushTypesStep, PushRelied, PushSent, PushUnkept, PushLate
     DEF PruneIInv

-----------------------------------------------------------------------------
(* The steps of a prune, and time.                                         *)

\* A step that leaves the bucket and the pushes as they are.
LEMMA Apart ==
    ASSUME PruneIInv, UNCHANGED <<vars, late, lapsed, sent>>
    PROVE  /\ IInv' /\ KnownOK' /\ SentOK' /\ LateOK'
           /\ sent' \in [Pusher -> SUBSET Path]
           /\ \A k \in Path : Old(k)' = Old(k) /\ References(k)' = References(k)
<1>1. IInv'
  BY StepInv DEF PruneIInv
<1>2. KnownOK'
  BY DEF PruneIInv, KnownOK, Relied, Settled, References, vars, locals, history
<1>3. SentOK' /\ sent' \in [Pusher -> SUBSET Path]
  BY DEF PruneIInv, PruneTypeOK, SentOK, vars
<1>4. \A k \in Path : Old(k)' = Old(k) /\ References(k)' = References(k)
  BY DEF Old, References, vars
<1>5. LateOK'
  BY DEF PruneIInv, LateOK, References, vars
<1>. QED BY <1>1, <1>2, <1>3, <1>4, <1>5

\* What the manifest lists is kept, and what it does not list no push that
\* knows it relies on.
LEMMA FetchManifestStep ==
    ASSUME PruneIInv, FetchManifest
    PROVE  PruneIInv'
<1>1. /\ IInv' /\ KnownOK' /\ SentOK' /\ LateOK'
      /\ sent' \in [Pusher -> SUBSET Path]
      /\ \A k \in Path : Old(k)' = Old(k) /\ References(k)' = References(k)
  BY Apart DEF FetchManifest
<1>2. /\ keep' = {ManifestKey} \cup Paths(object[ManifestKey].body)
      /\ stage' = "list" /\ unlisted' = Key
      /\ doomed' = {} /\ rewritten' = {} /\ stray' = FALSE
      /\ late' = late /\ lapsed' = lapsed
  BY DEF FetchManifest, Begin
<1>3. keep' \subseteq Key
  BY <1>2, Bodies DEF Paths
<1>4. PruneTypeOK'
  BY <1>1, <1>2, <1>3 DEF PruneIInv, PruneTypeOK, IInv
<1>5. UnkeptOK'
  BY <1>1, <1>2 DEF UnkeptOK, Old, References
<1>6. DoomedOK'
  BY <1>2 DEF DoomedOK
<1>. QED BY <1>1, <1>4, <1>5, <1>6 DEF PruneIInv

LEMMA ListStep ==
    ASSUME PruneIInv, NEW k \in Key, List(k)
    PROVE  PruneIInv'
<1>1. /\ IInv' /\ KnownOK' /\ SentOK' /\ LateOK'
      /\ sent' \in [Pusher -> SUBSET Path]
      /\ \A p \in Path : Old(p)' = Old(p) /\ References(p)' = References(p)
  BY Apart DEF List
<1>2. k \in doomed' => k \in doomed \/ (Old(k) /\ k \notin keep)
  BY DEF List, Doom, Old
<1>3. ManifestKey \in keep
  BY DEF PruneIInv, DoomedOK, List
<1>4. PruneTypeOK'
  BY <1>1, <1>2, <1>3 DEF List, PruneIInv, PruneTypeOK, IInv
<1>5. UnkeptOK'
  BY <1>1 DEF List, PruneIInv, UnkeptOK, Old
<1>6. DoomedOK'
  BY <1>2 DEF List, PruneIInv, DoomedOK, Old, vars
<1>. QED BY <1>1, <1>4, <1>5, <1>6 DEF PruneIInv

\* The deletes begin, or there is nothing more to be done.
LEMMA TurnStep ==
    ASSUME PruneIInv, Listed \/ Deleted
    PROVE  PruneIInv'
<1>1. /\ IInv' /\ KnownOK' /\ SentOK' /\ LateOK'
      /\ sent' \in [Pusher -> SUBSET Path]
      /\ \A p \in Path : Old(p)' = Old(p) /\ References(p)' = References(p)
  BY Apart DEF Listed, Deleted
<1>2. \/ /\ stage = "list" /\ stage' = "delete"
         /\ UNCHANGED <<object, keep, unlisted, doomed, rewritten, stray>>
      \/ EndPrune
  BY DEF Listed, Deleted, vars
<1>3. late' = late /\ lapsed' = lapsed
  BY DEF Listed, Deleted
<1>4. PruneTypeOK'
  BY <1>1, <1>2, <1>3 DEF EndPrune, PruneIInv, PruneTypeOK, IInv
<1>5. UnkeptOK'
  BY <1>1, <1>2 DEF EndPrune, PruneIInv, UnkeptOK, Old
<1>6. DoomedOK'
  BY <1>2 DEF EndPrune, PruneIInv, DoomedOK
<1>. QED BY <1>1, <1>4, <1>5, <1>6 DEF PruneIInv

\* What has been listed and not been written, or published blindly, is not to
\* be kept.
LEMMA ListedIsOld ==
    ASSUME PruneIInv, NEW k \in doomed, k \notin rewritten, ~stray
    PROVE  k \in Path /\ Old(k) /\ ~References(k)
<1>1. k \in Path
  BY Bodies DEF PruneIInv, PruneTypeOK, Key
<1>2. Old(k) /\ k \notin keep /\ stage # "idle"
  BY DEF PruneIInv, DoomedOK, Old
<1>. QED BY <1>1, <1>2 DEF PruneIInv, UnkeptOK, Old

\* The deletes that are left on their way are of such keys.
LEMMA LeaveStep ==
    ASSUME PruneIInv, NEW Keys \in SUBSET doomed, Leave(Keys), UNCHANGED object
    PROVE  /\ LateOK' /\ {late', lapsed'} \subseteq SUBSET Key
           /\ ManifestKey \notin late'
<1>1. ASSUME NEW k \in late', k \notin lapsed'
      PROVE  Old(k) /\ ~References(k)
  <2>1. CASE k \in Keys
    BY <1>1, <2>1, ListedIsOld DEF Leave
  <2>2. CASE k \notin Keys
    BY <1>1, <2>2 DEF Leave, PruneIInv, LateOK, Old
  <2>. QED BY <2>1, <2>2
<1>2. LateOK'
  BY <1>1 DEF LateOK, Old, References
<1>. QED BY <1>2 DEF Leave, PruneIInv, PruneTypeOK

\* A failure only leaves keys where they are, or their deletes on the way.
LEMMA StopStep ==
    ASSUME PruneIInv,
           PruneStops \/ \E k \in Key : DeleteFails(k) \/ DeleteRepeated(k)
    PROVE  PruneIInv'
<1>1. UNCHANGED <<object, wire, root, locals, history, sent>> /\ Fault
  BY DEF PruneStops, DeleteFails, DeleteRepeated
<1>2. {faultCount, killCount, damageCount, editCount}' \subseteq Nat
  BY <1>1, CountTypes DEF PruneIInv, IInv
<1>3. IInv'
  BY <1>1, <1>2
     DEF PruneIInv, IInv, TypeOK, LocalsOK, SettledOK, ContentKnown, Knows,
         Settled, ManifestKnown, locals, history
<1>4. KnownOK' /\ SentOK'
  BY <1>1 DEF PruneIInv, KnownOK, Relied, SentOK, Settled, References, locals,
              history
<1>5. \/ /\ doomed' \subseteq doomed
         /\ UNCHANGED <<object, stage, keep, unlisted, rewritten, stray>>
      \/ EndPrune
  BY DEF PruneStops, DeleteFails, DeleteRepeated
<1>6. \/ late' = late /\ lapsed' = lapsed
      \/ \E Keys \in SUBSET doomed : Leave(Keys)
  BY DEF PruneStops, DeleteFails, DeleteRepeated
<1>7. /\ LateOK' /\ {late', lapsed'} \subseteq SUBSET Key
      /\ ManifestKey \notin late'
  <2>1. CASE late' = late /\ lapsed' = lapsed
    BY <1>1, <2>1 DEF PruneIInv, PruneTypeOK, LateOK, References
  <2>. QED BY <1>1, <1>6, <2>1, LeaveStep
<1>8. PruneTypeOK'
  BY <1>1, <1>3, <1>5, <1>7 DEF EndPrune, PruneIInv, PruneTypeOK, IInv
<1>9. UnkeptOK'
  BY <1>1, <1>5 DEF EndPrune, PruneIInv, UnkeptOK, References
<1>10. DoomedOK'
  BY <1>5 DEF EndPrune, PruneIInv, DoomedOK
<1>. QED BY <1>3, <1>4, <1>7, <1>8, <1>9, <1>10 DEF PruneIInv

\* A delete is a write by others, and never of the manifest.
LEMMA DeleteStep ==
    ASSUME PruneIInv, NEW k \in Key, Delete(k) \/ LateDelete(k)
    PROVE  PruneIInv'
<1>1. /\ object' = [object EXCEPT ![k] = Nil] /\ WrittenBy({}, k)
      /\ UNCHANGED <<wire, root, locals, counts, sent>>
      /\ UNCHANGED <<stage, keep, unlisted, stray>>
      /\ k # ManifestKey
      /\ doomed' \subseteq doomed /\ late' \subseteq late
      /\ rewritten \subseteq rewritten' /\ rewritten' \subseteq rewritten \cup {k}
      /\ lapsed' \subseteq lapsed \cup {k} /\ lapsed \subseteq lapsed' \cup {k}
      /\ k \in doomed' => k \in rewritten'
      /\ k \in late' => k \in lapsed'
  BY DEF Delete, LateDelete, Remove, PruneIInv, PruneTypeOK
<1>2. IInv'
  <2>1. {faultCount, killCount, damageCount, editCount}' \subseteq Nat
    BY <1>1 DEF counts, PruneIInv, IInv, TypeOK
  <2>2. Nil \in Store(k)
    BY DEF Store
  <2>. QED BY <1>1, <2>1, <2>2, OutsideStep DEF PruneIInv
<1>3. KnownOK'
  <2>1. ASSUME NEW q \in Pusher PROVE Relied(q)'
    BY <1>1, HeardOf, StillRelied DEF PruneIInv, KnownOK, IInv
  <2>. QED BY <2>1 DEF KnownOK
<1>4. \A p \in Key : (Old(p)' => Old(p)) /\ (p # k => object'[p] = object[p])
  BY <1>1 DEF Old, PruneIInv, IInv, TypeOK
<1>5. \A p \in Path : References(p)' = References(p)
  BY <1>1, <1>4, Bodies DEF References
<1>6. SentOK'
  BY <1>1, <1>4, Bodies DEF PruneIInv, PruneTypeOK, SentOK, Old
<1>7. PruneTypeOK'
  BY <1>1, <1>2 DEF PruneIInv, PruneTypeOK, IInv
<1>8. UnkeptOK'
  BY <1>1, <1>4, <1>5, Bodies DEF PruneIInv, UnkeptOK, Old
<1>9. DoomedOK'
  BY <1>1, <1>4 DEF PruneIInv, PruneTypeOK, DoomedOK
<1>10. LateOK'
  <2>1. late \subseteq Path
    BY Bodies DEF PruneIInv, PruneTypeOK, Key
  <2>. QED BY <1>1, <1>4, <1>5, <2>1, Bodies DEF PruneIInv, LateOK
<1>. QED BY <1>2, <1>3, <1>6, <1>7, <1>8, <1>9, <1>10 DEF PruneIInv

\* What nobody uploads now may grow old between prunes.
LEMMA AgeStep ==
    ASSUME PruneIInv, NEW k \in Key, Age(k)
    PROVE  PruneIInv'
<1>1. /\ object' = [object EXCEPT ![k].fresh = FALSE] /\ object[k] # Nil
      /\ UNCHANGED <<wire, root, locals, history, counts, sent>>
      /\ UNCHANGED <<stage, keep, unlisted, doomed, late, rewritten, lapsed, stray>>
      /\ stage = "idle" /\ \A q \in Pusher : k \notin sent[q]
  BY DEF Age, prune
<1>2. object[k] \in Object(k) /\ DOMAIN object = Key
  BY <1>1 DEF PruneIInv, IInv, TypeOK, Store
<1>3. /\ object'[k] \in Object(k) /\ object'[k].body = object[k].body
      /\ object'[k].sum = object[k].sum
      /\ DOMAIN object' = Key /\ \A p \in Key \ {k} : object'[p] = object[p]
  BY <1>1, <1>2 DEF Object
<1>4. object'[k] # Nil
  BY <1>3, BodyAssumption
<1>5. \A p \in Key : /\ object'[p] \in Store(p)
                     /\ \A b : Verifies(object'[p], b) <=> Verifies(object[p], b)
                     /\ Decodes(object'[p]) <=> Decodes(object[p])
                     /\ object[p] # Nil => object'[p].body = object[p].body
  BY <1>1, <1>3, <1>4 DEF PruneIInv, IInv, TypeOK, Store, Verifies, Decodes
<1>6. IInv'
  <2>1. TypeOK' /\ LocalsOK'
    BY <1>1, <1>3, <1>5
       DEF PruneIInv, IInv, TypeOK, LocalsOK, locals, history, counts
  <2>2. ASSUME NEW q \in Pusher PROVE ContentKnown(q)'
    <3>1. Settled(q) \subseteq Key /\ Settled(q)' = Settled(q)
      BY <1>1, Bodies DEF PruneIInv, IInv, TypeOK, Settled, locals
    <3>2. ContentKnown(q)
      BY DEF PruneIInv, IInv, SettledOK
    <3>. QED
      BY <1>1, <1>5, <3>1, <3>2 DEF ContentKnown, Knows, locals, history
  <2>3. ASSUME NEW q \in Pusher PROVE ManifestKnown(q)'
    <3>1. ManifestKnown(q)
      BY DEF PruneIInv, IInv, SettledOK
    <3>. QED
      BY <1>1, <1>5, <3>1, Bodies DEF ManifestKnown, Decodes, locals, history
  <2>. QED BY <2>1, <2>2, <2>3 DEF IInv, SettledOK
<1>7. \A p \in Path : References(p)' <=> References(p)
  BY <1>5, Bodies DEF References, Decodes
<1>8. KnownOK'
  <2>1. \A q \in Pusher : Settled(q) \cup heads[q] \subseteq Path
    BY Bodies DEF PruneIInv, IInv, TypeOK, Settled
  <2>. QED
    BY <1>1, <1>7, <2>1 DEF PruneIInv, KnownOK, Relied, Settled, locals, history
<1>9. SentOK'
  BY <1>1, <1>3, Bodies DEF PruneIInv, PruneTypeOK, SentOK
<1>10. PruneTypeOK' /\ UnkeptOK' /\ DoomedOK'
  BY <1>1, <1>6 DEF PruneIInv, PruneTypeOK, UnkeptOK, DoomedOK, IInv
<1>11. LateOK'
  <2>1. late \subseteq Path
    BY Bodies DEF PruneIInv, PruneTypeOK, Key
  <2>2. \A p \in Path : Old(p) => Old(p)'
    BY <1>1, <1>3, <1>4, Bodies DEF Old
  <2>. QED BY <1>1, <1>7, <2>1, <2>2 DEF PruneIInv, LateOK, Old
<1>. QED BY <1>6, <1>8, <1>9, <1>10, <1>11 DEF PruneIInv

-----------------------------------------------------------------------------
(* The theorems.                                                           *)

\* What a prune deletes now or late, unless it is excused, is garbage still.
LEMMA PrunedIsOld ==
    ASSUME PruneIInv, NEW k \in Path, Prunes(k), ~Excused(k)
    PROVE  Old(k) /\ ~References(k)
<1>1. CASE PrunesNow(k)
  BY <1>1, ListedIsOld DEF PrunesNow, Excused
<1>2. CASE ~PrunesNow(k)
  BY <1>2 DEF Prunes, Excused, PruneIInv, LateOK, Old
<1>. QED BY <1>1, <1>2

LEMMA PruneInitInv == PruneInit => PruneIInv
<1>1. SUFFICES ASSUME PruneInit PROVE PruneIInv
  OBVIOUS
<1>2. IInv
  BY <1>1, InitInv DEF PruneInit
<1>3. PruneTypeOK
  BY <1>1, <1>2 DEF PruneInit, PruneTypeOK, IInv
<1>4. KnownOK /\ SentOK
  BY <1>1 DEF PruneInit, Init, KnownOK, Relied, SentOK, Settled, Paths, NoFiles
<1>5. UnkeptOK /\ DoomedOK /\ LateOK
  BY <1>1 DEF PruneInit, UnkeptOK, DoomedOK, LateOK
<1>. QED BY <1>2, <1>3, <1>4, <1>5 DEF PruneIInv

LEMMA PruneStepInv == PruneIInv /\ [PruneNext]_pvars => PruneIInv'
<1>1. SUFFICES ASSUME PruneIInv, [PruneNext]_pvars PROVE PruneIInv'
  OBVIOUS
<1>2. CASE PruneNext
  BY <1>1, <1>2, PushBeside, FetchManifestStep, ListStep, TurnStep, StopStep,
     DeleteStep, AgeStep DEF PruneNext, PruneStep
<1>3. CASE UNCHANGED pvars
  <2>1. /\ IInv' /\ KnownOK' /\ SentOK' /\ LateOK'
        /\ sent' \in [Pusher -> SUBSET Path]
        /\ \A p \in Path : Old(p)' = Old(p) /\ References(p)' = References(p)
    BY <1>1, <1>3, Apart DEF pvars, prune
  <2>2. PruneTypeOK' /\ DoomedOK'
    BY <1>1, <1>3, <2>1
       DEF pvars, prune, vars, PruneIInv, PruneTypeOK, DoomedOK, IInv
  <2>3. UnkeptOK'
    BY <1>1, <1>3, <2>1 DEF pvars, prune, PruneIInv, UnkeptOK, Old
  <2>. QED BY <2>1, <2>2, <2>3 DEF PruneIInv
<1>. QED BY <1>1, <1>2, <1>3

\* PruneIInv holds of every behaviour of pushes and prunes.
THEOREM PruneInvariance == PruneSpec => []PruneIInv
BY PruneInitInv, PruneStepInv, PTL DEF PruneSpec

\* Every variable keeps its type, and prune never dooms the manifest.
THEOREM PruneTypes == PruneSpec => []PruneTypeOK
BY PruneInvariance, PTL DEF PruneIInv

\* What push promises it keeps beside prunes: a push that is about to put its
\* manifest has seen its content verify, but for what prune or another push
\* wrote since.
THEOREM ContentIsFirstBesidePrune == PruneSpec => []ContentFirst
<1>1. PruneIInv => ContentFirst
  BY DEF PruneIInv, IInv, LocalsOK, SettledOK, ContentKnown, ContentFirst, Knows,
         Settled
<1>. QED BY <1>1, PruneInvariance, PTL

\* Prune deletes nothing that is published or relied on, unless it was written
\* after it was listed or a manifest was put blindly.
THEOREM ReferencedIsSpared == PruneSpec => SparesReferenced
<1>. DEFINE Spares ==
       \A k \in Path :
          Prunes(k) /\ ~Excused(k) =>
             /\ ~object[k].fresh
             /\ ~References(k)
             /\ \A q \in Pusher :
                   pc[q] \in {"head", "upload", "manifest"} /\ ~Blind(q)
                   => k \notin Settled(q)
<1>1. ASSUME PruneIInv, NEW k \in Path, Prunes(k), ~Excused(k)
      PROVE  /\ Old(k) /\ ~References(k)
             /\ \A q \in Pusher : Relying(q) /\ ~Blind(q) => k \notin Settled(q)
  BY <1>1, PrunedIsOld, NotRelied DEF PruneIInv, KnownOK
<1>2. PruneIInv => Spares
  BY <1>1 DEF Old, Relying
<1>3. PruneIInv /\ [PruneNext]_pvars => [Spares]_pvars
  BY <1>2
<1>. QED BY <1>3, PruneInvariance, PTL DEF PruneSpec, SparesReferenced
=============================================================================
