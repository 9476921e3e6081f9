--------------------------- MODULE ReplaceRefines ---------------------------
(***************************************************************************)
(* Replace implements Mirror: with the invariant of ReplaceProofs, every   *)
(* file system operation of pull is a step of the promise it makes or one  *)
(* that no reader of the destination can tell.  For the same reason a      *)
(* dry run sees the destination a later pull will hash.                    *)
(***************************************************************************)
EXTENDS ReplaceProofs, Preview

Mirrored == View(Live, file)

Hidden == {"recover", "keep", "discard", "unshare", "dropPartial", "fetch"}
            \cup Staging \cup {"verify", "swap", "install", "rollback"}

\* A step that shows nothing and stays within the call.
LEMMA Stutter ==
    ASSUME pc \in Hidden, pc' \in Hidden, call' = call, Mirrored' = Mirrored
    PROVE  UNCHANGED M!vars
BY DEF M!vars, Mirrored, Hidden, Staging

\* The destination looks the same if its names and their files do.
LEMMA SameView ==
    ASSUME fs'["dest"] = fs["dest"],
           fs["dest"] = Absent => fs'["old"] = fs["old"],
           \A s \in {"dest", "old"}, p \in Path :
              Holds(fs, s, p) => file'[fs[s][p]] = file[fs[s][p]]
    PROVE  Mirrored' = Mirrored
<1>1. Live' = Live /\ (Live = fs["dest"] \/ Live = fs["old"])
  BY DEF Live
<1>2. \A p \in Path : Live # Absent /\ Live[p] # Nil => file'[Live[p]] = file[Live[p]]
  BY <1>1 DEF Holds
<1>. QED BY <1>1, <1>2 DEF Mirrored, View

\* The end of keepStaged and of the recovery: the call goes on or it ends.
LEMMA AfterStep ==
    ASSUME pc \in Hidden, Mirrored' = Mirrored,
           \/ \E e \in {"none", "mismatch", "other"} : AfterKeep(e) \/ AfterRecovery(e)
           \/ End("error")
    PROVE  M!Next \/ UNCHANGED M!vars
<1>1. CASE End("error")
  <2>1. M!Fail
    BY <1>1 DEF M!Fail, End, Hidden, Staging, Mirrored
  <2>. QED BY <2>1 DEF M!Next
<1>2. CASE End("recovered") /\ call = "recover"
  <2>1. M!Recovered
    BY <1>2 DEF M!Recovered, End, Hidden, Staging, Mirrored
  <2>. QED BY <2>1 DEF M!Next
<1>3. CASE pc' \in Hidden /\ call' = call
  BY <1>3, Stutter
<1>. QED BY <1>1, <1>2, <1>3 DEF AfterKeep, AfterRecovery, Hidden, ctl

LEMMA RecoverMirrors == ASSUME IInv, Recover PROVE UNCHANGED M!vars
<1>1. CASE RemoveStaleOld /\ RemoveSome("old") /\ UNCHANGED <<pc, err>> /\ NoFault
  <2>1. Mirrored' = Mirrored
    BY <1>1, UnlinkStep DEF RemoveStaleOld, RemoveSome, NoFault, Mirrored
  <2>. QED BY <1>1, <2>1, Stutter DEF RemoveStaleOld, ctl, Hidden
<1>2. CASE RemoveStaleOld /\ RemoveRoot("old")
  <2>1. fs'["dest"] = fs["dest"] /\ file' = file
    BY <1>2, RootFacts DEF IInv, Sibling
  <2>2. Mirrored' = Mirrored
    BY <1>2, <2>1, SameView DEF RemoveStaleOld
  <2>. QED BY <1>2, <2>2, Stutter DEF RemoveStaleOld, ctl, Hidden
<1>3. CASE RestoreOld /\ fs' = Move(fs, "old", "dest")
  <2>1. Live' = Live /\ file' = file
    BY <1>3, TreeNotAbsent DEF RestoreOld, Move, Live, IInv, TypeOK, Sibling
  <2>2. Mirrored' = Mirrored
    BY <2>1 DEF Mirrored
  <2>. QED BY <1>3, <2>2, Stutter DEF RestoreOld, ctl, Hidden
<1>4. CASE Recover /\ UNCHANGED disk
  <2>1. Mirrored' = Mirrored
    BY <1>4 DEF disk, Mirrored, Live, View
  <2>. QED BY <1>4, <2>1, Stutter
           DEF Recover, NothingOld, RestoreOld, RemoveStaleOld, ctl, Hidden
<1>. QED BY <1>1, <1>2, <1>3, <1>4
         DEF Recover, NothingOld, RestoreOld, RemoveStaleOld, disk

LEMMA KeepStagedMirrors ==
    ASSUME IInv, KeepStaged
    PROVE  Mirrored' = Mirrored /\ (M!Next \/ UNCHANGED M!vars)
<1>. USE DEF IInv, disk, ctl, Sibling
<1>1. pc \in Hidden /\ pc \in {"keep", "discard"} /\ err \in {"none", "mismatch", "other"}
  BY DEF KeepStaged, NothingStaged, DropStagedShared, Keep, KeepFails, KeepRefused,
         DiscardStaged, DiscardFails, Hidden, TypeOK
<1>2. Mirrored' = Mirrored
  <2>1. CASE NothingStaged \/ KeepRefused \/ DiscardFails \/ UNCHANGED disk
    BY <2>1 DEF NothingStaged, KeepRefused, DiscardFails, Mirrored, View, Live
  <2>2. CASE DropStagedShared /\ DropShared("tmp") /\ UNCHANGED pc /\ NoFault
    BY <2>2, DropSharedUnlinks, UnlinkStep DEF DropStagedShared, NoFault, Mirrored
  <2>3. CASE Keep
    BY <2>3, SameView DEF Keep, Move, TypeOK
  <2>4. CASE KeepFails
    BY <2>4, SameView DEF KeepFails, TypeOK
  <2>5. CASE DiscardStaged /\ RemoveSome("tmp") /\ UNCHANGED <<pc, ctl, err, man>>
    BY <2>5, <1>1, UnlinkStep DEF DiscardStaged, RemoveSome, Mirrored
  <2>6. CASE DiscardStaged /\ RemoveRoot("tmp")
    BY <2>6, RootFacts, SameView
  <2>. QED BY <2>1, <2>2, <2>3, <2>4, <2>5, <2>6
           DEF KeepStaged, DropStagedShared, DiscardStaged
<1>3. CASE pc' \in {"keep", "discard"} /\ UNCHANGED call
  BY <1>1, <1>2, <1>3, Stutter DEF Hidden
<1>4. CASE End("error") \/ \E e \in {"none", "mismatch", "other"} : AfterKeep(e)
  BY <1>1, <1>2, <1>4, AfterStep
<1>. QED BY <1>1, <1>2, <1>3, <1>4
         DEF KeepStaged, NothingStaged, DropStagedShared, Keep, KeepFails, KeepRefused,
             DiscardStaged, DiscardFails

LEMMA UnsharePartialMirrors ==
    ASSUME IInv, UnsharePartial
    PROVE  Mirrored' = Mirrored /\ (M!Next \/ UNCHANGED M!vars)
<1>. USE DEF IInv, disk, ctl, Sibling
<1>1. pc \in {"unshare", "dropPartial"} /\ err \in {"none", "mismatch", "other"}
  BY DEF UnsharePartial, Unshare, Unshared, DropPartial, TypeOK
<1>2. Mirrored' = Mirrored
  <2>1. CASE UNCHANGED disk
    BY <2>1 DEF Mirrored, View, Live
  <2>2. CASE Unshare /\ DropShared("partial") /\ UNCHANGED pc /\ NoFault
    BY <2>2, DropSharedUnlinks, UnlinkStep DEF Unshare, NoFault, Mirrored
  <2>3. CASE DropPartial /\ RemoveSome("partial") /\ UNCHANGED <<pc, ctl, err, man>>
             /\ NoFault
    BY <2>3, <1>1, UnlinkStep DEF DropPartial, RemoveSome, NoFault, Mirrored
  <2>4. CASE RemoveRoot("partial")
    BY <2>4, RootFacts, SameView
  <2>. QED BY <2>1, <2>2, <2>3, <2>4
           DEF UnsharePartial, Unshare, Unshared, DropPartial
<1>3. CASE pc' \in {"unshare", "dropPartial"} /\ UNCHANGED call
  BY <1>1, <1>2, <1>3, Stutter DEF Hidden
<1>4. CASE \E e \in {"none", "mismatch", "other"} : AfterRecovery(e)
  BY <1>1, <1>2, <1>4, AfterStep DEF Hidden
<1>. QED BY <1>1, <1>2, <1>3, <1>4 DEF UnsharePartial, Unshare, Unshared, DropPartial

\* Staging touches tmp, the partial tree and files the destination has not.
LEMMA StageMirrors ==
    ASSUME IInv, Stage
    PROVE  Mirrored' = Mirrored /\ (M!Next \/ UNCHANGED M!vars)
<1>. USE DEF IInv, disk, ctl, Sibling
<1>0. (UNCHANGED M!vars) => Mirrored' = Mirrored
  BY DEF M!vars, Mirrored
<1>1. CASE BeginFails
  <2>1. pc \in Hidden /\ End("error") /\ Mirrored' = Mirrored
    BY <1>1 DEF BeginFails, Hidden, Mirrored, Live, View
  <2>. QED BY <2>1, AfterStep
<1>2. CASE \E m \in Manifests : BeginStage(m)
  <2>1. Mirrored' = Mirrored
    BY <1>2, SameView DEF BeginStage, TypeOK
  <2>. QED BY <1>2, <2>1, Stutter DEF BeginStage, Hidden, Staging
<1>3. CASE \E p \in Path : StageLink(p)
  <2>1. Mirrored' = Mirrored
    BY <1>3, SameView DEF StageLink, Name, TypeOK
  <2>2. pc \in Hidden /\ pc' = pc /\ call' = call
    BY <1>3 DEF StageLink, Ready, Hidden, Staging
  <2>. QED BY <2>1, <2>2, Stutter
<1>4. CASE \E p \in Path : StageOpen(p)
  <2>1. PICK p \in Path, i \in FreeInodes(file) :
           /\ StageOpen(p) /\ fs' = Name(fs, "tmp", p, i)
           /\ file' = [file EXCEPT ![i] = [data |-> Torn, mode |-> man[p].mode]]
    BY <1>4 DEF StageOpen
  <2>2. file[i] = Nil
    BY DEF FreeInodes
  <2>3. Mirrored' = Mirrored
    <3>1. \A s \in {"dest", "old"}, q \in Path :
             Holds(fs, s, q) => file'[fs[s][q]] = file[fs[s][q]]
      BY <2>1, <2>2 DEF Accounted, TypeOK
    <3>. QED BY <2>1, <3>1, SameView DEF Name, TypeOK
  <2>4. pc \in Hidden /\ pc' = pc /\ call' = call
    BY <2>1 DEF StageOpen, Ready, Hidden, Staging
  <2>. QED BY <2>3, <2>4, Stutter
<1>5. ASSUME NEW p \in writing, NEW d, Received(p, d)
      PROVE  UNCHANGED M!vars
  <2>1. Received(p, d)
    BY <1>5
  <2>2. /\ p \in Path /\ Holds(fs, "tmp", p) /\ Sole(fs, "tmp", p)
        /\ pc \in Staging
    BY DEF JobOK, TypeOK, Holds
  <2>3. \A s \in {"dest", "old"}, q \in Path :
           Holds(fs, s, q) => file'[fs[s][q]] = file[fs[s][q]]
    BY <2>1, <2>2 DEF Received, Sole, TypeOK
  <2>4. Mirrored' = Mirrored
    BY <2>1, <2>3, SameView DEF Received
  <2>. QED BY <2>1, <2>2, <2>4, Stutter DEF Received, Hidden
<1>6. CASE \E p \in Path : StageCut(p) \/ StageFails(p)
  <2>1. pc \in Hidden
    BY <1>6 DEF StageCut, StageFails, Ready, Hidden, Staging, JobOK
  <2>2. Mirrored' = Mirrored /\ pc' = pc /\ call' = call
    BY <1>6 DEF StageCut, StageFails, Mirrored, Live, View
  <2>. QED BY <2>1, <2>2, Stutter
<1>7. CASE LocalDone \/ Clear \/ ClearShared \/ RemoteDone \/ ResumeDirStuck
  <2>1. pc \in Hidden /\ pc' \in Hidden /\ call' = call
    BY <1>7 DEF LocalDone, Clear, ClearShared, RemoteDone, ResumeDirStuck, Hidden, Staging
  <2>2. Mirrored' = Mirrored
    <3>1. CASE UNCHANGED disk
      BY <3>1 DEF Mirrored, View, Live
    <3>2. CASE Clear /\ RemoveSome("partial") /\ UNCHANGED pc /\ NoFault
      BY <3>2, UnlinkStep DEF Clear, RemoveSome, NoFault, Mirrored
    <3>3. CASE RemoveRoot("partial")
      BY <3>3, RootFacts, SameView
    <3>4. CASE ClearShared /\ DropShared("partial") /\ UNCHANGED <<pc, err, job>>
               /\ NoFault
      BY <3>4, DropSharedUnlinks, UnlinkStep DEF ClearShared, NoFault, Mirrored
    <3>5. CASE ResumeDirStuck
      BY <3>5, SameView DEF ResumeDirStuck, TypeOK
    <3>. QED BY <1>7, <3>1, <3>2, <3>3, <3>4, <3>5
             DEF LocalDone, Clear, ClearShared, RemoteDone
  <2>. QED BY <2>1, <2>2, Stutter
<1>. QED BY <1>0, <1>1, <1>2, <1>3, <1>4, <1>5, <1>6, <1>7
         DEF Stage, StageCopied, StageDownloaded, StageMismatch

\* The second rename is the step at which the destination changes, from one
\* whole tree to the manifest that was verified.
LEMMA InstallMirrors == ASSUME IInv, Install PROVE M!Next
<1>. USE DEF IInv, Staging, Swapping, Sibling
<1>1. /\ pc \in {"swap", "install"} /\ pc' = "removeOld" /\ call # "recover"
      /\ fs["dest"] = Absent /\ fs["tmp"] # Absent /\ man \in Manifests
      /\ file' = file /\ man' = man
  BY DEF Install, AtInstall, DestOK, JobOK, ControlOK
<1>2. fs'["dest"] = fs["tmp"] /\ Live' = fs["tmp"]
  BY <1>1, MoveFacts DEF Install, Live
<1>3. Mirrored' = View(fs["tmp"], file)
  BY <1>1, <1>2 DEF Mirrored, View
<1>4. View(fs["tmp"], file) \in M!Snapshot
  BY <1>1 DEF View, M!Snapshot, M!File, M!Data, File, Data, TypeOK, Tree
<1>5. M!Matches(View(fs["tmp"], file), man)
  BY <1>1 DEF VerifiedOK
<1>6. M!Replace(man)
  BY <1>1, <1>3, <1>4, <1>5 DEF M!Replace, Mirrored
<1>. QED BY <1>1, <1>6 DEF M!Next

LEMMA SwapMirrors == ASSUME IInv, Swap PROVE M!Next \/ UNCHANGED M!vars
<1>. USE DEF IInv, disk, ctl, Staging, Swapping, Sibling
<1>1. CASE Verified \/ Refused \/ InstallFails
  <2>1. pc \in Hidden /\ pc' \in Hidden /\ call' = call /\ Mirrored' = Mirrored
    BY <1>1 DEF Verified, Refused, InstallFails, AtInstall, Hidden, Mirrored, Live, View
  <2>. QED BY <2>1, Stutter
<1>2. CASE SetAside \/ Rollback
  <2>1. pc \in Hidden /\ pc' \in Hidden /\ call' = call /\ file' = file
    BY <1>2 DEF SetAside, Rollback, Hidden
  <2>2. Live' = Live
    <3>1. CASE SetAside
      BY <3>1 DEF SetAside, Move, Live, TypeOK
    <3>2. CASE Rollback
      BY <3>2 DEF Rollback, DestOK, Move, Live, TypeOK
    <3>. QED BY <1>2, <3>1, <3>2
  <2>. QED BY <2>1, <2>2, Stutter DEF Mirrored, View
<1>3. CASE Install
  BY <1>3, InstallMirrors
<1>4. CASE RemoveOld
  <2>1. pc = "removeOld" /\ fs["dest"] # Absent
    BY <1>4 DEF RemoveOld, DestOK
  <2>2. Mirrored' = Mirrored
    <3>1. CASE RemoveSome("old") /\ UNCHANGED <<pc, ctl, err, man>> /\ NoFault
      BY <1>4, <2>1, <3>1, UnlinkStep DEF RemoveOld, RemoveSome, NoFault, Mirrored
    <3>2. CASE RemoveRoot("old")
      BY <2>1, <3>2, RootFacts, SameView
    <3>3. CASE UNCHANGED disk
      BY <3>3 DEF Mirrored, View, Live
    <3>. QED BY <1>4, <3>1, <3>2, <3>3 DEF RemoveOld
  <2>3. CASE End("ok")
    <3>1. M!Matches(Mirrored, man) /\ man' = man
      BY <2>1, <2>3 DEF VerifiedOK, Mirrored, Live, End
    <3>2. M!Succeed
      BY <2>1, <2>2, <2>3, <3>1 DEF M!Succeed, End, Mirrored
    <3>. QED BY <3>2 DEF M!Next
  <2>4. CASE UNCHANGED <<pc, ctl, err, man>>
    BY <2>1, <2>2, <2>4 DEF M!vars, Mirrored
  <2>. QED BY <1>4, <2>3, <2>4 DEF RemoveOld
<1>. QED BY <1>1, <1>2, <1>3, <1>4 DEF Swap

LEMMA WorldMirrors ==
    ASSUME IInv,
           (\E c \in Calls : Start(c)) \/ Kill
              \/ \E p \in Path, d \in Data : OutsideWrite(p, d)
    PROVE  M!Next
<1>. USE DEF IInv, disk, ctl, Staging, Swapping, Sibling
<1>1. CASE \E c \in Calls : Start(c)
  <2>1. PICK c \in Calls : Start(c)
    BY <1>1
  <2>2. Mirrored' = Mirrored
    BY <2>1 DEF Start, Mirrored, View, Live
  <2>3. M!Call(IF c = "recover" THEN "recovering" ELSE "pulling")
    BY <2>1, <2>2 DEF Start, M!Call, M!Ended, TypeOK, Ended, Mirrored
  <2>. QED BY <2>3 DEF M!Next
<1>2. CASE Kill
  <2>1. Mirrored' = Mirrored
    BY <1>2 DEF Kill, Mirrored, View, Live
  <2>2. M!Killed
    BY <1>2, <2>1 DEF Kill, End, M!Killed, Mirrored
  <2>. QED BY <2>2 DEF M!Next
<1>3. ASSUME NEW p \in Path, NEW d \in Data, OutsideWrite(p, d)
      PROVE  M!Next
  <2>1. /\ pc \in Staging \cup {"verify"} /\ pc' = pc /\ call' = call /\ fs' = fs
        /\ call # "recover" /\ Holds(fs, "dest", p)
        /\ file' = [file EXCEPT ![fs["dest"][p]].data = d]
    BY <1>3 DEF OutsideWrite, ControlOK
  <2>2. Live = fs["dest"] /\ Live' = Live /\ Live \in Tree /\ Live # Absent
        /\ Live[p] # Nil
    BY <2>1 DEF Live, Holds, TypeOK
  <2>3. \A q \in Path : Live[q] # Nil =>
           Live[q] \in Inode /\ (q # p => Live[q] # Live[p])
    BY <2>2 DEF LinksOK, Distinct, Tree
  <2>4. file[Live[p]] # Nil
    BY <2>1, <2>2 DEF Accounted
  <2>5. Mirrored' = [q \in Path |-> IF Live[q] = Nil THEN Nil ELSE file'[Live[q]]]
        /\ Mirrored = [q \in Path |-> IF Live[q] = Nil THEN Nil ELSE file[Live[q]]]
    BY <2>2 DEF Mirrored, View
  <2>6. Mirrored' = [Mirrored EXCEPT ![p].data = d]
    <3>1. file'[Live[p]] = [file[Live[p]] EXCEPT !.data = d]
      BY <2>1, <2>2, <2>3 DEF TypeOK
    <3>2. \A q \in Path : q # p /\ Live[q] # Nil => file'[Live[q]] = file[Live[q]]
      BY <2>1, <2>2, <2>3 DEF TypeOK
    <3>. QED BY <2>2, <2>5, <3>1, <3>2
  <2>7. Mirrored # Absent /\ Mirrored[p] # Nil
    <3>1. Mirrored[p] = file[Live[p]]
      BY <2>2, <2>5
    <3>2. \A i \in Inode : file[i] \in File \cup {Nil}
      BY DEF TypeOK
    <3>3. Mirrored \in [Path -> File \cup {Nil}]
      BY <2>3, <2>5, <3>2
    <3>. QED BY <2>2, <2>3, <2>4, <3>1, <3>3, NilAssumption DEF File, Data
  <2>8. M!OutsideWrite(p, d)
    BY <2>1, <2>6, <2>7 DEF M!OutsideWrite, Mirrored
  <2>. QED BY <2>8 DEF M!Next, M!Data, Data
<1>. QED BY <1>1, <1>2, <1>3

LEMMA StepMirrors ==
    ASSUME IInv, [Next]_vars
    PROVE  [M!Next]_(M!vars)
<1>1. CASE Next
  BY <1>1, RecoverMirrors, KeepStagedMirrors, UnsharePartialMirrors, StageMirrors,
     SwapMirrors, WorldMirrors DEF Next, Step
<1>2. CASE UNCHANGED vars
  BY <1>2 DEF vars, disk, ctl, M!vars, Live, View
<1>. QED BY <1>1, <1>2

LEMMA InitMirrors == ASSUME Init PROVE M!Init
<1>1. IInv
  BY InitInvariant
<1>2. Mirrored \in M!Snapshot \cup {Absent}
  BY <1>1 DEF IInv, TypeOK, Mirrored, View, Live, M!Snapshot, M!File,
         M!Data, File, Data, Tree, Sibling
<1>. QED BY <1>2 DEF Init, M!Init, Mirrored

\* pull does what Mirror promises: the destination is at every moment, for a
\* reader or after the next recovery, a tree that was there before or the whole
\* of one verified manifest, an error means that nothing was changed, and success
\* returns the manifest the tree has (Implements).
THEOREM Refinement == Spec => Implements
<1>1. Init => M!Init
  BY InitMirrors
<1>2. IInv /\ [Next]_vars => [M!Next]_(M!vars)
  BY StepMirrors
<1>. QED BY <1>1, <1>2, Invariance, PTL DEF Spec, Implements, M!Spec
-----------------------------------------------------------------------------
(* The dry run.                                                            *)

\* A plan follows the process only where it cannot change the destination, but
\* for putting back one that was missing.
LEMMA EarlyDest ==
    ASSUME IInv, Next, pc \in Early, Following
    PROVE  /\ Mirrored' = Mirrored
           /\ fs["dest"] # Absent => fs'["dest"] # Absent
           /\ fs["old"] = Absent => fs'["old"] = Absent
<1>. USE DEF IInv, disk, Sibling, Early, Following
<1>1. ~Swap
  BY DEF Swap, Verified, Refused, SetAside, Install, AtInstall, InstallFails, Rollback,
         RemoveOld
<1>7. ~(\E p \in Path, d \in Data : OutsideWrite(p, d))
  <2>1. MaxEdits \in Nat /\ edits \in 0..MaxEdits /\ edits' = edits
    BY BoundAssumption DEF TypeOK
  <2>2. edits' # edits + 1
    BY <2>1
  <2>. QED BY <2>2, Zenon DEF OutsideWrite
<1>2. CASE Recover
  <2>1. Mirrored' = Mirrored
    BY <1>2, RecoverMirrors DEF M!vars, Mirrored
  <2>2. CASE RemoveSome("old")
    BY <2>1, <2>2, UnlinkFacts DEF RemoveSome
  <2>3. CASE RemoveRoot("old")
    BY <2>1, <2>3, RootFacts
  <2>4. CASE fs["old"] # Absent /\ fs["dest"] = Absent
    BY <2>1, <2>4 DEF TypeOK
  <2>5. CASE UNCHANGED disk
    BY <2>1, <2>5
  <2>. QED BY <1>2, <2>2, <2>3, <2>4, <2>5
           DEF Recover, NothingOld, RestoreOld, RemoveStaleOld
<1>3. CASE KeepStaged
  <2>1. Mirrored' = Mirrored
    BY <1>3, KeepStagedMirrors
  <2>2. CASE RemoveSome("tmp") \/ DropShared("tmp")
    BY <2>1, <2>2, DropSharedUnlinks, UnlinkFacts DEF RemoveSome
  <2>3. CASE RemoveRoot("tmp")
    BY <2>1, <2>3, RootFacts
  <2>4. CASE Keep \/ KeepFails
    BY <2>1, <2>4 DEF Keep, KeepFails, Move, TypeOK
  <2>5. CASE UNCHANGED disk
    BY <2>1, <2>5
  <2>. QED BY <1>3, <2>2, <2>3, <2>4, <2>5
           DEF KeepStaged, NothingStaged, DropStagedShared, KeepRefused, DiscardStaged,
               DiscardFails
<1>4. CASE UnsharePartial
  <2>1. Mirrored' = Mirrored
    BY <1>4, UnsharePartialMirrors
  <2>2. CASE RemoveSome("partial") \/ DropShared("partial")
    BY <2>1, <2>2, DropSharedUnlinks, UnlinkFacts DEF RemoveSome
  <2>3. CASE RemoveRoot("partial")
    BY <2>1, <2>3, RootFacts
  <2>4. CASE UNCHANGED disk
    BY <2>1, <2>4
  <2>. QED BY <1>4, <2>2, <2>3, <2>4 DEF UnsharePartial, Unshare, Unshared, DropPartial
<1>5. CASE Stage
  <2>1. Mirrored' = Mirrored
    BY <1>5, StageMirrors
  <2>2. \A t \in {"dest", "old"} : fs'[t] = fs[t]
    BY <1>5 DEF Stage, BeginStage, BeginFails, StageLink, StageOpen, StageCopied,
         StageDownloaded, StageMismatch, StageCut, StageFails, Received, LocalDone,
         Clear, ClearShared, RemoteDone, ResumeDirStuck, Name, TypeOK
  <2>. QED BY <2>1, <2>2
<1>6. CASE UNCHANGED disk
  BY <1>6 DEF Mirrored, View, Live
<1>. QED BY <1>1, <1>2, <1>3, <1>4, <1>5, <1>6, <1>7 DEF Next, Step, Start, Kill

\* What such a step leaves for the hashing to find, where the plan knew of a
\* destination or of its being missing.
LEMMA LiveFilesKnown ==
    IInv /\ (fs["dest"] = Absent => fs["old"] = Absent) =>
        LiveFiles = IF Mirrored = Absent THEN NoFiles ELSE Mirrored
<1>. SUFFICES ASSUME IInv, fs["dest"] = Absent => fs["old"] = Absent
              PROVE  LiveFiles = IF Mirrored = Absent THEN NoFiles ELSE Mirrored
  OBVIOUS
<1>1. ASSUME fs["dest"] # Absent
      PROVE  Mirrored = View(fs["dest"], file) /\ Mirrored # Absent
  <2>1. /\ fs["dest"] \in Tree
        /\ Mirrored = [p \in Path |-> IF fs["dest"][p] = Nil THEN Nil
                                      ELSE file[fs["dest"][p]]]
    BY <1>1 DEF IInv, TypeOK, Sibling, Mirrored, Live, View
  <2>2. Mirrored \in [Path -> File \cup {Nil}]
    BY <2>1 DEF IInv, TypeOK, Tree
  <2>. QED BY <1>1, <2>2, NilAssumption DEF Mirrored, Live, File, Data
<1>2. ASSUME fs["dest"] = Absent
      PROVE  Mirrored = Absent
  BY <1>2 DEF Mirrored, Live, View
<1>. QED BY <1>1, <1>2 DEF LiveFiles

LEMMA EarlySteps ==
    ASSUME IInv, IInv', Next, pc \in Early, Following, ~plan.lost, DestKnown, plan' = plan
    PROVE  DestKnown' /\ LiveFiles' = LiveFiles
<1>1. /\ Mirrored' = Mirrored
      /\ fs["dest"] # Absent => fs'["dest"] # Absent
      /\ fs["old"] = Absent => fs'["old"] = Absent
  BY EarlyDest
<1>2. fs["dest"] = Absent => fs["old"] = Absent
  BY DEF DestKnown
<1>3. fs'["dest"] = Absent => fs'["old"] = Absent
  BY <1>1, <1>2
<1>4. LiveFiles = IF Mirrored = Absent THEN NoFiles ELSE Mirrored
  BY <1>2, LiveFilesKnown
<1>5. (IInv /\ (fs["dest"] = Absent => fs["old"] = Absent) =>
          LiveFiles = IF Mirrored = Absent THEN NoFiles ELSE Mirrored)'
  BY LiveFilesKnown, PTL
<1>6. LiveFiles' = IF Mirrored' = Absent THEN NoFiles ELSE Mirrored'
  BY <1>3, <1>5 DEF NoFiles
<1>. QED BY <1>1, <1>3, <1>4, <1>6 DEF DestKnown

\* The pull hashes its trees once.
LEMMA ToLocal ==
    ASSUME IInv, Next, pc' = "local"
    PROVE  \/ \E m \in Manifests : BeginStage(m)
           \/ pc = "local" /\ UNCHANGED <<man, live, index>>
<1>. USE DEF job, ctl, Sibling
<1>1. ~Recover
  BY DEF Recover, NothingOld, RestoreOld, RemoveStaleOld
<1>2. ~KeepStaged
  BY DEF KeepStaged, NothingStaged, DropStagedShared, Keep, KeepFails, KeepRefused,
         DiscardStaged, DiscardFails, AfterKeep, End
<1>3. ~UnsharePartial
  BY DEF UnsharePartial, Unshare, Unshared, DropPartial, AfterRecovery, End
<1>4. ~Swap
  BY DEF Swap, Verified, Refused, SetAside, Install, AtInstall, InstallFails, Rollback,
         RemoveOld, End
<1>5. ASSUME NEW c \in Calls, Start(c) PROVE FALSE
  BY <1>5 DEF Start
<1>6. ~Kill
  BY DEF Kill, End
<1>7. CASE \E p \in Path, d \in Data : OutsideWrite(p, d)
  BY <1>7 DEF OutsideWrite
<1>8. CASE Stage
  BY <1>8 DEF Stage, BeginFails, End, StageLink, StageOpen, StageCopied, StageDownloaded,
         StageMismatch, StageCut, StageFails, Received, LocalDone, Clear, ClearShared,
         RemoteDone, ResumeDirStuck
<1>. QED BY <1>1, <1>2, <1>3, <1>4, <1>5, <1>6, <1>7, <1>8 DEF Next, Step

\* Whether a kept file has a name in another tree does not change when a name is
\* dropped that the file has besides.
OwnFile(q) ==
    /\ Holds(fs, "partial", q)
    /\ \A s \in Sibling \ {"partial"}, r \in Path :
          Holds(fs, s, r) => fs[s][r] # fs["partial"][q]

LEMMA OwnData ==
    \A d : d \in Own <=> \E q \in Path : OwnFile(q) /\ file[fs["partial"][q]].data = d
<1>1. \A s \in Sibling : \A i : i \in Inodes(fs[s]) <=>
         \E q \in Path : Holds(fs, s, q) /\ fs[s][q] = i
  BY DEF Inodes, Holds
<1>. QED BY <1>1 DEF Own, OwnFile, Sibling

LEMMA OwnStays ==
    ASSUME IInv, DropShared("partial")
    PROVE  /\ Own' = Own
           /\ \A s \in Sibling \ {"partial"} : fs'[s] = fs[s]
<1>. DEFINE p == NextShared("partial")
<1>1. p \in Shared(fs, "partial") /\ Unlink("partial", p)
  <2>1. Shared(fs, "partial") \in SUBSET Path /\ Shared(fs, "partial") # {}
    BY DEF DropShared, Shared
  <2>. QED BY <2>1, Lexical DEF NextShared, DropShared
<1>2. p \in Path /\ Holds(fs, "partial", p) /\ ~Sole(fs, "partial", p)
  BY <1>1 DEF Shared
<1>. HIDE DEF p
<1>3. /\ \A s \in Sibling : s # "partial" => fs'[s] = fs[s]
      /\ \A s \in Sibling, q \in Path :
            Holds(fs', s, q) <=> Holds(fs, s, q) /\ ~(s = "partial" /\ q = p)
      /\ \A s \in Sibling, q \in Path : Holds(fs', s, q) =>
            fs'[s][q] = fs[s][q] /\ file'[fs'[s][q]] = file[fs'[s][q]]
  BY <1>1, <1>2, UnlinkFacts DEF IInv, Sibling
<1>4. \A q \in Path : OwnFile(q)' <=> OwnFile(q) /\ q # p
  BY <1>3 DEF OwnFile, Sibling
<1>5. OwnFile(p) => \E q \in Path \ {p} : OwnFile(q) /\ fs["partial"][q] = fs["partial"][p]
  BY <1>2 DEF OwnFile, Sole
<1>6. \A q \in Path : OwnFile(q)' =>
         file'[fs'["partial"][q]] = file[fs["partial"][q]]
  BY <1>3 DEF OwnFile, Sibling
<1>7. (\A d : d \in Own <=>
          \E q \in Path : OwnFile(q) /\ file[fs["partial"][q]].data = d)'
  BY OwnData, PTL
<1>8. \A d : d \in Own' <=> d \in Own
  BY <1>4, <1>5, <1>6, <1>7, OwnData
<1>. QED BY <1>3, <1>8

\* Once recovery is over no kept file is a file of another tree.
LEMMA OwnIsAll ==
    ASSUME IInv, pc = "fetch", fs["tmp"] = Absent, NEW c \in Content
    PROVE  LeftoverIndex[c] # Nil <=> c \in Own
<1>1. \A q \in Path : OwnFile(q) <=> Holds(fs, "partial", q)
  BY DEF IInv, PartialOK, Private, OwnFile, Holds
<1>2. LeftoverIndex[c] # Nil <=>
         \E q \in Path : Holds(fs, "partial", q) /\ file[fs["partial"][q]].data = c
  BY LeftoverIndexType, NilAssumption
<1>. QED BY <1>1, <1>2, OwnData

\* A dry run that warned of nothing, and nothing that went wrong since, leave
\* recovery nothing to do but to give up second names.
LEMMA SureSteps ==
    ASSUME IInv, IInv', Next, pc \in Early, Following, PartialAsPlanned,
           sure, Undisturbed, plan' = plan
    PROVE  PartialAsPlanned'
<1>. USE DEF IInv, Early, Following, Undisturbed, PartialAsPlanned, disk, ctl, Sibling
<1>1. ~FsFault /\ ~NetFault /\ ~Kill
  BY BoundAssumption DEF FsFault, NetFault, Kill, faults, TypeOK
<1>2. fs["old"] = Absent /\ (pc # "local" => fs["tmp"] = Absent)
  OBVIOUS
<1>3. CASE UNCHANGED disk /\ pc # "local" /\ pc' \notin {"local", "discard", "dropPartial"}
           /\ (pc' \in {"keep", "unshare"} => attempt' = 0)
  BY <1>2, <1>3 DEF Own
<1>4. CASE Recover
  <2>1. NothingOld
    BY <1>2, <1>4 DEF Recover, RestoreOld, RemoveStaleOld
  <2>. QED BY <1>3, <2>1 DEF NothingOld, ControlOK
<1>5. CASE KeepStaged
  <2>1. NothingStaged \/ pc = "discard"
    BY <1>2, <1>5
       DEF KeepStaged, DropStagedShared, Keep, KeepFails, KeepRefused, DiscardStaged,
           DiscardFails
  <2>2. pc = "keep" /\ attempt = 0 /\ UNCHANGED disk /\ AfterKeep(err)
    BY <2>1 DEF NothingStaged
  <2>. QED BY <1>3, <2>2 DEF AfterKeep
<1>6. CASE UnsharePartial
  <2>1. pc = "unshare"
    BY <1>6 DEF UnsharePartial, Unshare, Unshared, DropPartial
  <2>2. CASE Unshared
    BY <1>3, <2>1, <2>2 DEF Unshared, AfterRecovery, End
  <2>3. CASE DropShared("partial") /\ UNCHANGED <<pc, attempt>>
    BY <1>2, <2>1, <2>3, OwnStays
  <2>. QED BY <1>1, <1>6, <2>1, <2>2, <2>3
           DEF UnsharePartial, Unshare, DropPartial
<1>7. CASE Stage
  <2>1. fs'["old"] = fs["old"]
    BY <1>7 DEF Stage, BeginStage, BeginFails, StageLink, StageOpen, StageCopied,
         StageDownloaded, StageMismatch, StageCut, StageFails, Received, LocalDone,
         Clear, ClearShared, RemoteDone, ResumeDirStuck, Name, TypeOK
  <2>2. ~LocalDone
    BY DEF LocalDone, ControlOK, Staging
  <2>3. ~BeginFails /\ ~Clear /\ ~ClearShared /\ ~RemoteDone /\ ~ResumeDirStuck
    BY <1>1 DEF BeginFails, Clear, ClearShared, RemoteDone, ResumeDirStuck
  <2>4. ASSUME NEW p \in Path,
               \/ StageLink(p) \/ StageOpen(p) \/ StageCopied(p) \/ StageDownloaded(p)
               \/ \E d \in Data : StageMismatch(p, d)
               \/ StageCut(p) \/ StageFails(p)
        PROVE  pc = "local" /\ pc' = "local"
    <3>1. pc' = pc /\ (Ready(p) \/ p \in writing)
      BY <2>4 DEF StageLink, StageOpen, StageCopied, StageDownloaded, StageMismatch,
                  StageCut, StageFails, Received
    <3>. QED BY <3>1 DEF Ready, JobOK, Staging
  <2>5. CASE \E m \in Manifests : BeginStage(m)
    BY <1>2, <2>1, <2>5 DEF BeginStage
  <2>. QED BY <1>2, <1>7, <2>1, <2>2, <2>3, <2>4, <2>5 DEF Stage
<1>8. CASE \E c \in Calls : Start(c)
  BY <1>3, <1>8 DEF Start
<1>9. ~Swap
  BY DEF Swap, Verified, Refused, SetAside, Install, AtInstall, InstallFails, Rollback,
         RemoveOld
<1>10. CASE \E p \in Path, d \in Data : OutsideWrite(p, d)
  BY <1>10 DEF OutsideWrite
<1>. QED BY <1>1, <1>4, <1>5, <1>6, <1>7, <1>8, <1>9, <1>10 DEF Next, Step

\* The hashing of the trees finds what the plan foresaw.
LEMMA FoundAsPlanned ==
    ASSUME IInv, IInv', NEW m \in Manifests, BeginStage(m), plan.man = m,
           DestAsPlanned, PartialAsPlanned, plan' = plan,
           sure' => sure /\ UNCHANGED faults
    PROVE  Foretold'
<1>1. /\ man' = m /\ live' = LiveFiles /\ pc = "fetch" /\ fs["tmp"] = Absent
      /\ UNCHANGED faults => index' = LeftoverIndex
  <2>1. ~(FsFault /\ UNCHANGED faults)
    BY DEF FsFault, faults, IInv, TypeOK
  <2>. QED BY <2>1 DEF BeginStage
<1>2. SUFFICES ASSUME NEW p \in Path, m[p] # Nil
               PROVE  /\ ~plan.lost
                            /\ {Classify(p)', plan.act[p]} \cap {"link", "copy"} # {}
                         => Classify(p)' = plan.act[p]
                      /\ sure' => (Classify(p)' = "reuse" <=>
                            plan.act[p] = "reuse" /\ m[p].data \in plan.own)
  BY <1>1 DEF Foretold
<1>3. m[p].data \in Content
  BY <1>2, EntryType
<1>4. Classify(p)' = Decision(LiveFiles, index', m[p], p)
  BY <1>1 DEF Classify
<1>5. /\ InPlace(m, p) = "no" => Classify(p)' \in {"reuse", "download"}
      /\ InPlace(m, p) # "no" => Classify(p)' = InPlace(m, p)
      /\ InPlace(m, p) = "no" => (Classify(p)' = "reuse" <=> index'[m[p].data] # Nil)
      /\ InPlace(m, p) \in {"no", "copy", "link"}
  BY <1>4 DEF Decision, InPlace
<1>6. ~plan.lost =>
         /\ InPlace(m, p) = "no" => plan.act[p] \in {"reuse", "download"}
         /\ InPlace(m, p) # "no" => plan.act[p] = InPlace(m, p)
  BY <1>2 DEF DestAsPlanned
<1>7. ASSUME sure'
      PROVE  Classify(p)' = "reuse" <=>
                plan.act[p] = "reuse" /\ m[p].data \in plan.own
  <2>1. /\ ~plan.lost /\ Own = plan.own
        /\ m[p].data \in plan.own => plan.act[p] # "download"
    BY <1>1, <1>2, <1>7 DEF PartialAsPlanned
  <2>2. index'[m[p].data] # Nil <=> m[p].data \in plan.own
    BY <1>1, <1>3, <1>7, <2>1, OwnIsAll
  <2>. QED BY <1>5, <1>6, <2>1, <2>2
<1>. QED BY <1>5, <1>6, <1>7

\* A dry run plans by what it sees.
LEMMA DryRunPlans == ASSUME IInv, NEW m \in Manifests, DryRun(m) PROVE PlanOK'
<1>. USE DEF DryRun, disk, Sibling
<1>1. /\ plan'.man = m /\ plan'.own = Own /\ pc = "idle" /\ (sure' <=> ~Warned)
      /\ plan'.lost <=> fs["dest"] = Absent /\ fs["old"] # Absent
      /\ \A p \in Path : m[p] # Nil =>
            plan'.act[p] = Decision(LiveFiles, LeftoverIndex, m[p], p)
      /\ UNCHANGED <<fs, file, pc>>
  BY DEF Foreseen, vars
<1>2. /\ Own' = Own
      /\ \A p \in Path : InPlace(m, p)' = InPlace(m, p)
  BY <1>1 DEF Own, InPlace, LiveFiles
<1>3. DestKnown' /\ Foretold'
  BY <1>1 DEF DestKnown, Foretold
<1>4. DestAsPlanned'
  BY <1>1, <1>2 DEF DestAsPlanned, Decision, InPlace
<1>5. \A p \in Path : m[p] # Nil /\ m[p].data \in Own => LeftoverIndex[m[p].data] # Nil
  BY EntryType, LeftoverIndexType, OwnData DEF OwnFile
<1>6. PartialAsPlanned'
  BY <1>1, <1>2, <1>5 DEF PartialAsPlanned, Decision, Warned
<1>. QED BY <1>1, <1>3, <1>4, <1>6 DEF PlanOK, Early

\* A plan is dropped, made, or kept.
LEMMA PlanStep ==
    ASSUME IInv, IInv', PlanOK, [PreviewNext]_<<vars, plan, sure>>
    PROVE  PlanOK'
<1>1. CASE UNCHANGED <<vars, plan, sure>>
  BY <1>1 DEF PlanOK, vars, disk, ctl, job, DestKnown, DestAsPlanned, InPlace, LiveFiles,
              View, PartialAsPlanned, Own, Foretold, Classify
<1>2. CASE plan' = NoPlan
  BY <1>2 DEF PlanOK, NoPlan
<1>3. CASE \E m \in Manifests : DryRun(m)
  BY <1>3, DryRunPlans
<1>4. CASE /\ Next /\ Following /\ plan' = plan /\ plan.man # Nil
           /\ sure' = (sure /\ Following /\ Undisturbed)
  <2>1. /\ pc \in Early /\ pc' \in Early /\ plan.man \in Manifests
        /\ DestKnown /\ DestAsPlanned /\ PartialAsPlanned /\ Foretold
    BY <1>4 DEF PlanOK, Following
  <2>2. DestKnown' /\ (~plan.lost => LiveFiles' = LiveFiles)
    BY <1>4, <2>1, EarlySteps DEF DestKnown
  <2>3. DestAsPlanned'
    BY <1>4, <2>1, <2>2 DEF DestAsPlanned, InPlace
  <2>4. PartialAsPlanned'
    BY <1>4, <2>1, SureSteps DEF PartialAsPlanned
  <2>5. Foretold'
    <3>1. CASE pc' # "local" \/ man' # plan.man
      BY <1>4, <3>1 DEF Foretold
    <3>2. CASE pc = "local" /\ UNCHANGED <<man, live, index>>
      BY <1>4, <2>1, <3>2 DEF Foretold, Classify
    <3>3. CASE man' = plan.man /\ \E m \in Manifests : BeginStage(m)
      BY <1>4, <2>1, <3>3, FoundAsPlanned DEF BeginStage, Undisturbed
    <3>. QED BY <1>4, <3>1, <3>2, <3>3, ToLocal
  <2>. QED BY <1>4, <2>1, <2>2, <2>3, <2>4, <2>5 DEF PlanOK
<1>. QED BY <1>1, <1>2, <1>3, <1>4 DEF PreviewNext, PlanOK

\* What a dry run says of the destination, a later pull finds, however many
\* recoveries, failed attempts and kills come between; what it says of the kept
\* files too if it warned of nothing and nothing failed (PlanOK).
LEMMA PreviewInvariant == PreviewSpec => [](IInv /\ PlanOK)
<1>1. PreviewInit => IInv /\ PlanOK
  BY InitInvariant DEF PreviewInit, PlanOK, NoPlan
<1>2. [PreviewNext]_<<vars, plan, sure>> => [Next]_vars
  BY DEF PreviewNext, DryRun
<1>3. IInv /\ PlanOK /\ [PreviewNext]_<<vars, plan, sure>> => (IInv /\ PlanOK)'
  BY <1>2, NextInvariant, PlanStep
<1>. QED BY <1>1, <1>3, PTL DEF PreviewSpec

\* A pull links and copies the entries a dry run said it would, whatever comes
\* between, unless recovery has put dest back; where nothing was warned of and
\* nothing failed it also reuses those, but for what unsharePartial gives up
\* (Foretold).
THEOREM PlansComeTrue == PreviewSpec => []Foretold
<1>1. IInv /\ PlanOK => Foretold
  BY ManifestAssumption DEF IInv, JobOK, Staging, PlanOK, Foretold
<1>. QED BY <1>1, PreviewInvariant, PTL
=============================================================================
