----------------------------- MODULE ReplaceEnds ----------------------------
(***************************************************************************)
(* How a call of pull leaves the directories, for every instance: what     *)
(* Recover promises, what a success leaves beside the destination, what    *)
(* swap's rollback is for, and what a failed attempt keeps for the next.   *)
(***************************************************************************)
EXTENDS ReplaceProofs

LEMMA FewerApart ==
    ASSUME FewerNames, NEW s \in Sibling, NEW t \in Sibling, Apart(s, t)
    PROVE  Apart(s, t)'
BY DEF FewerNames, Apart

\* A removed name takes nothing away from what KeptOK says.
LEMMA UnlinkKept ==
    ASSUME IInv, KeptOK, NEW s \in Sibling, NEW p \in Path,
           Holds(fs, s, p), Unlink(s, p), UNCHANGED <<pc, err, result>>
    PROVE  KeptOK'
<1>1. FewerNames /\ \A t \in Sibling : (fs'[t] = Absent) <=> (fs[t] = Absent)
  BY UnlinkFacts DEF IInv, FewerNames
<1>2. \A u, t \in Sibling : Apart(u, t) => Apart(u, t)'
  BY <1>1, FewerApart
<1>. QED BY <1>1, <1>2 DEF KeptOK, Sibling

LEMMA RootKept ==
    ASSUME IInv, KeptOK, NEW s \in {"tmp", "old", "partial"}, RemoveRoot(s)
    PROVE  /\ file' = file
           /\ \A t \in Sibling : t # s => fs'[t] = fs[t]
           /\ fs'[s] = Absent
           /\ \A t, u \in Sibling : Apart(t, u) => Apart(t, u)'
BY RootFacts, FewerApart DEF IInv, Sibling

LEMMA RecoverKept == ASSUME IInv, KeptOK, Recover PROVE KeptOK'
<1>1. CASE RemoveStaleOld /\ RemoveSome("old") /\ UNCHANGED <<pc, err>> /\ NoFault
  BY <1>1, UnlinkKept DEF RemoveStaleOld, RemoveSome, ctl, Sibling
<1>2. CASE pc' = "keep"
  BY <1>2 DEF KeptOK
<1>. QED BY <1>1, <1>2 DEF Recover, NothingOld, RestoreOld, RemoveStaleOld

\* keepStaged returns no error to recovery only if tmp is gone.
LEMMA KeepStagedKept == ASSUME IInv, KeptOK, KeepStaged PROVE KeptOK'
<1>. USE DEF IInv, Sibling
<1>1. CASE pc' \in {"keep", "discard"}
  BY <1>1 DEF KeptOK
<1>2. CASE DiscardFails
  BY <1>2 DEF DiscardFails, AfterKeep, End, KeptOK
<1>3. CASE AfterKeep(err) /\ fs'["tmp"] = Absent
  BY <1>3 DEF AfterKeep, End, KeptOK
<1>4. CASE NothingStaged
  BY <1>3, <1>4 DEF NothingStaged, disk
<1>5. CASE Keep
  BY <1>3, <1>5, MoveFacts DEF Keep
<1>6. CASE DiscardStaged
  <2>1. CASE RemoveRoot("tmp") /\ AfterKeep(err)
    BY <1>3, <2>1, RootKept
  <2>. QED BY <1>1, <1>6, <2>1 DEF DiscardStaged
<1>. QED BY <1>1, <1>2, <1>4, <1>5, <1>6
         DEF KeepStaged, DropStagedShared, KeepFails, KeepRefused

\* Recovery succeeds only with a partial tree that shares nothing.
LEMMA UnsharePartialKept == ASSUME IInv, KeptOK, UnsharePartial PROVE KeptOK'
<1>. USE DEF IInv, disk, ctl, Sibling
<1>1. CASE Unshare
  <2>1. CASE DropShared("partial") /\ UNCHANGED pc /\ NoFault
    BY <1>1, <2>1, DropSharedUnlinks, UnlinkKept DEF Unshare
  <2>2. CASE UNCHANGED disk /\ pc' = "dropPartial"
    BY <1>1, <2>2 DEF Unshare, KeptOK
  <2>. QED BY <1>1, <2>1, <2>2 DEF Unshare
<1>2. CASE Unshared
  <2>1. Apart("dest", "partial")'
    BY <1>2 DEF Unshared, Apart, Shared, Sole, Holds
  <2>. QED BY <1>2, <2>1 DEF Unshared, AfterRecovery, End, KeptOK, DestOK
<1>3. CASE DropPartial
  <2>1. CASE RemoveSome("partial") /\ UNCHANGED <<pc, ctl, err, man>> /\ NoFault
    BY <1>3, <2>1, UnlinkKept DEF DropPartial, RemoveSome
  <2>2. CASE RemoveRoot("partial") /\ AfterRecovery(err)
    <3>1. Apart("dest", "partial")' /\ fs'["tmp"] = fs["tmp"] /\ fs'["old"] = fs["old"]
      BY <2>2, RootKept DEF Apart, Holds
    <3>. QED BY <1>3, <2>2, <3>1 DEF DropPartial, AfterRecovery, End, KeptOK, DestOK
  <2>3. CASE AfterRecovery("other")
    BY <1>3, <2>3 DEF DropPartial, AfterRecovery, End, KeptOK
  <2>. QED BY <1>3, <2>1, <2>2, <2>3 DEF DropPartial
<1>. QED BY <1>1, <1>2, <1>3 DEF UnsharePartial

\* From the removal of the partial tree on, tmp gets new files only.
LEMMA StageKept == ASSUME IInv, KeptOK, Stage PROVE KeptOK'
<1>. USE DEF IInv, disk, ctl, Sibling
<1>1. CASE pc' \in {"local", "clear", "clearShared", "keep"}
  BY <1>1 DEF KeptOK
<1>2. CASE BeginFails
  BY <1>2 DEF BeginFails, End, KeptOK
<1>3. ASSUME NEW p \in Path, StageOpen(p), pc = "remote"
      PROVE  KeptOK'
  <2>1. PICK i \in FreeInodes(file) : fs' = Name(fs, "tmp", p, i)
    BY <1>3 DEF StageOpen
  <2>2. file[i] = Nil /\ pc' = pc
    BY <1>3 DEF StageOpen, FreeInodes
  <2>3. \A q \in Path : Holds(fs, "partial", q) => fs["partial"][q] # i
    BY <2>2 DEF Accounted
  <2>4. Apart("tmp", "partial")'
    BY <1>3, <2>1, <2>3 DEF Name, Apart, Holds, KeptOK, TypeOK, JobOK, Staging, Tree
  <2>. QED BY <1>3, <2>2, <2>4 DEF KeptOK
<1>4. CASE pc = "remote" /\ pc' \in {"remote", "verify"} /\ UNCHANGED fs
  BY <1>4 DEF KeptOK, Apart, Holds
<1>5. CASE Clear /\ pc' = "remote"
  <2>1. CASE RemoveRoot("partial")
    BY <1>5, <2>1, RootKept DEF KeptOK, Apart, Holds
  <2>2. CASE fs["partial"] = Absent /\ UNCHANGED disk
    BY <1>5, <2>2 DEF KeptOK, Apart, Holds
  <2>3. CASE RemoveSome("partial") /\ UNCHANGED pc
    BY <1>5, <2>3 DEF Clear
  <2>. QED BY <1>5, <2>1, <2>2, <2>3 DEF Clear
<1>6. CASE ClearShared /\ pc' = "remote"
  <2>1. Shared(fs, "partial") = {} /\ UNCHANGED disk
    BY <1>6 DEF ClearShared
  <2>2. Apart("tmp", "partial")'
    BY <2>1 DEF Apart, Shared, Sole, Holds
  <2>. QED BY <1>6, <2>2 DEF KeptOK
<1>7. CASE ResumeDirStuck
  <2>1. Apart("tmp", "partial")'
    BY <1>7 DEF ResumeDirStuck, Apart, Holds, KeptOK, EmptyTree, TypeOK
  <2>. QED BY <1>7, <2>1 DEF ResumeDirStuck, KeptOK
<1>8. pc \in Staging \cup {"fetch"}
  BY DEF Stage, BeginStage, BeginFails, StageLink, StageOpen, StageCopied,
         StageDownloaded, StageMismatch, StageCut, StageFails, Ready, LocalDone, Clear,
         ClearShared, RemoteDone, ResumeDirStuck, JobOK, Staging
<1>9. CASE \E p \in Path : StageLink(p) \/ StageOpen(p)
  <2>1. pc' = pc /\ pc \in {"local", "remote"} /\ (pc = "remote" =>
           \E p \in Path : StageOpen(p))
    BY <1>9 DEF StageLink, StageOpen, Ready
  <2>. QED BY <1>1, <1>3, <2>1
<1>10. CASE \E p \in Path : StageCopied(p) \/ StageDownloaded(p) \/ StageCut(p)
                 \/ StageFails(p) \/ \E d \in Data : StageMismatch(p, d)
  <2>1. UNCHANGED <<fs, pc>>
    BY <1>10 DEF StageCopied, StageDownloaded, StageCut, StageFails, StageMismatch,
                 Received
  <2>2. pc \in {"local", "remote"}
    BY <1>10 DEF StageCopied, StageDownloaded, StageCut, StageFails, StageMismatch,
                 Ready, JobOK, Staging
  <2>. QED BY <1>1, <1>4, <2>1, <2>2
<1>. QED BY <1>1, <1>2, <1>4, <1>5, <1>6, <1>7, <1>9, <1>10
         DEF Stage, BeginStage, LocalDone, Clear, ClearShared, RemoteDone

LEMMA SwapKept == ASSUME IInv, KeptOK, Swap PROVE KeptOK'
<1>. USE DEF IInv, disk, ctl, Sibling
<1>1. CASE pc' \in {"keep", "rollback"}
  BY <1>1 DEF KeptOK
<1>2. CASE Verified
  BY <1>2 DEF Verified, KeptOK, Apart, Holds
<1>3. CASE SetAside /\ pc' = "install"
  <2>1. fs'["tmp"] = fs["tmp"] /\ fs'["partial"] = fs["partial"]
    BY <1>3, MoveFacts DEF SetAside
  <2>. QED BY <1>3, <2>1 DEF SetAside, KeptOK, Apart, Holds
<1>4. CASE Install
  <2>1. /\ fs'["dest"] = fs["tmp"] /\ fs'["partial"] = fs["partial"]
        /\ fs'["tmp"] = Absent /\ pc \in {"swap", "install"}
    BY <1>4, MoveFacts DEF Install, AtInstall, DestOK
  <2>. QED BY <1>4, <2>1 DEF Install, KeptOK, Apart, Holds
<1>5. CASE RemoveOld
  <2>1. CASE RemoveSome("old") /\ UNCHANGED <<pc, ctl, err, man>>
    BY <2>1, UnlinkKept DEF RemoveSome
  <2>2. CASE RemoveRoot("old") /\ End("ok")
    <3>1. fs'["tmp"] = fs["tmp"] /\ (Apart("dest", "partial") => Apart("dest", "partial")')
      BY <2>2, RootKept
    <3>. QED BY <1>5, <2>2, <3>1 DEF RemoveOld, End, KeptOK
  <2>3. CASE UNCHANGED disk /\ End("ok")
    BY <1>5, <2>3 DEF RemoveOld, End, KeptOK, Apart, Holds
  <2>. QED BY <1>5, <2>1, <2>2, <2>3 DEF RemoveOld
<1>. QED BY <1>1, <1>2, <1>3, <1>4, <1>5
         DEF Swap, Refused, SetAside, InstallFails, Rollback

LEMMA WorldKept ==
    ASSUME IInv, KeptOK,
           (\E c \in Calls : Start(c)) \/ Kill
              \/ \E p \in Path, d \in Data : OutsideWrite(p, d)
    PROVE  KeptOK'
<1>1. CASE \E c \in Calls : Start(c)
  BY <1>1 DEF Start, KeptOK, Apart, Holds
<1>2. CASE Kill
  BY <1>2 DEF Kill, End, KeptOK, Apart, Holds
<1>3. CASE \E p \in Path, d \in Data : OutsideWrite(p, d)
  BY <1>3 DEF OutsideWrite, KeptOK, Apart, Holds
<1>. QED BY <1>1, <1>2, <1>3

LEMMA NextKept == ASSUME IInv, KeptOK, [Next]_vars PROVE KeptOK'
<1>1. CASE UNCHANGED vars
  BY <1>1 DEF vars, disk, ctl, KeptOK, Apart, Holds
<1>. QED BY <1>1, RecoverKept, KeepStagedKept, UnsharePartialKept, StageKept, SwapKept,
            WorldKept DEF Next, Step

-----------------------------------------------------------------------------
(* The rollback.                                                           *)

\* Most steps leave the two places of the destination and lose no fault.
LEMMA PlacesStay ==
    ASSUME IInv, StrandedOK, pc \notin {"install", "rollback"},
           fs'["dest"] = fs["dest"], fs["old"] = Absent => fs'["old"] = Absent,
           UNCHANGED faults \/ FsFault \/ NetFault \/ Kill
    PROVE  StrandedOK'
BY DEF IInv, TypeOK, StrandedOK, faults, FsFault, NetFault, Kill

LEMMA NextStranded == ASSUME IInv, StrandedOK, [Next]_vars PROVE StrandedOK'
<1>. USE DEF IInv, disk, Sibling
<1>1. CASE UNCHANGED vars
  BY <1>1 DEF vars, faults, StrandedOK
<1>2. CASE Recover
  <2>1. CASE fs' = Move(fs, "old", "dest") /\ RestoreOld
    BY <2>1, MoveFacts DEF RestoreOld, StrandedOK
  <2>2. CASE RemoveStaleOld /\ ~ UNCHANGED fs
    <3>1. fs'["dest"] = fs["dest"] /\ fs["dest"] # Absent
      BY <2>2, RootFacts, UnlinkFacts DEF RemoveStaleOld, RemoveSome
    <3>. QED BY <3>1 DEF StrandedOK
  <2>3. CASE UNCHANGED fs /\ (UNCHANGED faults \/ FsFault)
    BY <1>2, <2>3, PlacesStay DEF Recover, NothingOld, RestoreOld, RemoveStaleOld
  <2>. QED BY <1>2, <2>1, <2>2, <2>3
           DEF Recover, NothingOld, RestoreOld, RemoveStaleOld, NoFault
<1>3. CASE KeepStaged
  <2>1. fs'["dest"] = fs["dest"] /\ fs'["old"] = fs["old"]
    <3>1. CASE DropStagedShared /\ DropShared("tmp")
      BY <3>1, DropSharedUnlinks, UnlinkFacts
    <3>2. CASE Keep
      BY <3>2, MoveFacts DEF Keep
    <3>3. CASE DiscardStaged
      BY <3>3, RootFacts, UnlinkFacts DEF DiscardStaged, RemoveSome
    <3>4. CASE KeepFails
      BY <3>4 DEF KeepFails, TypeOK
    <3>. QED BY <1>3, <3>1, <3>2, <3>3, <3>4
             DEF KeepStaged, NothingStaged, DropStagedShared, KeepRefused, DiscardFails
  <2>2. pc \in {"keep", "discard"} /\ (UNCHANGED faults \/ FsFault)
    BY <1>3 DEF KeepStaged, NothingStaged, DropStagedShared, Keep, KeepFails,
                KeepRefused, DiscardStaged, DiscardFails, NoFault
  <2>. QED BY <2>1, <2>2, PlacesStay
<1>4. CASE UnsharePartial
  <2>1. fs'["dest"] = fs["dest"] /\ fs'["old"] = fs["old"]
    BY <1>4, DropSharedUnlinks, RootFacts, UnlinkFacts
       DEF UnsharePartial, Unshare, Unshared, DropPartial, RemoveSome
  <2>2. pc \in {"unshare", "dropPartial"} /\ (UNCHANGED faults \/ FsFault)
    BY <1>4 DEF UnsharePartial, Unshare, Unshared, DropPartial, NoFault
  <2>. QED BY <2>1, <2>2, PlacesStay
<1>5. CASE Stage
  <2>1. fs'["dest"] = fs["dest"] /\ fs'["old"] = fs["old"]
    <3>1. CASE \E p \in Path : StageLink(p) \/ StageOpen(p)
      BY <3>1 DEF StageLink, StageOpen, Name, TypeOK
    <3>2. CASE Clear \/ ClearShared
      BY <3>2, DropSharedUnlinks, RootFacts, UnlinkFacts
         DEF Clear, ClearShared, RemoveSome
    <3>3. CASE ResumeDirStuck \/ \E m \in Manifests : BeginStage(m)
      BY <3>3 DEF ResumeDirStuck, BeginStage, TypeOK
    <3>. QED BY <1>5, <3>1, <3>2, <3>3
             DEF Stage, BeginFails, StageCopied, StageDownloaded, StageMismatch,
                 StageCut, StageFails, Received, LocalDone, RemoteDone
  <2>2. UNCHANGED faults \/ FsFault \/ NetFault
    BY <1>5 DEF Stage, BeginStage, BeginFails, StageLink, StageOpen, StageCopied,
                StageDownloaded, StageMismatch, StageCut, StageFails, LocalDone,
                Clear, ClearShared, RemoteDone, ResumeDirStuck, NoFault, DownloadFault
  <2>3. pc \in Staging \cup {"fetch"}
    BY <1>5 DEF Stage, BeginStage, BeginFails, StageLink, StageOpen, StageCopied,
                StageDownloaded, StageMismatch, StageCut, StageFails, Ready, LocalDone,
                Clear, ClearShared, RemoteDone, ResumeDirStuck, JobOK, Staging
  <2>. QED BY <2>1, <2>2, <2>3, PlacesStay DEF Staging
<1>6. CASE Verified \/ Refused
  <2>1. pc = "verify" /\ UNCHANGED fs /\ (UNCHANGED faults \/ NetFault)
    BY <1>6 DEF Verified, Refused, NoFault
  <2>. QED BY <2>1, PlacesStay
<1>7. CASE SetAside
  BY <1>7 DEF SetAside, StrandedOK, NoFault, faults
<1>8. CASE Install
  BY <1>8, MoveFacts DEF Install, AtInstall, DestOK, JobOK, StrandedOK
<1>9. CASE InstallFails
  BY <1>9 DEF InstallFails, AtInstall, FsFault, DestOK, StrandedOK, Swapping, Staging,
              TypeOK
<1>10. CASE Rollback
  <2>1. CASE fs' = Move(fs, "old", "dest")
    BY <1>10, <2>1, MoveFacts DEF Rollback, DestOK, StrandedOK
  <2>2. CASE FsFault
    BY <1>10, <2>2 DEF Rollback, FsFault, DestOK, StrandedOK, TypeOK
  <2>. QED BY <1>10, <2>1, <2>2 DEF Rollback
<1>11. CASE RemoveOld
  <2>1. fs["dest"] # Absent /\ fs'["dest"] = fs["dest"]
    BY <1>11, RootFacts, UnlinkFacts DEF RemoveOld, RemoveSome, DestOK
  <2>. QED BY <2>1 DEF StrandedOK
<1>12. CASE Kill
  BY <1>12 DEF Kill, StrandedOK, TypeOK
<1>13. CASE (\E c \in Calls : Start(c)) \/ \E p \in Path, d \in Data : OutsideWrite(p, d)
  BY <1>13 DEF Start, OutsideWrite, StrandedOK, faults, Staging
<1>. QED BY <1>1, <1>2, <1>3, <1>4, <1>5, <1>6, <1>7, <1>8, <1>9, <1>10, <1>11, <1>12,
            <1>13 DEF Next, Step, Swap

-----------------------------------------------------------------------------
(* The theorems.                                                           *)

\* The two further parts hold as well.
THEOREM EndsInvariance == Spec => [](IInv /\ KeptOK /\ StrandedOK)
<1>1. Init => KeptOK /\ StrandedOK
  <2>1. ASSUME Init
        PROVE  KeptOK /\ StrandedOK
    <3>1. \E d \in Disks : fs = d.fs /\ file = d.file
      BY <2>1 DEF Init
    <3>2. fs["old"] = Absent
      BY <3>1, DiskAssumption DEF WellFormed
    <3>. QED BY <2>1, <3>2 DEF Init, KeptOK, StrandedOK
  <2>. QED BY <2>1
<1>2. IInv /\ KeptOK /\ StrandedOK /\ [Next]_vars => (KeptOK /\ StrandedOK)'
  BY NextKept, NextStranded
<1>. QED BY <1>1, <1>2, Invariance, PTL DEF Spec

\* After a success or a recovery no live file has a second name in tmp or in the
\* partial tree (NoSecondNames).
THEOREM Unlinked == Spec => []NoSecondNames
<1>1. IInv /\ KeptOK => NoSecondNames
  BY DEF IInv, TypeOK, KeptOK, NoSecondNames, Inodes, Apart, Holds
<1>. QED BY <1>1, EndsInvariance, PTL

\* Recover returns nil only when tmp and old are gone (RecoveryCleans).
THEOREM Cleaned == Spec => []RecoveryCleans
<1>1. KeptOK => RecoveryCleans
  BY DEF KeptOK, RecoveryCleans
<1>. QED BY <1>1, EndsInvariance, PTL

\* It takes a kill or two failed operations for a call to end with the
\* destination missing while its old tree waits for recovery (RollsBack).
THEOREM RolledBack == Spec => []RollsBack
<1>1. IInv /\ StrandedOK => RollsBack
  BY DEF IInv, TypeOK, StrandedOK, RollsBack
<1>. QED BY <1>1, EndsInvariance, PTL

-----------------------------------------------------------------------------
(* What an attempt got hold of.                                            *)

\* Faults are counted and never forgotten.
LEMMA FaultsGrow ==
    ASSUME IInv, [Next]_vars, fsFaults' = 0, kills' = 0
    PROVE  fsFaults = 0 /\ kills = 0 /\ ~FsFault /\ ~Kill
<1>1. fsFaults \in Nat /\ kills \in Nat
  BY BoundAssumption DEF IInv, TypeOK
<1>2. ~FsFault /\ ~Kill
  BY <1>1 DEF FsFault, Kill
<1>3. (UNCHANGED fsFaults /\ UNCHANGED kills) => fsFaults = 0 /\ kills = 0
  OBVIOUS
<1>4. UNCHANGED fsFaults /\ UNCHANGED kills
  <2>1. CASE Recover \/ KeepStaged \/ UnsharePartial
    BY <1>2, <2>1
       DEF Recover, NothingOld, RestoreOld, RemoveStaleOld, KeepStaged, NothingStaged,
           DropStagedShared, Keep, KeepFails, KeepRefused, DiscardStaged, DiscardFails,
           UnsharePartial, Unshare, Unshared, DropPartial, NoFault, faults
  <2>2. CASE Stage
    BY <1>2, <2>2
       DEF Stage, BeginStage, BeginFails, StageLink, StageOpen, StageCopied,
           StageDownloaded, StageMismatch, StageCut, StageFails, LocalDone, Clear,
           ClearShared, RemoteDone, ResumeDirStuck, NoFault, NetFault, DownloadFault,
           faults
  <2>3. CASE Swap
    BY <1>2, <2>3
       DEF Swap, Verified, Refused, SetAside, Install, InstallFails, Rollback, RemoveOld,
           NoFault, NetFault, faults
  <2>4. CASE (\E c \in Calls : Start(c)) \/ \E p \in Path, d \in Data : OutsideWrite(p, d)
    BY <2>4 DEF Start, OutsideWrite, faults
  <2>5. CASE UNCHANGED vars
    BY <2>5 DEF vars, faults
  <2>. QED BY <1>2, <2>1, <2>2, <2>3, <2>4, <2>5 DEF Next, Step
<1>. QED BY <1>2, <1>3, <1>4

\* The names of dest and old, wherever they are now, were names of theirs.
LiveNames ==
    \A s \in {"dest", "old"}, q \in Path : Holds(fs', s, q) =>
        \E t \in {"dest", "old"} : Holds(fs, t, q) /\ fs[t][q] = fs'[s][q]

\* A file of the partial tree stays what it is if its name does and nothing but
\* tmp gets another.
LEMMA SavedStays ==
    ASSUME NEW c, NEW l \in Path, SavedAt(l, c),
           Holds(fs', "partial", l), fs'["partial"][l] = fs["partial"][l],
           file'[fs["partial"][l]].data = c,
           \A q \in Path : Holds(fs', "partial", q) =>
              Holds(fs, "partial", q) /\ fs'["partial"][q] = fs["partial"][q],
           LiveNames
    PROVE  SavedAt(l, c)' /\ Saved(c)'
<1>1. SavedAt(l, c)'
  BY DEF SavedAt, LiveNames, Sibling
<1>. QED BY <1>1 DEF Saved

\* And so does a staged file.
LEMMA StagedStays ==
    ASSUME NEW c, NEW p \in Path, StagedAt(p, c),
           Holds(fs', "tmp", p), fs'["tmp"][p] = fs["tmp"][p],
           file'[fs["tmp"][p]].data = c,
           \A q \in Path : Holds(fs', "tmp", q) /\ fs'["tmp"][q] = fs["tmp"][p] => q = p,
           LiveNames
    PROVE  StagedAt(p, c)'
BY DEF StagedAt, LiveNames, Sibling

\* Removing other names does neither of them any harm.
LEMMA UnlinkKeeps ==
    ASSUME IInv, NEW s \in Sibling, NEW p \in Path, Holds(fs, s, p), Unlink(s, p), NEW c
    PROVE  /\ \A l \in Path : SavedAt(l, c) /\ ~(s = "partial" /\ l = p) => Saved(c)'
           /\ \A q \in Path : StagedAt(q, c) /\ ~(s = "tmp" /\ q = p) => StagedAt(q, c)'
<1>1. /\ \A t \in Sibling, q \in Path :
            Holds(fs', t, q) <=> Holds(fs, t, q) /\ ~(t = s /\ q = p)
      /\ \A t \in Sibling, q \in Path : Holds(fs', t, q) => fs'[t][q] = fs[t][q]
      /\ \A t \in Sibling, q \in Path :
            Holds(fs', t, q) => file'[fs'[t][q]] = file[fs'[t][q]]
  BY UnlinkFacts DEF IInv
<1>2. LiveNames
  BY <1>1 DEF LiveNames, Sibling
<1>3. ASSUME NEW l \in Path, SavedAt(l, c), ~(s = "partial" /\ l = p)
      PROVE  Saved(c)'
  BY <1>1, <1>2, <1>3, SavedStays DEF SavedAt, Sibling
<1>4. ASSUME NEW q \in Path, StagedAt(q, c), ~(s = "tmp" /\ q = p)
      PROVE  StagedAt(q, c)'
  BY <1>1, <1>2, <1>4, StagedStays DEF StagedAt, Sibling
<1>. QED BY <1>3, <1>4

\* dropShared takes a name of a file that has two.
LEMMA DropSharedTakes ==
    ASSUME NEW s \in Sibling, DropShared(s)
    PROVE  \E p \in Path : Holds(fs, s, p) /\ ~Sole(fs, s, p) /\ Unlink(s, p)
<1>1. Shared(fs, s) \in SUBSET Path /\ Shared(fs, s) # {}
  BY DEF DropShared, Shared
<1>2. NextShared(s) \in Shared(fs, s)
  BY <1>1, Lexical DEF NextShared
<1>. QED BY <1>2 DEF DropShared, Shared

\* Nor does a step that leaves the disk alone, or takes an empty directory.
LEMMA DiskKeeps ==
    ASSUME UNCHANGED disk, NEW c
    PROVE  /\ Saved(c) => Saved(c)'
           /\ \A q \in Path : StagedAt(q, c) => StagedAt(q, c)'
BY DEF disk, Saved, SavedAt, StagedAt, Holds

LEMMA RootKeeps ==
    ASSUME IInv, NEW s \in Sibling, RemoveRoot(s), NEW c
    PROVE  /\ Saved(c) => Saved(c)'
           /\ \A q \in Path : StagedAt(q, c) => StagedAt(q, c)'
<1>1. file' = file /\ FewerNames
      /\ \A t \in Sibling, q \in Path : Holds(fs', t, q) <=> Holds(fs, t, q)
  BY RootFacts DEF IInv
<1>2. \A t \in Sibling, q \in Path : Holds(fs, t, q) => fs'[t][q] = fs[t][q]
  BY <1>1 DEF FewerNames
<1>3. LiveNames
  BY <1>1, <1>2 DEF LiveNames, Sibling
<1>4. ASSUME NEW l \in Path, SavedAt(l, c)
      PROVE  Saved(c)'
  BY <1>1, <1>2, <1>3, <1>4, SavedStays DEF SavedAt, Sibling
<1>5. ASSUME NEW q \in Path, StagedAt(q, c)
      PROVE  StagedAt(q, c)'
  BY <1>1, <1>2, <1>3, <1>5, StagedStays DEF StagedAt, Sibling
<1>. QED BY <1>4, <1>5 DEF Saved

Smooth == SmoothOK /\ TakenOK /\ SavedOK

LEMMA RecoverKeeps == ASSUME IInv, Smooth, Recover, ~FsFault PROVE Smooth'
<1>. USE DEF IInv, Sibling
<1>1. /\ pc = "recover" /\ pc' \in {"recover", "keep"}
      /\ UNCHANGED <<attempt, err, had>>
  BY DEF Recover, NothingOld, RestoreOld, RemoveStaleOld, ctl
<1>2. ASSUME NEW c \in had
      PROVE  Saved(c)'
  <2>1. PICK l \in Path : SavedAt(l, c)
    BY <1>1 DEF Smooth, SavedOK, Saved
  <2>2. CASE UNCHANGED disk
    BY <2>1, <2>2, DiskKeeps DEF Saved
  <2>3. CASE RestoreOld /\ fs' = Move(fs, "old", "dest")
    <3>1. /\ fs'["dest"] = fs["old"] /\ fs'["old"] = Absent
          /\ fs'["partial"] = fs["partial"] /\ file' = file
      BY <2>3, MoveFacts DEF RestoreOld
    <3>2. LiveNames
      BY <3>1 DEF LiveNames, Holds
    <3>. QED BY <2>1, <3>1, <3>2, SavedStays DEF SavedAt, Holds
  <2>4. CASE RemoveSome("old")
    BY <2>1, <2>4, UnlinkKeeps DEF RemoveSome
  <2>5. CASE RemoveRoot("old")
    BY <2>1, <2>5, RootKeeps DEF Saved
  <2>. QED BY <2>2, <2>3, <2>4, <2>5
           DEF Recover, NothingOld, RestoreOld, RemoveStaleOld, disk
<1>. QED BY <1>1, <1>2 DEF Smooth, SmoothOK, TakenOK, SavedOK

\* The end of keepStaged: the attempt's contents are in the partial tree.
LEMMA AfterKeepKeeps ==
    ASSUME Smooth, AfterKeep(err), UNCHANGED had, \A c \in had : Saved(c)'
    PROVE  Smooth'
BY DEF Smooth, SmoothOK, TakenOK, SavedOK, AfterKeep, End, ctl

LEMMA KeepStagedKeeps == ASSUME IInv, Smooth, KeepStaged, ~FsFault PROVE Smooth'
<1>. USE DEF IInv, Sibling
<1>1. CASE NothingStaged
  <2>1. \A c \in had : Saved(c)
    BY <1>1 DEF NothingStaged, Smooth, SavedOK, Staged, StagedAt, Holds
  <2>. QED BY <1>1, <2>1, DiskKeeps, AfterKeepKeeps DEF NothingStaged
<1>2. CASE DropStagedShared
  <2>1. /\ pc = "keep" /\ pc' = "keep" /\ DropShared("tmp")
        /\ UNCHANGED <<attempt, err, had, writing>>
    BY <1>2 DEF DropStagedShared, ctl, job
  <2>2. PICK p \in Path : Holds(fs, "tmp", p) /\ ~Sole(fs, "tmp", p) /\ Unlink("tmp", p)
    BY <2>1, DropSharedTakes
  <2>3. fs'["partial"] = fs["partial"]
    BY <2>2, UnlinkFacts
  <2>4. ASSUME NEW c \in had
        PROVE  Saved(c)' \/ (fs'["partial"] = Absent /\ Staged(c)')
    <3>1. CASE Saved(c)
      BY <2>2, <3>1, UnlinkKeeps DEF Saved
    <3>2. CASE fs["partial"] = Absent /\ Staged(c)
      <4>1. PICK q \in Path \ writing : StagedAt(q, c)
        BY <3>2 DEF Staged
      <4>2. q # p
        BY <2>2, <3>2, <4>1 DEF StagedAt, Sole, Holds
      <4>3. StagedAt(q, c)'
        BY <2>2, <4>1, <4>2, UnlinkKeeps
      <4>. QED BY <2>1, <2>3, <3>2, <4>1, <4>3 DEF Staged
    <3>. QED BY <2>1, <3>1, <3>2 DEF Smooth, SavedOK
  <2>. QED BY <2>1, <2>4 DEF Smooth, SmoothOK, TakenOK, SavedOK
<1>3. CASE Keep
  <2>1. /\ fs["partial"] = Absent /\ fs'["partial"] = fs["tmp"] /\ file' = file
        /\ fs'["tmp"] = Absent
        /\ fs'["dest"] = fs["dest"] /\ fs'["old"] = fs["old"]
    BY <1>3, MoveFacts DEF Keep
  <2>2. ASSUME NEW c \in had
        PROVE  Saved(c)'
    <3>1. PICK q \in Path : StagedAt(q, c)
      BY <1>3 DEF Keep, Smooth, SavedOK, Staged, Saved, SavedAt, Holds
    <3>2. SavedAt(q, c)'
      BY <2>1, <3>1 DEF SavedAt, StagedAt, Holds
    <3>. QED BY <3>2 DEF Saved
  <2>. QED BY <1>3, <2>2, AfterKeepKeeps DEF Keep
<1>4. CASE KeepRefused
  <2>1. \A c \in had : Saved(c)'
    BY <1>4, DiskKeeps DEF KeepRefused, Smooth, SavedOK
  <2>. QED BY <1>4, <2>1 DEF KeepRefused, Smooth, SmoothOK, TakenOK, SavedOK, ctl
<1>5. CASE DiscardStaged
  <2>1. pc = "discard" /\ UNCHANGED had /\ \A c \in had : Saved(c)
    BY <1>5 DEF DiscardStaged, Smooth, SavedOK
  <2>2. CASE RemoveSome("tmp") /\ UNCHANGED <<pc, ctl, err, man>>
    <3>1. \A c \in had : Saved(c)'
      BY <2>1, <2>2, UnlinkKeeps DEF RemoveSome, Saved
    <3>. QED BY <2>1, <2>2, <3>1 DEF Smooth, SmoothOK, TakenOK, SavedOK, ctl
  <2>3. CASE RemoveRoot("tmp") /\ AfterKeep(err)
    BY <2>1, <2>3, RootKeeps, AfterKeepKeeps
  <2>. QED BY <1>5, <2>2, <2>3 DEF DiscardStaged
<1>. QED BY <1>1, <1>2, <1>3, <1>4, <1>5 DEF KeepStaged, KeepFails, DiscardFails

\* unsharePartial meets no second name of a file that an attempt has saved.
LEMMA UnsharePartialKeeps ==
    ASSUME IInv, KeptOK, Smooth, UnsharePartial, ~FsFault
    PROVE  Smooth'
<1>. USE DEF IInv, Sibling
<1>1. /\ pc = "unshare" /\ err = "none" /\ fs["tmp"] = Absent /\ UNCHANGED had
      /\ \A c \in had : Saved(c)
  BY DEF UnsharePartial, Unshare, Unshared, DropPartial, Smooth, SmoothOK, SavedOK,
         ControlOK, KeptOK
<1>2. CASE Unshare
  <2>1. DropShared("partial") /\ UNCHANGED <<pc, attempt, err>>
    BY <1>2 DEF Unshare, ctl
  <2>2. PICK p \in Path :
           Holds(fs, "partial", p) /\ ~Sole(fs, "partial", p) /\ Unlink("partial", p)
    BY <2>1, DropSharedTakes
  <2>3. ASSUME NEW c \in had
        PROVE  Saved(c)'
    <3>1. PICK l \in Path : SavedAt(l, c)
      BY <1>1 DEF Saved
    <3>2. l # p
      BY <1>1, <2>2, <3>1 DEF SavedAt, Sole, Holds
    <3>. QED BY <2>2, <3>1, <3>2, UnlinkKeeps
  <2>. QED BY <1>1, <2>1, <2>3 DEF Smooth, SmoothOK, TakenOK, SavedOK
<1>3. CASE Unshared
  <2>1. \A c \in had : Saved(c)'
    BY <1>1, <1>3, DiskKeeps DEF Unshared
  <2>. QED BY <1>1, <1>3, <2>1
           DEF Unshared, AfterRecovery, End, Smooth, SmoothOK, TakenOK, SavedOK
<1>. QED BY <1>1, <1>2, <1>3 DEF UnsharePartial, DropPartial

\* Staging begins: what is had is what is to be taken over.
LEMMA BeginStageKeeps ==
    ASSUME IInv, Smooth, NEW m \in Manifests, BeginStage(m), ~FsFault
    PROVE  Smooth'
<1>. USE DEF IInv, Sibling
<1>1. /\ pc = "fetch" /\ pc' = "local" /\ man' = m /\ index' = LeftoverIndex
      /\ UNCHANGED <<file, attempt>> /\ attempt > 0
      /\ todo' = {p \in Path : m[p] # Nil}
      /\ fs'["partial"] = fs["partial"]
  BY DEF BeginStage, ctl, ControlOK, TypeOK
<1>2. \A c \in had' : \E p \in Path :
         /\ m[p] # Nil /\ m[p].data = c /\ index'[c] # Nil
         /\ \A r \in Path : live'[r] # Nil => live'[r].data # c
  BY DEF BeginStage
<1>3. \A c \in had' : \E p \in Path : Reused(p)' /\ man'[p].data = c
  BY <1>1, <1>2 DEF Reused, Classify, Decision, Leftover
<1>4. ASSUME NEW p \in Path, Reused(p)'
      PROVE  /\ file'[fs'["partial"][Leftover(p)']].data = man'[p].data
             /\ p \in todo'
  <2>1. m[p] # Nil /\ Leftover(p)' = LeftoverIndex[m[p].data] /\ Leftover(p)' # Nil
    BY <1>1, <1>4 DEF Reused, Classify, Decision, Leftover
  <2>2. m[p].data \in Content
    BY <2>1, EntryType
  <2>. QED BY <1>1, <2>1, <2>2, LeftoverIndexType
<1>5. TakenOK'
  BY <1>4 DEF TakenOK
<1>6. SmoothOK' /\ SavedOK'
  BY <1>1, <1>3 DEF SmoothOK, SavedOK, TypeOK
<1>. QED BY <1>5, <1>6 DEF Smooth

\* What is staged already stays so when a name is added to tmp that is not its own.
LEMMA NameKeeps ==
    ASSUME IInv, IInv', pc' \in Staging, NEW p \in Path, NEW i \in Inode,
           fs["tmp"] # Absent, fs["tmp"][p] = Nil, fs' = Name(fs, "tmp", p, i),
           \A s \in Sibling, q \in Path :
              Holds(fs, s, q) => file'[fs[s][q]] = file[fs[s][q]],
           NEW q \in Path, NEW c, StagedAt(q, c)
    PROVE  q # p /\ StagedAt(q, c)'
<1>. USE DEF IInv, Sibling
<1>1. /\ fs'["tmp"] = [fs["tmp"] EXCEPT ![p] = i] /\ fs["tmp"] \in Tree
      /\ \A t \in Sibling : t # "tmp" => fs'[t] = fs[t]
  BY DEF TypeOK, Name
<1>2. q # p /\ Holds(fs', "tmp", q) /\ fs'["tmp"][q] = fs["tmp"][q]
  BY <1>1, TreeNotAbsent DEF StagedAt, Holds, TypeOK, Tree
<1>3. \A r \in Path : Holds(fs', "tmp", r) /\ fs'["tmp"][r] = fs["tmp"][q] => r = q
  BY <1>2 DEF LinksOK, Staging, Distinct, Holds
<1>4. LiveNames
  BY <1>1 DEF LiveNames, Holds
<1>5. file'[fs["tmp"][q]].data = c
  BY DEF StagedAt
<1>. QED BY <1>2, <1>3, <1>4, <1>5, StagedStays

LEMMA StageLinkKeeps ==
    ASSUME IInv, IInv', Smooth, NEW p \in Path, StageLink(p)
    PROVE  Smooth'
<1>. DEFINE i == Source(p)
<1>. USE DEF IInv, Sibling
<1>1. /\ pc = "local" /\ pc' = "local" /\ fs["tmp"] # Absent /\ fs["tmp"][p] = Nil
      /\ p \in todo /\ todo' = todo \ {p} /\ fs' = Name(fs, "tmp", p, i)
      /\ UNCHANGED <<file, attempt, err, man, live, index, writing, had>>
  BY DEF StageLink, Ready, ctl, JobOK, Staging
<1>2. i \in Inode
  BY LinkSource DEF Holds, TypeOK, Tree
<1>3. \A q \in Path : (Reused(q)' <=> Reused(q)) /\ Leftover(q)' = Leftover(q)
  BY <1>1 DEF Reused, Classify, Leftover
<1>4. fs'["partial"] = fs["partial"]
  BY <1>1 DEF Name, TypeOK
<1>5. ASSUME NEW q \in Path, Reused(q), q \notin todo \cup writing
      PROVE  StagedAt(q, man[q].data)'
  BY <1>1, <1>2, <1>5, NameKeeps DEF Smooth, TakenOK, Staging
<1>6. ASSUME Reused(p)
      PROVE  StagedAt(p, man[p].data)'
  <2>1. i = fs["partial"][Leftover(p)] /\ Holds(fs, "partial", Leftover(p))
        /\ Leftover(p) \in Path /\ file[i].data = man[p].data
    <3>1. man[p].data \in Content
      BY <1>1, <1>6, EntryType DEF Reused, JobOK, Staging
    <3>2. Leftover(p) # Nil
      BY <1>6 DEF Reused, Classify, Decision, Leftover
    <3>. QED BY <1>1, <1>6, <3>1, <3>2
             DEF Source, Reused, HashedOK, Leftover, TypeOK, Smooth, TakenOK
  <2>2. Private
    BY <1>1 DEF PartialOK, Staging
  <2>3. fs'["tmp"] = [fs["tmp"] EXCEPT ![p] = i] /\ fs["tmp"] \in Tree
        /\ \A t \in Sibling : t # "tmp" => fs'[t] = fs[t]
    BY <1>1, <1>2 DEF TypeOK, Name
  <2>4. Holds(fs', "tmp", p) /\ fs'["tmp"][p] = i
    BY <1>2, <2>3, TreeNotAbsent, NilAssumption DEF Holds, TypeOK, Tree
  <2>5. \A r \in Path : Holds(fs', "tmp", r) /\ fs'["tmp"][r] = i => r = p
    BY <1>1, <2>4 DEF LinksOK, Staging, Distinct, Holds
  <2>6. \A t \in {"dest", "old"}, r \in Path : Holds(fs', t, r) => fs'[t][r] # i
    BY <2>1, <2>2, <2>3 DEF Private, Holds
  <2>. QED BY <1>1, <2>1, <2>4, <2>5, <2>6 DEF StagedAt
<1>7. TakenOK'
  BY <1>1, <1>3, <1>4, <1>5, <1>6 DEF Smooth, TakenOK
<1>8. SmoothOK' /\ SavedOK'
  BY <1>1, <1>3 DEF Smooth, SmoothOK, SavedOK
<1>. QED BY <1>7, <1>8 DEF Smooth

LEMMA StageOpenKeeps ==
    ASSUME IInv, IInv', Smooth, NEW p \in Path, StageOpen(p)
    PROVE  Smooth'
<1>. USE DEF IInv, Sibling
<1>1. /\ pc \in {"local", "remote"} /\ pc' = pc /\ p \in todo
      /\ fs["tmp"] # Absent /\ fs["tmp"][p] = Nil
      /\ todo' = todo \ {p} /\ writing' = writing \cup {p}
      /\ UNCHANGED <<attempt, err, man, live, index, had>>
  BY DEF StageOpen, Ready, ctl, JobOK, Staging
<1>2. PICK i \in Inode :
         /\ file[i] = Nil /\ fs' = Name(fs, "tmp", p, i)
         /\ file' = [file EXCEPT ![i] = [data |-> Torn, mode |-> man[p].mode]]
  BY DEF StageOpen, FreeInodes
<1>3. \A t \in Sibling, q \in Path : Holds(fs, t, q) => file'[fs[t][q]] = file[fs[t][q]]
  BY <1>2 DEF Accounted, TypeOK
<1>4. \A q \in Path : (Reused(q)' <=> Reused(q)) /\ Leftover(q)' = Leftover(q)
  BY <1>1 DEF Reused, Classify, Leftover
<1>5. fs'["partial"] = fs["partial"]
  BY <1>2 DEF Name, TypeOK
<1>6. ASSUME NEW q \in Path, NEW c, StagedAt(q, c)
      PROVE  q # p /\ StagedAt(q, c)'
  BY <1>1, <1>2, <1>3, <1>6, NameKeeps DEF Staging
<1>7. TakenOK'
  <2>1. \A q \in Path : pc = "local" /\ Reused(q) => Holds(fs, "partial", Leftover(q))
                                                   /\ Leftover(q) \in Path
    BY EntryType DEF Reused, Classify, Decision, Leftover, HashedOK, JobOK, Staging, TypeOK
  <2>. QED BY <1>1, <1>3, <1>4, <1>5, <1>6, <2>1 DEF Smooth, TakenOK
<1>8. SavedOK'
  <2>1. \A c : Staged(c) => Staged(c)'
    BY <1>1, <1>6 DEF Staged
  <2>. QED BY <1>1, <1>4, <2>1 DEF Smooth, SavedOK
<1>9. SmoothOK'
  BY <1>1, <1>5 DEF Smooth, SmoothOK
<1>. QED BY <1>7, <1>8, <1>9 DEF Smooth

\* The bytes of an entry arrive in a file that has no other name.
LEMMA ReceivedKeeps ==
    ASSUME IInv, Smooth, NEW p \in writing, NEW d \in Data, Received(p, d),
           pc = "local" /\ Reused(p) => d = man[p].data,
           \A c \in had' : c \in had \/ (pc # "local" /\ c = d)
    PROVE  Smooth'
<1>. DEFINE i == fs["tmp"][p]
<1>. USE DEF IInv, Sibling
<1>1. /\ pc \in {"local", "remote"} /\ p \in Path /\ Sole(fs, "tmp", p)
      /\ Holds(fs, "tmp", p) /\ i \in Inode /\ attempt > 0
  BY DEF JobOK, TypeOK, Labels, Staging, Holds, Tree, ControlOK
<1>2. /\ file' = [file EXCEPT ![i].data = d] /\ writing' = writing \ {p}
      /\ UNCHANGED <<fs, pc, attempt, man, live, index, todo>>
  BY DEF Received, ctl
<1>3. file'[i].data = d
  BY <1>1, <1>2 DEF TypeOK, Accounted, File
<1>4. \A s \in Sibling, q \in Path :
         Holds(fs, s, q) /\ ~(s = "tmp" /\ q = p) => file'[fs[s][q]] = file[fs[s][q]]
  BY <1>1, <1>2 DEF Sole, TypeOK
<1>5. \A q \in Path : (Reused(q)' <=> Reused(q)) /\ Leftover(q)' = Leftover(q)
  BY <1>2 DEF Reused, Classify, Leftover
<1>6. StagedAt(p, d)'
  BY <1>1, <1>2, <1>3 DEF StagedAt, Sole, Holds
<1>7. \A q \in Path, c \in Content : StagedAt(q, c) /\ q # p => StagedAt(q, c)'
  BY <1>2, <1>4 DEF StagedAt, Holds
<1>8. \A q \in Path : pc = "local" /\ Reused(q) =>
         /\ man[q].data \in Content
         /\ Holds(fs, "partial", Leftover(q)) /\ Leftover(q) \in Path
  BY EntryType DEF Reused, Classify, Decision, Leftover, HashedOK, JobOK, Staging, TypeOK
<1>9. TakenOK'
  <2>1. ASSUME NEW q \in Path, pc = "local", Reused(q)
        PROVE  /\ file'[fs'["partial"][Leftover(q)]].data = man[q].data
               /\ q \notin todo' \cup writing' => StagedAt(q, man[q].data)'
    <3>1. file'[fs'["partial"][Leftover(q)]].data = man[q].data
      <4>1. file[fs["partial"][Leftover(q)]].data = man[q].data
        BY <2>1 DEF Smooth, TakenOK
      <4>2. file'[fs["partial"][Leftover(q)]] = file[fs["partial"][Leftover(q)]]
        BY <1>4, <1>8, <2>1
      <4>. QED BY <1>2, <4>1, <4>2
    <3>2. CASE q = p
      <4>1. man'[p].data = d
        BY <1>2, <2>1, <3>2
      <4>. QED BY <1>2, <1>6, <3>1, <3>2, <4>1 DEF StagedAt
    <3>3. CASE q # p
      BY <1>2, <1>7, <1>8, <2>1, <3>1, <3>3 DEF Smooth, TakenOK
    <3>. QED BY <3>2, <3>3
  <2>. QED BY <1>2, <1>5, <2>1 DEF TakenOK
<1>10. SavedOK'
  <2>1. ASSUME NEW c \in had', pc # "local"
        PROVE  Staged(c)'
    <3>1. CASE c = d
      BY <1>1, <1>2, <1>6, <3>1 DEF Staged
    <3>2. CASE c \in had
      <4>1. PICK q \in Path \ writing : StagedAt(q, c)
        BY <1>1, <2>1, <3>2 DEF Smooth, SavedOK, Staged
      <4>2. StagedAt(q, c)'
        BY <1>7, <3>2, <4>1 DEF TypeOK
      <4>. QED BY <1>2, <4>1, <4>2 DEF Staged
    <3>. QED BY <2>1, <3>1, <3>2
  <2>2. ASSUME NEW c \in had', pc = "local"
        PROVE  \E q \in Path : Reused(q)' /\ man'[q].data = c
    BY <1>2, <1>5, <2>2 DEF Smooth, SavedOK
  <2>. QED BY <1>1, <1>2, <2>1, <2>2 DEF SavedOK
<1>11. SmoothOK'
  BY <1>1, <1>2 DEF Smooth, SmoothOK, TypeOK
<1>. QED BY <1>9, <1>10, <1>11 DEF Smooth

\* A copy of a leftover has the leftover's content, a download what it had to.
LEMMA WriteKeeps ==
    ASSUME IInv, Smooth, NEW p \in Path,
           \/ StageCopied(p) \/ StageDownloaded(p)
           \/ \E d \in Data : StageMismatch(p, d)
    PROVE  Smooth'
<1>. USE DEF IInv, Sibling
<1>1. /\ p \in writing /\ pc \in Staging /\ man[p].data \in Content
      /\ (pc = "local" <=> Local(p))
  BY EntryType DEF StageCopied, StageDownloaded, StageMismatch, JobOK, Staging
<1>2. CASE StageCopied(p)
  <2>1. \E s \in Sibling, q \in Path : Holds(fs, s, q) /\ Source(p) = fs[s][q]
    BY <1>1, <1>2 DEF StageCopied, Source, Local, Classify, Decision, HashedOK, Leftover, TypeOK
  <2>2. file[Source(p)].data \in Data
    BY <2>1 DEF TypeOK, Tree, Holds, Accounted, File
  <2>3. Reused(p) /\ pc = "local" => file[Source(p)].data = man[p].data
    BY DEF Reused, Source, Smooth, TakenOK
  <2>. QED BY <1>1, <1>2, <2>2, <2>3, ReceivedKeeps DEF StageCopied
<1>3. CASE StageDownloaded(p)
  BY <1>1, <1>3, ReceivedKeeps DEF StageDownloaded, Data
<1>4. CASE \E d \in Data : StageMismatch(p, d)
  <2>1. PICK d \in Data : StageMismatch(p, d)
    BY <1>4
  <2>. QED BY <1>1, <2>1, ReceivedKeeps DEF StageMismatch
<1>. QED BY <1>2, <1>3, <1>4

\* The ends of staging: what was taken over is staged, or is still kept.
LEMMA LocalDoneKeeps == ASSUME IInv, Smooth, LocalDone PROVE Smooth'
<1>. USE DEF IInv, Sibling
<1>1. /\ pc = "local" /\ writing = {} /\ writing' = {} /\ UNCHANGED <<disk, attempt, err, had>>
      /\ attempt > 0
      /\ \A p \in todo : ~Local(p)
      /\ pc' = "clear" \/ pc' = "keep"
  BY DEF LocalDone, ForgetJob, job, ctl, ControlOK, Staging
<1>2. ASSUME NEW c \in had
      PROVE  Saved(c)' /\ Staged(c)'
  <2>1. PICK p \in Path : Reused(p) /\ man[p].data = c
    BY <1>1 DEF Smooth, SavedOK
  <2>2. StagedAt(p, c)
    BY <1>1, <2>1 DEF Smooth, TakenOK, Local, Reused
  <2>3. Holds(fs, "partial", Leftover(p)) /\ Leftover(p) \in Path
    BY <1>1, <1>2, <2>1 DEF HashedOK, Reused, Classify, Decision, Leftover, TypeOK
  <2>4. SavedAt(Leftover(p), c)
    BY <1>1, <2>1, <2>3 DEF Smooth, TakenOK, PartialOK, Private, Staging, SavedAt
  <2>5. Saved(c) /\ Saved(c)'
    BY <1>1, <2>3, <2>4, DiskKeeps DEF Saved
  <2>6. StagedAt(p, c)'
    BY <1>1, <2>2, DiskKeeps
  <2>. QED BY <1>1, <2>5, <2>6 DEF Staged
<1>. QED BY <1>1, <1>2 DEF Smooth, SmoothOK, TakenOK, SavedOK, TypeOK

LEMMA ClearKeeps == ASSUME IInv, Smooth, Clear, ~FsFault PROVE Smooth'
<1>. USE DEF IInv, Sibling
<1>1. /\ pc = "clear" /\ UNCHANGED <<attempt, err, had, writing>>
      /\ pc' \in {"clear", "remote"}
      /\ pc' = "remote" => fs'["partial"] = Absent
  BY DEF Clear, RemoveRoot, ctl, job, disk, TypeOK
<1>2. ASSUME NEW c \in had
      PROVE  Staged(c)'
  <2>1. PICK p \in Path \ writing : StagedAt(p, c)
    BY <1>1 DEF Smooth, SavedOK, Staged
  <2>2. StagedAt(p, c)'
    <3>1. CASE UNCHANGED disk
      BY <2>1, <3>1, DiskKeeps
    <3>2. CASE RemoveSome("partial")
      BY <2>1, <3>2, UnlinkKeeps DEF RemoveSome
    <3>3. CASE RemoveRoot("partial")
      BY <2>1, <3>3, RootKeeps
    <3>. QED BY <3>1, <3>2, <3>3 DEF Clear
  <2>. QED BY <1>1, <2>1, <2>2 DEF Staged
<1>. QED BY <1>1, <1>2 DEF Smooth, SmoothOK, TakenOK, SavedOK

\* A step that leaves the disk alone and comes to no other kind of place.
LEMMA StandingKeeps ==
    ASSUME IInv, Smooth, UNCHANGED <<disk, attempt, had>>,
           attempt > 0, writing' \subseteq writing,
           pc \in {"remote", "verify", "swap"}, pc' \in {"remote", "verify", "swap", "keep"}
    PROVE  Smooth'
<1>1. ASSUME NEW c \in had
      PROVE  Staged(c)'
  <2>1. PICK p \in Path \ writing : StagedAt(p, c)
    BY DEF Smooth, SavedOK, Staged
  <2>2. StagedAt(p, c)'
    BY <2>1, DiskKeeps
  <2>. QED BY <2>1, <2>2 DEF Staged
<1>. QED BY <1>1 DEF Smooth, SmoothOK, TakenOK, SavedOK, disk, IInv, TypeOK

LEMMA StageKeeps == ASSUME IInv, IInv', Smooth, Stage, ~FsFault PROVE Smooth'
<1>. USE DEF IInv, Sibling
<1>1. CASE BeginFails
  <2>1. \A c \in had : Saved(c)'
    BY <1>1, DiskKeeps DEF BeginFails, Smooth, SavedOK
  <2>. QED BY <1>1, <2>1 DEF BeginFails, End, Smooth, SmoothOK, TakenOK, SavedOK
<1>2. CASE \E p \in Path : StageCut(p) \/ StageFails(p)
  <2>1. PICK p \in Path : StageCut(p) \/ StageFails(p)
    BY <1>2
  <2>2. ~Local(p)
    BY <2>1 DEF StageCut, StageFails
  <2>3. /\ pc = "remote" /\ pc' = "remote" /\ UNCHANGED <<disk, attempt, had>>
        /\ writing' \subseteq writing /\ attempt > 0
    BY <2>1, <2>2 DEF StageCut, StageFails, Ready, JobOK, Staging, ControlOK, ctl
  <2>. QED BY <2>3, StandingKeeps
<1>3. CASE RemoteDone
  <2>1. /\ pc = "remote" /\ pc' \in {"verify", "keep"} /\ UNCHANGED <<disk, attempt, had>>
        /\ writing' \subseteq writing /\ attempt > 0
    BY <1>3 DEF RemoteDone, ForgetJob, ControlOK, Staging, ctl
  <2>. QED BY <2>1, StandingKeeps
<1>4. ~ClearShared /\ ~ResumeDirStuck
  BY DEF ClearShared, ResumeDirStuck, Smooth, SmoothOK
<1>. QED BY <1>1, <1>2, <1>3, <1>4, BeginStageKeeps, StageLinkKeeps, StageOpenKeeps,
            WriteKeeps, LocalDoneKeeps, ClearKeeps DEF Stage

LEMMA SwapKeeps == ASSUME IInv, Smooth, Swap, ~FsFault PROVE Smooth'
<1>. USE DEF IInv, Sibling
<1>1. CASE Verified \/ Refused
  <2>1. /\ pc = "verify" /\ pc' \in {"swap", "keep"} /\ UNCHANGED <<disk, attempt, had>>
        /\ writing' \subseteq writing /\ attempt > 0
    BY <1>1 DEF Verified, Refused, job, ctl, ControlOK, Swapping
  <2>. QED BY <2>1, StandingKeeps
<1>2. CASE SetAside
  <2>1. /\ pc = "swap" /\ pc' = "install" /\ fs' = Move(fs, "dest", "old")
        /\ UNCHANGED <<file, attempt, err, had, writing>> /\ fs["old"] = Absent
    BY <1>2 DEF SetAside, DestOK, ctl, job
  <2>2. /\ fs'["dest"] = Absent /\ fs'["old"] = fs["dest"]
        /\ fs'["tmp"] = fs["tmp"] /\ fs'["partial"] = fs["partial"]
    BY <2>1, MoveFacts
  <2>3. LiveNames
    BY <2>2 DEF LiveNames, Holds
  <2>4. ASSUME NEW c \in had
        PROVE  Staged(c)'
    <3>1. PICK p \in Path \ writing : StagedAt(p, c)
      BY <2>1 DEF Smooth, SavedOK, Staged
    <3>2. StagedAt(p, c)'
      BY <2>1, <2>2, <2>3, <3>1, StagedStays DEF StagedAt, Holds
    <3>. QED BY <2>1, <3>1, <3>2 DEF Staged
  <2>. QED BY <2>1, <2>2, <2>4 DEF Smooth, SmoothOK, TakenOK, SavedOK
<1>3. CASE Install
  BY <1>3 DEF Install, ctl, Smooth, SmoothOK, TakenOK, SavedOK
<1>4. CASE RemoveOld
  BY <1>4 DEF RemoveOld, End, ctl, Smooth, SmoothOK, TakenOK, SavedOK
<1>5. ~InstallFails /\ ~Rollback
  BY DEF InstallFails, Rollback, Smooth, SmoothOK
<1>. QED BY <1>1, <1>2, <1>3, <1>4, <1>5 DEF Swap

\* Others write into dest only, which holds no file that is saved or staged.
LEMMA OutsideKeeps ==
    ASSUME IInv, Smooth, NEW p \in Path, NEW d \in Data, OutsideWrite(p, d)
    PROVE  Smooth'
<1>. USE DEF IInv, Sibling
<1>1. /\ pc \in {"local", "clear", "remote", "verify"} /\ Holds(fs, "dest", p)
      /\ file' = [file EXCEPT ![fs["dest"][p]].data = d]
      /\ UNCHANGED <<fs, pc, attempt, err, man, live, index, todo, writing, had>>
  BY DEF OutsideWrite, Smooth, SmoothOK, ctl, job
<1>2. ASSUME NEW c, NEW q \in Path, StagedAt(q, c)
      PROVE  StagedAt(q, c)'
  <2>1. fs["tmp"][q] # fs["dest"][p]
    BY <1>1, <1>2 DEF StagedAt
  <2>2. file'[fs["tmp"][q]] = file[fs["tmp"][q]]
    BY <1>1, <1>2, <2>1 DEF StagedAt, TypeOK, Tree, Holds
  <2>. QED BY <1>1, <1>2, <2>2 DEF StagedAt, Holds
<1>3. \A q \in Path : (Reused(q)' <=> Reused(q)) /\ Leftover(q)' = Leftover(q)
  BY <1>1 DEF Reused, Classify, Leftover
<1>4. TakenOK'
  <2>1. ASSUME NEW q \in Path, pc = "local", Reused(q)
        PROVE  file'[fs["partial"][Leftover(q)]] = file[fs["partial"][Leftover(q)]]
    <3>1. Holds(fs, "partial", Leftover(q)) /\ Leftover(q) \in Path
      BY <2>1, EntryType DEF Reused, Classify, Decision, Leftover, HashedOK, JobOK, Staging, TypeOK
    <3>2. fs["partial"][Leftover(q)] # fs["dest"][p]
      BY <1>1, <2>1, <3>1 DEF PartialOK, Private, Staging
    <3>. QED BY <1>1, <3>1, <3>2 DEF TypeOK, Tree, Holds
  <2>. QED BY <1>1, <1>2, <1>3, <2>1 DEF Smooth, TakenOK
<1>5. SavedOK'
  <2>1. \A c : Staged(c) => Staged(c)'
    BY <1>1, <1>2 DEF Staged
  <2>. QED BY <1>1, <1>3, <2>1 DEF Smooth, SavedOK
<1>6. SmoothOK'
  BY <1>1 DEF Smooth, SmoothOK
<1>. QED BY <1>4, <1>5, <1>6 DEF Smooth

LEMMA NextKeeps == ASSUME IInv, KeptOK, DownloadsOK, [Next]_vars PROVE DownloadsOK'
<1>. SUFFICES ASSUME fsFaults' = 0, kills' = 0
              PROVE  Smooth'
  BY DEF DownloadsOK, Smooth
<1>1. ~FsFault /\ ~Kill /\ Smooth
  BY FaultsGrow DEF DownloadsOK, Smooth
<1>2. IInv'
  BY NextInvariant
<1>3. CASE UNCHANGED vars
  <2>1. UNCHANGED <<fs, file, pc, attempt, err, man, live, index, todo, writing, had>>
    BY <1>3 DEF vars, disk, ctl, job
  <2>2. SmoothOK' /\ TakenOK'
    BY <1>1, <2>1 DEF Smooth, SmoothOK, TakenOK, Reused, Classify, Leftover, StagedAt, Holds
  <2>3. SavedOK'
    BY <1>1, <2>1 DEF Smooth, SavedOK, Saved, SavedAt, Staged, StagedAt, Reused, Classify,
                      Leftover, Holds
  <2>. QED BY <2>2, <2>3 DEF Smooth
<1>4. CASE \E c \in Calls : Start(c)
  <2>1. /\ pc = "idle" /\ pc' = "recover" /\ UNCHANGED <<disk, attempt, err, had>>
    BY <1>4 DEF Start
  <2>2. \A c \in had : Saved(c)'
    BY <1>1, <2>1, DiskKeeps DEF Smooth, SavedOK
  <2>. QED BY <1>1, <2>1, <2>2 DEF Smooth, SmoothOK, TakenOK, SavedOK
<1>. QED BY <1>1, <1>2, <1>3, <1>4, RecoverKeeps, KeepStagedKeeps, UnsharePartialKeeps,
            StageKeeps, SwapKeeps, OutsideKeeps DEF Next, Step

\* A clean-up leaves what was got hold of on record.
LEMMA RecordStays ==
    ASSUME IInv, CleanedUp, Next, pc' \in {"idle", "fetch"}
    PROVE  had' = had
<1>. USE DEF CleanedUp
<1>1. ~Recover /\ ~Stage /\ ~Swap /\ \A c \in Calls : ~Start(c)
  BY DEF Recover, NothingOld, RestoreOld, RemoveStaleOld, Stage, BeginStage, BeginFails,
         StageLink, StageOpen, StageCopied, StageDownloaded, StageMismatch, StageCut,
         StageFails, Ready, LocalDone, Clear, ClearShared, ResumeDirStuck, RemoteDone,
         JobOK, IInv, Staging, Swap, Verified, Refused, SetAside, Install, InstallFails,
         AtInstall, Rollback, RemoveOld, Start
<1>2. CASE KeepStaged
  BY <1>2 DEF KeepStaged, NothingStaged, DropStagedShared, Keep, KeepFails, KeepRefused,
              DiscardStaged, DiscardFails
<1>3. CASE UnsharePartial
  BY <1>3 DEF UnsharePartial, Unshare, Unshared, DropPartial
<1>. QED BY <1>1, <1>2, <1>3 DEF Next, Step, Kill, OutsideWrite

\* DownloadsOK holds from the start, when nothing has been got hold of.
THEOREM DownloadsInvariance == Spec => [](IInv /\ DownloadsOK)
<1>1. Init => DownloadsOK
  BY DEF Init, DownloadsOK, SmoothOK, TakenOK, SavedOK
<1>2. IInv /\ KeptOK /\ DownloadsOK /\ [Next]_vars => DownloadsOK'
  BY NextKeeps
<1>. QED BY <1>1, <1>2, EndsInvariance, PTL DEF Spec

\* Whatever a failed attempt downloaded or took over, any number of attempts and
\* calls before included, is in the partial tree once its clean-up is done, if no
\* file operation failed and no process was killed (KeepsDownloads).
THEOREM DownloadsKept == Spec => KeepsDownloads
<1>1. ASSUME IInv, IInv', DownloadsOK', [Next]_vars,
             CleanedUp, pc' \in {"idle", "fetch"}, fsFaults' = 0, kills' = 0
      PROVE  had \subseteq Contents(fs["partial"])'
  <2>1. pc \notin {"idle", "fetch"}
    BY <1>1 DEF CleanedUp
  <2>2. had' = had
    BY <1>1, <2>1, RecordStays DEF vars
  <2>3. \A c \in had : Saved(c)'
    BY <1>1, <2>2 DEF DownloadsOK, SavedOK
  <2>. QED BY <2>3 DEF Saved, SavedAt, Holds, Contents, Inodes
<1>2. IInv /\ IInv' /\ DownloadsOK' /\ [Next]_vars =>
         (CleanedUp /\ pc' \in {"idle", "fetch"} /\ fsFaults' = 0 /\ kills' = 0
             => had \subseteq Contents(fs["partial"])' \cup Contents(Live)')
  BY <1>1
<1>. QED BY <1>2, DownloadsInvariance, PTL DEF Spec, KeepsDownloads

=============================================================================
