--------------------------- MODULE ReplaceProofs ----------------------------
(***************************************************************************)
(* Proofs about Replace for every set of paths, contents and inodes and    *)
(* every number of faults: the invariant IInv of ReplaceInv is inductive,  *)
(* and from it the destination is never anything but a whole tree.         *)
(***************************************************************************)
EXTENDS ReplaceInv, TLAPS, WellFoundedInduction

-----------------------------------------------------------------------------
(* The operators of Siblings.                                              *)

\* A tree is not the absence of one.
LEMMA TreeNotAbsent == Absent \notin Tree /\ EmptyTree \in Tree
BY NilAssumption DEF Tree, EmptyTree

\* A walk in lexical order has a first element.
LEMMA Lexical ==
    ASSUME NEW S \in SUBSET Path, S # {}
    PROVE  \E p \in S : \A q \in S : p <= q
<1>1. S \in SUBSET Nat
  BY PathAssumption
<1>2. PICK p \in S : \A q \in S : ~(<<q, p>> \in OpToRel(<, Nat))
  BY <1>1, NatLessThanWellFounded, WFMin, Zenon
<1>3. \A q \in S : ~(q < p)
  BY <1>1, <1>2 DEF OpToRel
<1>. QED BY <1>1, <1>3

\* dropShared removes one name that the tree has.
LEMMA DropSharedUnlinks ==
    ASSUME NEW s \in Sibling, DropShared(s)
    PROVE  \E p \in Path : Holds(fs, s, p) /\ Unlink(s, p)
<1>1. Shared(fs, s) \in SUBSET Path /\ Shared(fs, s) # {}
  BY DEF DropShared, Shared
<1>2. NextShared(s) \in Shared(fs, s)
  BY <1>1, Lexical DEF NextShared
<1>. QED BY <1>2 DEF DropShared, Shared

\* An os.Remove takes one name away and leaves every file that still has a
\* name as it was: on Windows because a read-only file had no other name.
LEMMA UnlinkFacts ==
    ASSUME TypeOK, ReadOnlyOK,
           NEW s \in Sibling, NEW p \in Path, Holds(fs, s, p), Unlink(s, p),
           Accounted
    PROVE  /\ fs' \in [Sibling -> Tree \cup {Absent}]
           /\ file' \in [Inode -> File \cup {Nil}]
           /\ \A t \in Sibling : (fs'[t] = Absent) <=> (fs[t] = Absent)
           /\ \A t \in Sibling : t # s => fs'[t] = fs[t]
           /\ \A t \in Sibling, q \in Path :
                 Holds(fs', t, q) <=> Holds(fs, t, q) /\ ~(t = s /\ q = p)
           /\ \A t \in Sibling, q \in Path :
                 Holds(fs', t, q) => fs'[t][q] = fs[t][q]
           /\ \A t \in Sibling, q \in Path :
                 Holds(fs', t, q) => file'[fs'[t][q]] = file[fs'[t][q]]
<1>1. fs[s] \in Tree /\ fs[s][p] \in Inode
  BY DEF TypeOK, Holds, Tree
<1>2. fs' = [fs EXCEPT ![s] = [fs[s] EXCEPT ![p] = Nil]]
  BY DEF Unlink, Unname
<1>3. [fs[s] EXCEPT ![p] = Nil] \in Tree
  BY <1>1 DEF Tree
<1>4. /\ fs' \in [Sibling -> Tree \cup {Absent}]
      /\ \A t \in Sibling : (fs'[t] = Absent) <=> (fs[t] = Absent)
      /\ \A t \in Sibling : t # s => fs'[t] = fs[t]
      /\ fs'[s] = [fs[s] EXCEPT ![p] = Nil]
  BY <1>1, <1>2, <1>3, TreeNotAbsent DEF TypeOK
<1>5. \A t \in Sibling, q \in Path :
         Holds(fs', t, q) <=> Holds(fs, t, q) /\ ~(t = s /\ q = p)
  BY <1>1, <1>4 DEF Holds, Tree
<1>6. \A t \in Sibling, q \in Path : Holds(fs', t, q) => fs'[t][q] = fs[t][q]
  BY <1>1, <1>4 DEF Holds, Tree
<1>7. PICK g \in AfterRemoving(fs[s][p], file) : file' = Reap(fs', g)
  BY DEF Unlink
<1>8. file' \in [Inode -> File \cup {Nil}]
  <2>1. g \in [Inode -> File \cup {Nil}]
    BY <1>7, <1>1, ModeAssumption DEF AfterRemoving, TypeOK, File, Accounted
  <2>. QED BY <2>1, <1>7 DEF Reap
<1>9. ASSUME NEW t \in Sibling, NEW q \in Path, Holds(fs', t, q)
      PROVE  file'[fs'[t][q]] = file[fs'[t][q]]
  <2>1. fs'[t][q] \in Inode
    BY <1>4, <1>9 DEF Holds, Tree
  <2>2. file'[fs'[t][q]] = g[fs'[t][q]]
    BY <1>7, <2>1, <1>9 DEF Reap, Named
  <2>3. CASE g = file
    BY <2>2, <2>3
  <2>4. CASE g # file
    <3>1. Windows /\ file[fs[s][p]].mode \in ReadOnly
      BY <1>7, <2>4 DEF AfterRemoving
    <3>2. Sole(fs, s, p)
      BY <3>1 DEF ReadOnlyOK
    <3>3. fs'[t][q] # fs[s][p]
      BY <3>2, <1>5, <1>6, <1>9 DEF Sole
    <3>. QED BY <2>1, <2>2, <3>3, <1>7, <1>1 DEF AfterRemoving, TypeOK
  <2>. QED BY <2>3, <2>4
<1>. QED BY <1>4, <1>5, <1>6, <1>8, <1>9

\* Every name a step leaves was there before, for the same, unchanged file.
FewerNames ==
    \A t \in Sibling, q \in Path : Holds(fs', t, q) =>
        /\ Holds(fs, t, q)
        /\ fs'[t][q] = fs[t][q]
        /\ file'[fs'[t][q]] = file[fs[t][q]]

\* Then no file loses its being the only one of its kind.
LEMMA FewerNamesFacts ==
    ASSUME FewerNames
    PROVE  /\ Accounted => Accounted'
           /\ ReadOnlyOK => ReadOnlyOK'
           /\ Private => Private'
           /\ \A t \in Sibling, q \in Path :
                 Holds(fs', t, q) /\ Sole(fs, t, q) => Sole(fs', t, q)
           /\ \A t \in Sibling :
                 Distinct(fs[t]) => Distinct(fs'[t])
<1>1. \A t \in Sibling, q \in Path :
         Holds(fs', t, q) /\ Sole(fs, t, q) => Sole(fs', t, q)
  BY DEF FewerNames, Sole
<1>2. Accounted => Accounted'
  BY DEF FewerNames, Accounted
<1>3. ReadOnlyOK => ReadOnlyOK'
  BY <1>1 DEF FewerNames, ReadOnlyOK
<1>4. Private => Private'
  BY DEF FewerNames, Private, Sibling
<1>5. \A t \in Sibling : Distinct(fs[t]) => Distinct(fs'[t])
  BY DEF FewerNames, Distinct, Holds
<1>. QED BY <1>1, <1>2, <1>3, <1>4, <1>5
\* Three ways in which a step gives and takes no name: a directory that holds
\* nothing comes or goes, and a tree changes its place.
LEMMA RootFacts ==
    ASSUME TypeOK, NEW s \in Sibling, RemoveRoot(s)
    PROVE  /\ fs' \in [Sibling -> Tree \cup {Absent}]
           /\ file' = file
           /\ fs[s] # Absent
           /\ fs'[s] = Absent
           /\ \A t \in Sibling : t # s => fs'[t] = fs[t]
           /\ \A t \in Sibling, q \in Path : Holds(fs', t, q) <=> Holds(fs, t, q)
           /\ FewerNames
BY TreeNotAbsent DEF RemoveRoot, TypeOK, Holds, EmptyTree, FewerNames

LEMMA EmptyFacts ==
    ASSUME TypeOK, NEW s \in Sibling, fs[s] = Absent,
           fs' = [fs EXCEPT ![s] = EmptyTree], file' = file
    PROVE  /\ fs' \in [Sibling -> Tree \cup {Absent}]
           /\ fs'[s] = EmptyTree
           /\ fs'[s] # Absent
           /\ \A t \in Sibling : t # s => fs'[t] = fs[t]
           /\ \A t \in Sibling, q \in Path : Holds(fs', t, q) <=> Holds(fs, t, q)
           /\ FewerNames
BY TreeNotAbsent DEF TypeOK, Holds, EmptyTree, FewerNames

LEMMA MoveFacts ==
    ASSUME TypeOK, NEW s \in Sibling, NEW t \in Sibling, s # t,
           fs[t] = Absent, fs' = Move(fs, s, t), file' = file
    PROVE  /\ fs' \in [Sibling -> Tree \cup {Absent}]
           /\ fs'[t] = fs[s]
           /\ fs'[s] = Absent
           /\ \A u \in Sibling : u # s /\ u # t => fs'[u] = fs[u]
           /\ Accounted => Accounted'
           /\ ReadOnlyOK => ReadOnlyOK'
           /\ \A u \in Sibling \ {s, t}, p \in Path :
                 Sole(fs, u, p) => Sole(fs', u, p)
<1>1. /\ fs' \in [Sibling -> Tree \cup {Absent}]
      /\ fs'[t] = fs[s] /\ fs'[s] = Absent
      /\ \A u \in Sibling : u # s /\ u # t => fs'[u] = fs[u]
  BY DEF Move, TypeOK
<1>2. \A u \in Sibling, p \in Path :
         Holds(fs', u, p) <=> (u = t /\ Holds(fs, s, p))
                                \/ (u # s /\ u # t /\ Holds(fs, u, p))
  BY <1>1 DEF Holds
<1>3. Accounted => Accounted'
  BY <1>1, <1>2 DEF Accounted
<1>4. \A p \in Path : Holds(fs, s, p) /\ Sole(fs, s, p) => Sole(fs', t, p)
  BY <1>1, <1>2 DEF Sole
<1>5. \A u \in Sibling \ {s, t}, p \in Path : Sole(fs, u, p) => Sole(fs', u, p)
  BY <1>1, <1>2 DEF Sole
<1>6. ReadOnlyOK => ReadOnlyOK'
  BY <1>1, <1>2, <1>4, <1>5 DEF ReadOnlyOK
<1>. QED BY <1>1, <1>3, <1>5, <1>6

-----------------------------------------------------------------------------
(* Removing one name, wherever the process does it.                        *)

LEMMA UnlinkStep ==
    ASSUME IInv, NEW s \in {"tmp", "old", "partial"}, NEW p \in Path,
           Holds(fs, s, p), Unlink(s, p),
           s = "tmp" => pc \in {"keep", "discard"},
           s = "old" => pc \in {"recover", "removeOld"} /\ fs["dest"] # Absent,
           s = "partial" => pc \notin {"local", "idle"},
           UNCHANGED <<pc, ctl, err, man, job, had, faults>>
    PROVE  IInv' /\ View(Live, file)' = View(Live, file)
<1>. USE DEF IInv, ctl, job, faults, Sibling
<1>1. /\ TypeOK' /\ FewerNames
      /\ \A t \in Sibling : (fs'[t] = Absent) <=> (fs[t] = Absent)
      /\ \A t \in Sibling : t # s => fs'[t] = fs[t]
  BY UnlinkFacts DEF TypeOK, FewerNames
<1>2. Accounted' /\ ReadOnlyOK'
  BY <1>1, FewerNamesFacts
<1>3. \A q \in Path : fs["tmp"] # Absent /\ fs["tmp"][q] # Nil /\ s # "tmp" =>
         Holds(fs', "tmp", q) /\ (Sole(fs, "tmp", q) => Sole(fs', "tmp", q))
  BY <1>1, FewerNamesFacts DEF Holds
<1>4. JobOK'
  <2>1. todo \subseteq Path /\ writing \subseteq Path
    BY DEF TypeOK
  <2>2. \A q \in Path : Local(q)' <=> Local(q)
    BY DEF Local, Classify, Leftover
  <2>3. CASE s = "tmp"
    BY <1>1, <2>3 DEF JobOK, Staging, Swapping
  <2>4. CASE s # "tmp"
    BY <1>1, <1>3, <2>1, <2>2, <2>4 DEF JobOK, Staging, Swapping
  <2>. QED BY <2>3, <2>4
<1>5. HashedOK' /\ DestOK' /\ ControlOK'
  BY <1>1 DEF HashedOK, DestOK, ControlOK, Staging, Swapping
<1>6. \A t \in Sibling : Distinct(fs[t]) => Distinct(fs'[t])
  BY <1>1, FewerNamesFacts
<1>7. fs'["dest"] = fs["dest"] /\ (fs["dest"] = Absent => fs'["old"] = fs["old"])
  BY <1>1
<1>8. LinksOK'
  <2>1. Live' = Live
    BY <1>7 DEF Live
  <2>2. \A q \in Path : Holds(fs', "tmp", q) =>
           Holds(fs, "tmp", q) /\ fs'["tmp"][q] = fs["tmp"][q]
    BY <1>1 DEF FewerNames
  <2>. QED BY <1>1, <1>6, <1>7, <2>1, <2>2 DEF LinksOK, Holds
<1>9. PartialOK'
  <2>1. Private => Private'
    BY <1>1, FewerNamesFacts
  <2>. QED BY <2>1 DEF PartialOK, Staging
<1>10. /\ \A t \in Sibling \ {s} : View(fs[t], file)' = View(fs[t], file)
  BY <1>1 DEF View, FewerNames, Holds
<1>11. VerifiedOK' /\ View(Live, file)' = View(Live, file)
  BY <1>7, <1>10 DEF VerifiedOK, Live
<1>. QED BY <1>1, <1>2, <1>4, <1>5, <1>8, <1>9, <1>11
-----------------------------------------------------------------------------
(* recoverInterrupted.                                                     *)

LEMMA RecoverStep == ASSUME IInv, Recover PROVE IInv'
<1>. USE DEF IInv, disk, ctl, job, faults, Staging, Swapping, Labels, Sibling
<1>1. CASE NothingOld
  BY <1>1 DEF NothingOld, TypeOK, ControlOK, Accounted, ReadOnlyOK, JobOK,
              HashedOK, DestOK, VerifiedOK, LinksOK, Live, PartialOK
<1>2. CASE RestoreOld
  <2>1. CASE fs' = Move(fs, "old", "dest") /\ UNCHANGED err /\ NoFault
    <3>1. /\ fs' \in [Sibling -> Tree \cup {Absent}]
          /\ fs'["dest"] = fs["old"] /\ fs'["old"] = Absent
          /\ fs'["tmp"] = fs["tmp"] /\ fs'["partial"] = fs["partial"]
          /\ Accounted' /\ ReadOnlyOK'
      BY <1>2, <2>1, MoveFacts DEF RestoreOld
    <3>2. TypeOK'
      BY <1>2, <2>1, <3>1 DEF RestoreOld, NoFault, TypeOK
    <3>3. LinksOK'
      BY <1>2, <3>1, TreeNotAbsent DEF RestoreOld, LinksOK, Live, TypeOK
    <3>. QED BY <1>2, <2>1, <3>1, <3>2, <3>3
             DEF RestoreOld, ControlOK, JobOK, HashedOK, DestOK, VerifiedOK, PartialOK
  <2>2. CASE UNCHANGED fs /\ err' = "other" /\ FsFault
    BY <1>2, <2>2, BoundAssumption
       DEF RestoreOld, FsFault, TypeOK, ControlOK, Accounted, ReadOnlyOK, JobOK,
           HashedOK, DestOK, VerifiedOK, LinksOK, Live, PartialOK
  <2>. QED BY <1>2, <2>1, <2>2 DEF RestoreOld
<1>3. CASE RemoveStaleOld
  <2>1. CASE RemoveSome("old") /\ UNCHANGED <<pc, err>> /\ NoFault
    BY <1>3, <2>1, UnlinkStep DEF RemoveStaleOld, RemoveSome, NoFault
  <2>2. CASE RemoveRoot("old") /\ pc' = "keep" /\ UNCHANGED err /\ NoFault
    <3>1. /\ fs' \in [Sibling -> Tree \cup {Absent}] /\ file' = file
          /\ fs'["old"] = Absent /\ FewerNames
          /\ \A t \in Sibling : t # "old" => fs'[t] = fs[t]
      BY <2>2, RootFacts
    <3>2. Accounted' /\ ReadOnlyOK'
      BY <3>1, FewerNamesFacts
    <3>3. TypeOK'
      BY <1>3, <2>2, <3>1 DEF RemoveStaleOld, NoFault, TypeOK
    <3>4. LinksOK'
      BY <1>3, <2>2, <3>1 DEF RemoveStaleOld, LinksOK, Live
    <3>. QED BY <1>3, <2>2, <3>1, <3>2, <3>3, <3>4
             DEF RemoveStaleOld, ControlOK, JobOK, HashedOK, DestOK, VerifiedOK, PartialOK
  <2>3. CASE UNCHANGED disk /\ pc' = "keep" /\ err' = "other" /\ FsFault
    BY <1>3, <2>3, BoundAssumption
       DEF RemoveStaleOld, FsFault, TypeOK, ControlOK, Accounted, ReadOnlyOK, JobOK,
           HashedOK, DestOK, VerifiedOK, LinksOK, Live, PartialOK
  <2>. QED BY <1>3, <2>1, <2>2, <2>3 DEF RemoveStaleOld
<1>. QED BY <1>1, <1>2, <1>3 DEF Recover
-----------------------------------------------------------------------------
(* keepStaged.                                                             *)

\* The counters of faults stay within their bounds.
FaultsOK ==
    /\ fsFaults \in 0..MaxFsFaults /\ netFaults \in 0..MaxNetFaults
    /\ kills \in 0..MaxKills /\ edits \in 0..MaxEdits

LEMMA FaultSteps ==
    ASSUME FaultsOK, NoFault \/ FsFault \/ NetFault \/ DownloadFault
    PROVE  FaultsOK'
BY BoundAssumption
   DEF FaultsOK, NoFault, FsFault, NetFault, DownloadFault, faults

\* keepStaged returns, having left dest and old alone.
LEMMA AfterKeepStep ==
    ASSUME IInv, pc \in {"keep", "discard"},
           NEW e \in {"none", "mismatch", "other"}, AfterKeep(e),
           e = err \/ (attempt = 0 /\ e = "other"),
           fs' \in [Sibling -> Tree \cup {Absent}],
           file' \in [Inode -> File \cup {Nil}],
           fs'["dest"] = fs["dest"], fs'["old"] = fs["old"],
           Accounted', ReadOnlyOK', e = "mismatch" => Private',
           UNCHANGED <<job, had>>, FaultsOK'
    PROVE  IInv'
<1>. USE DEF IInv, ctl, job, Staging, Swapping, Sibling
<1>1. TypeOK'
  BY BoundAssumption DEF AfterKeep, End, TypeOK, Labels, Ended, FaultsOK
<1>2. ControlOK'
  BY BoundAssumption DEF AfterKeep, End, ControlOK, TypeOK
<1>3. JobOK' /\ HashedOK'
  BY DEF AfterKeep, End, JobOK, HashedOK
<1>4. DestOK' /\ VerifiedOK' /\ LinksOK'
  BY DEF AfterKeep, End, DestOK, VerifiedOK, LinksOK, Live
<1>5. PartialOK'
  BY DEF AfterKeep, End, PartialOK, ControlOK
<1>. QED BY <1>1, <1>2, <1>3, <1>4, <1>5

LEMMA KeepStagedStep == ASSUME IInv, KeepStaged PROVE IInv'
<1>. USE DEF IInv, disk, Sibling
<1>1. FaultsOK /\ err \in {"none", "mismatch", "other"}
  BY DEF TypeOK, FaultsOK
<1>2. /\ fs \in [Sibling -> Tree \cup {Absent}]
      /\ file \in [Inode -> File \cup {Nil}]
      /\ pc = "keep" /\ err = "mismatch" => Private
      /\ pc = "discard" /\ err = "mismatch" => Private
  BY DEF TypeOK, PartialOK
<1>3. CASE NothingStaged
  <2>1. Accounted' /\ ReadOnlyOK' /\ (err = "mismatch" => Private') /\ FaultsOK'
    BY <1>1, <1>2, <1>3
       DEF NothingStaged, Accounted, ReadOnlyOK, Private, faults, FaultsOK
  <2>. QED BY <1>1, <1>2, <1>3, <2>1, AfterKeepStep DEF NothingStaged
<1>4. CASE DropStagedShared
  <2>1. CASE DropShared("tmp") /\ UNCHANGED pc /\ NoFault
    BY <1>4, <2>1, DropSharedUnlinks, UnlinkStep DEF DropStagedShared, NoFault
  <2>2. CASE UNCHANGED disk /\ pc' = "discard" /\ FsFault
    BY <1>4, <2>2, BoundAssumption
       DEF DropStagedShared, FsFault, ctl, job, Staging, Swapping, Labels, TypeOK,
           ControlOK, Accounted, ReadOnlyOK, JobOK, HashedOK, DestOK, VerifiedOK,
           LinksOK, Live, PartialOK, Private
  <2>. QED BY <1>4, <2>1, <2>2 DEF DropStagedShared
<1>5. CASE Keep
  <2>1. /\ fs' \in [Sibling -> Tree \cup {Absent}]
        /\ fs'["partial"] = fs["tmp"] /\ fs'["tmp"] = Absent
        /\ fs'["dest"] = fs["dest"] /\ fs'["old"] = fs["old"]
        /\ Accounted' /\ ReadOnlyOK'
    BY <1>5, MoveFacts DEF Keep
  <2>2. Private'
    <3>1. \A l \in Path : Holds(fs, "tmp", l) => Sole(fs, "tmp", l)
      BY <1>5 DEF Keep, Shared
    <3>. QED BY <2>1, <3>1 DEF Private, Holds, Sole
  <2>3. FaultsOK'
    BY <1>1, <1>5 DEF Keep, faults, FaultsOK
  <2>. QED BY <1>1, <1>2, <1>5, <2>1, <2>2, <2>3, AfterKeepStep DEF Keep
<1>6. CASE KeepFails
  <2>1. FaultsOK'
    BY <1>1, <1>6, FaultSteps DEF KeepFails
  <2>2. /\ fs' \in [Sibling -> Tree \cup {Absent}] /\ FewerNames
        /\ \A t \in Sibling : t # "partial" => fs'[t] = fs[t]
    BY <1>2, <1>6, EmptyFacts DEF KeepFails, FewerNames
  <2>3. Accounted' /\ ReadOnlyOK' /\ (Private => Private')
    BY <2>2, FewerNamesFacts
  <2>. QED BY <1>6, <2>1, <2>2, <2>3
       DEF KeepFails, ctl, job, Staging, Swapping, Labels, TypeOK, FaultsOK,
           ControlOK, JobOK, HashedOK, DestOK, VerifiedOK, LinksOK, Live, PartialOK
<1>7. CASE KeepRefused
  BY <1>7 DEF KeepRefused, ctl, job, faults, Staging, Swapping, Labels, TypeOK,
              ControlOK, Accounted, ReadOnlyOK, JobOK, HashedOK, DestOK, VerifiedOK,
              LinksOK, Live, PartialOK, Private
<1>8. CASE DiscardStaged
  <2>1. CASE RemoveSome("tmp") /\ UNCHANGED <<pc, ctl, err, man>>
    BY <1>8, <2>1, UnlinkStep DEF DiscardStaged, RemoveSome, faults
  <2>2. CASE RemoveRoot("tmp") /\ AfterKeep(err)
    <3>1. /\ fs' \in [Sibling -> Tree \cup {Absent}] /\ file' = file /\ FewerNames
          /\ \A t \in Sibling : t # "tmp" => fs'[t] = fs[t]
      BY <2>2, RootFacts
    <3>2. Accounted' /\ ReadOnlyOK' /\ (Private => Private')
      BY <3>1, FewerNamesFacts
    <3>3. FaultsOK'
      BY <1>1, <1>8 DEF DiscardStaged, faults, FaultsOK
    <3>. QED BY <1>1, <1>2, <1>8, <2>2, <3>1, <3>2, <3>3, AfterKeepStep
             DEF DiscardStaged
  <2>. QED BY <1>8, <2>1, <2>2 DEF DiscardStaged
<1>9. CASE DiscardFails
  <2>1. FaultsOK' /\ Accounted' /\ ReadOnlyOK'
    BY <1>1, <1>9, FaultSteps DEF DiscardFails, Accounted, ReadOnlyOK
  <2>2. CASE attempt = 0
    BY <1>1, <1>2, <1>9, <2>1, <2>2, AfterKeepStep DEF DiscardFails
  <2>3. CASE attempt # 0
    BY <1>9, <2>1, <2>3, BoundAssumption
       DEF DiscardFails, End, job, Staging, Swapping, Labels, Ended, TypeOK, FaultsOK,
           ControlOK, JobOK, HashedOK, DestOK, VerifiedOK, LinksOK, Live, PartialOK
  <2>. QED BY <2>2, <2>3
<1>. QED BY <1>3, <1>4, <1>5, <1>6, <1>7, <1>8, <1>9 DEF KeepStaged
-----------------------------------------------------------------------------
(* unsharePartial, the end of recovery.                                    *)

LEMMA AfterRecoveryStep ==
    ASSUME IInv, pc \in {"unshare", "dropPartial"},
           NEW e \in {"none", "other"}, AfterRecovery(e), e = err \/ e = "other",
           fs' \in [Sibling -> Tree \cup {Absent}],
           file' \in [Inode -> File \cup {Nil}],
           fs'["dest"] = fs["dest"], fs'["old"] = fs["old"],
           Accounted', ReadOnlyOK', e = "none" => Private',
           UNCHANGED <<job, had>>, FaultsOK'
    PROVE  IInv'
<1>. USE DEF IInv, ctl, job, Staging, Swapping, Sibling
<1>1. TypeOK'
  BY BoundAssumption DEF AfterRecovery, End, TypeOK, Labels, Ended, FaultsOK
<1>2. ControlOK'
  BY DEF AfterRecovery, End, ControlOK
<1>3. JobOK' /\ HashedOK'
  BY DEF AfterRecovery, End, JobOK, HashedOK
<1>4. DestOK' /\ VerifiedOK' /\ LinksOK'
  BY DEF AfterRecovery, End, DestOK, VerifiedOK, LinksOK, Live
<1>5. PartialOK'
  BY DEF AfterRecovery, End, PartialOK
<1>. QED BY <1>1, <1>2, <1>3, <1>4, <1>5

LEMMA UnsharePartialStep == ASSUME IInv, UnsharePartial PROVE IInv'
<1>. USE DEF IInv, disk, Sibling
<1>1. /\ FaultsOK
      /\ fs \in [Sibling -> Tree \cup {Absent}]
      /\ file \in [Inode -> File \cup {Nil}]
      /\ pc \in {"unshare", "dropPartial"} => err \in {"none", "other"}
  BY DEF TypeOK, FaultsOK, ControlOK
<1>2. CASE Unshare
  <2>1. CASE DropShared("partial") /\ UNCHANGED pc /\ NoFault
    BY <1>2, <2>1, DropSharedUnlinks, UnlinkStep DEF Unshare, NoFault
  <2>2. CASE UNCHANGED disk /\ pc' = "dropPartial" /\ FsFault
    BY <1>2, <2>2, BoundAssumption
       DEF Unshare, FsFault, ctl, job, Staging, Swapping, Labels, TypeOK,
           ControlOK, Accounted, ReadOnlyOK, JobOK, HashedOK, DestOK, VerifiedOK,
           LinksOK, Live, PartialOK
  <2>. QED BY <1>2, <2>1, <2>2 DEF Unshare
<1>3. CASE Unshared
  <2>1. Private'
    BY <1>3 DEF Unshared, Private, Shared, Sole, Holds
  <2>2. Accounted' /\ ReadOnlyOK' /\ FaultsOK'
    BY <1>1, <1>3 DEF Unshared, Accounted, ReadOnlyOK, faults, FaultsOK
  <2>. QED BY <1>1, <1>3, <2>1, <2>2, AfterRecoveryStep DEF Unshared
<1>4. CASE DropPartial
  <2>1. FaultsOK'
    BY <1>1, <1>4, FaultSteps DEF DropPartial
  <2>2. CASE RemoveSome("partial") /\ UNCHANGED <<pc, ctl, err, man>> /\ NoFault
    BY <1>4, <2>2, UnlinkStep DEF DropPartial, RemoveSome, NoFault
  <2>3. CASE RemoveRoot("partial") /\ AfterRecovery(err)
    <3>1. /\ fs' \in [Sibling -> Tree \cup {Absent}] /\ file' = file /\ FewerNames
          /\ fs'["partial"] = Absent
          /\ \A t \in Sibling : t # "partial" => fs'[t] = fs[t]
      BY <2>3, RootFacts
    <3>2. Accounted' /\ ReadOnlyOK' /\ Private'
      BY <3>1, FewerNamesFacts DEF Private, Holds
    <3>. QED BY <1>1, <1>4, <2>1, <2>3, <3>1, <3>2, AfterRecoveryStep DEF DropPartial
  <2>4. CASE UNCHANGED disk /\ AfterRecovery("other")
    <3>1. Accounted' /\ ReadOnlyOK'
      BY <2>4 DEF Accounted, ReadOnlyOK
    <3>. QED BY <1>1, <1>4, <2>1, <2>4, <3>1, AfterRecoveryStep DEF DropPartial
  <2>. QED BY <1>4, <2>2, <2>3, <2>4 DEF DropPartial
<1>. QED BY <1>2, <1>3, <1>4 DEF UnsharePartial
-----------------------------------------------------------------------------
(* Staging.                                                                *)

\* An entry of a manifest is a file of a content that can be fetched.
LEMMA EntryType ==
    ASSUME NEW m \in Manifests, NEW p \in Path, m[p] # Nil
    PROVE  /\ m[p] \in [data : Content, mode : Mode]
           /\ m[p].data \in Content /\ m[p].mode \in Mode
BY ManifestAssumption

\* The leftover of a content is a file of the partial tree with that content, and
\* a content without one is not in the tree.
LEMMA LeftoverIndexType ==
    /\ LeftoverIndex \in [Content -> Path \cup {Nil}]
    /\ \A c \in Content : LeftoverIndex[c] # Nil =>
          /\ Holds(fs, "partial", LeftoverIndex[c])
          /\ file[fs["partial"][LeftoverIndex[c]]].data = c
    /\ \A c \in Content : LeftoverIndex[c] = Nil =>
          \A p \in Path : Holds(fs, "partial", p) => file[fs["partial"][p]].data # c
<1>. DEFINE Of(c) == {p \in Path : Holds(fs, "partial", p)
                                     /\ file[fs["partial"][p]].data = c}
            First(c) == CHOOSE p \in Of(c) : \A q \in Of(c) : p <= q
<1>1. \A c \in Content : Of(c) # {} => First(c) \in Of(c)
  BY Lexical
<1>2. \A c \in Content :
         LeftoverIndex[c] = IF Of(c) = {} THEN Nil ELSE First(c)
  BY DEF LeftoverIndex
<1>3. LeftoverIndex = [c \in Content |-> IF Of(c) = {} THEN Nil ELSE First(c)]
  BY DEF LeftoverIndex
<1>4. \A c \in Content : Of(c) \subseteq Path
  OBVIOUS
<1>5. /\ \A c \in Content : LeftoverIndex[c] = Nil => Of(c) = {}
      /\ \A c \in Content : LeftoverIndex[c] # Nil => LeftoverIndex[c] \in Of(c)
  <2>. HIDE DEF Of, First
  <2>. QED BY <1>1, <1>2, <1>4, NilAssumption
<1>. QED BY <1>1, <1>3, <1>5

LEMMA BeginStageStep ==
    ASSUME IInv, NEW m \in Manifests, BeginStage(m)
    PROVE  IInv'
<1>. USE DEF IInv, ctl, Staging, Swapping, Sibling
<1>1. /\ fs' \in [Sibling -> Tree \cup {Absent}] /\ file' = file
      /\ fs'["tmp"] = EmptyTree /\ fs'["tmp"] # Absent /\ FewerNames
      /\ \A t \in Sibling : t # "tmp" => fs'[t] = fs[t]
  BY EmptyFacts DEF BeginStage
<1>2. /\ live' \in [Path -> File \cup {Nil}]
      /\ \A p \in Path : live'[p] # Nil =>
            Holds(fs, "dest", p) /\ live'[p].mode = file[fs["dest"][p]].mode
  BY DEF BeginStage, LiveFiles, View, NoFiles, TypeOK, Tree, Holds
<1>3. /\ index' \in [Content -> Path \cup {Nil}]
      /\ \A c \in Content : index'[c] # Nil => Holds(fs, "partial", index'[c])
  BY LeftoverIndexType DEF BeginStage, NoLeftovers
<1>4. had' \subseteq Content
  BY EntryType DEF BeginStage
<1>5. FaultsOK'
  BY FaultSteps DEF BeginStage, TypeOK, FaultsOK
<1>6. TypeOK'
  BY <1>1, <1>2, <1>3, <1>4, <1>5 DEF BeginStage, TypeOK, Labels, FaultsOK
<1>7. Accounted' /\ ReadOnlyOK' /\ (Private => Private')
  BY <1>1, FewerNamesFacts
<1>8. ControlOK' /\ DestOK' /\ VerifiedOK'
  BY <1>1 DEF BeginStage, ControlOK, DestOK, VerifiedOK
<1>9. JobOK'
  BY <1>1 DEF BeginStage, JobOK, EmptyTree
<1>10. HashedOK'
  BY <1>1, <1>2, <1>3 DEF BeginStage, HashedOK, Holds
<1>11. LinksOK'
  BY <1>1 DEF BeginStage, LinksOK, Live, Distinct, EmptyTree, Holds
<1>12. PartialOK'
  <2>1. \A l \in Path : Holds(fs, "partial", l) => Sole(fs, "partial", l)
    BY DEF BeginStage, PartialOK, Private, Sole, Holds
  <2>. QED BY <1>1, <1>7, <2>1, FewerNamesFacts DEF BeginStage, PartialOK, FewerNames
<1>. QED BY <1>6, <1>7, <1>8, <1>9, <1>10, <1>11, <1>12
\* A leftover that is taken is a file of the partial tree.
LEMMA TakeType ==
    ASSUME TypeOK, NEW p \in Path, man \in Manifests, man[p] # Nil, Take(p)
    PROVE  taken' \in SUBSET Path /\ taken \subseteq taken'
<1>1. man[p].data \in Content
  BY EntryType
<1>2. Classify(p) = "reuse" => Leftover(p) \in Path
  BY <1>1 DEF Classify, Decision, Leftover, TypeOK
<1>. QED BY <1>2 DEF Take, TypeOK

\* What may be linked: a live file at its own path, or a leftover that has not
\* been linked yet.  Neither is in tmp already, nor read-only on Windows.
LEMMA LinkSource ==
    ASSUME IInv, NEW p \in Path, StageLink(p)
    PROVE  /\ \E s \in {"dest", "partial"}, q \in Path :
                 Holds(fs, s, q) /\ fs[s][q] = Source(p)
           /\ \A q \in Path : fs["tmp"][q] # Source(p)
           /\ \A q \in Path :
                 Holds(fs, "dest", q) /\ fs["dest"][q] = Source(p) => q = p
           /\ taken' \in SUBSET Path
           /\ \A l \in Path \ taken' :
                 Holds(fs, "partial", l) => fs["partial"][l] # Source(p)
           /\ Windows => file[Source(p)].mode \notin ReadOnly
<1>. USE DEF IInv
<1>1. /\ pc = "local" /\ p \in todo /\ Local(p) /\ ~CopyOnly(p) /\ Take(p)
      /\ fs["tmp"] \in Tree /\ fs["tmp"] # Absent /\ fs["tmp"][p] = Nil
      /\ man[p].data \in Content
  BY EntryType DEF StageLink, Ready, JobOK, TypeOK, Staging, Sibling
<1>2. CASE Classify(p) = "link"
  <2>1. /\ ~ReadOnlyOnWindows(live[p].mode) /\ live[p] # Nil
        /\ Source(p) = fs["dest"][p] /\ taken' = taken
    BY <1>1, <1>2 DEF CopyOnly, Classify, Decision, Source, Take
  <2>2. Holds(fs, "dest", p) /\ file[Source(p)].mode = live[p].mode
    BY <1>1, <2>1 DEF HashedOK
  <2>3. \A q \in Path : fs["tmp"][q] # Source(p)
    BY <1>1, <2>1, <2>2 DEF LinksOK, Staging, Holds
  <2>4. \A q \in Path : Holds(fs, "dest", q) /\ fs["dest"][q] = Source(p) => q = p
    BY <2>1, <2>2 DEF LinksOK, Live, Distinct, Holds
  <2>5. \A l \in Path \ taken :
           Holds(fs, "partial", l) => fs["partial"][l] # Source(p)
    BY <1>1, <2>1, <2>2 DEF PartialOK, Sole, Sibling
  <2>. QED BY <2>1, <2>2, <2>3, <2>4, <2>5 DEF ReadOnlyOnWindows, TypeOK
<1>3. CASE Classify(p) = "reuse"
  <2>1. /\ Leftover(p) # Nil /\ Leftover(p) \in Path /\ Leftover(p) \notin taken
        /\ ~ReadOnlyOnWindows(file[Source(p)].mode)
        /\ Source(p) = fs["partial"][Leftover(p)]
        /\ taken' = taken \cup {Leftover(p)}
    BY <1>1, <1>3 DEF CopyOnly, Classify, Decision, Source, Take, Leftover, TypeOK
  <2>2. Holds(fs, "partial", Leftover(p)) /\ Sole(fs, "partial", Leftover(p))
    BY <1>1, <2>1 DEF HashedOK, PartialOK, Leftover
  <2>. QED BY <1>1, <2>1, <2>2 DEF ReadOnlyOnWindows, TypeOK, Sole, Sibling, Holds
<1>. QED BY <1>1, <1>2, <1>3 DEF Local, Classify, Decision, CopyOnly

LEMMA StageLinkStep ==
    ASSUME IInv, NEW p \in Path, StageLink(p)
    PROVE  IInv'
<1>. DEFINE i == Source(p)
<1>. USE DEF IInv, ctl, Staging, Swapping, Sibling
<1>1. /\ \E s \in {"dest", "partial"}, q \in Path : Holds(fs, s, q) /\ fs[s][q] = i
      /\ \A q \in Path : fs["tmp"][q] # i
      /\ \A q \in Path : Holds(fs, "dest", q) /\ fs["dest"][q] = i => q = p
      /\ taken' \in SUBSET Path
      /\ \A l \in Path \ taken' : Holds(fs, "partial", l) => fs["partial"][l] # i
      /\ Windows => file[i].mode \notin ReadOnly
  BY LinkSource
<1>2. i \in Inode /\ i # Nil /\ file[i] # Nil
  BY <1>1, NilAssumption DEF Holds, TypeOK, Tree, Accounted
<1>3. pc = "local" /\ pc' = pc /\ p \in todo /\ todo' = todo \ {p}
      /\ UNCHANGED <<file, err, man, live, index, writing, had, faults>>
      /\ fs["tmp"] \in Tree /\ fs["tmp"] # Absent /\ fs["tmp"][p] = Nil
  BY DEF StageLink, Ready, Local, TypeOK, JobOK
<1>4. fs' = [fs EXCEPT !["tmp"] = [fs["tmp"] EXCEPT ![p] = i]]
  BY DEF StageLink, Name
<1>5. /\ fs' \in [Sibling -> Tree \cup {Absent}]
      /\ fs'["tmp"] = [fs["tmp"] EXCEPT ![p] = i] /\ fs'["tmp"] # Absent
      /\ \A t \in Sibling : t # "tmp" => fs'[t] = fs[t]
  <2>1. [fs["tmp"] EXCEPT ![p] = i] \in Tree
    BY <1>2, <1>3 DEF Tree
  <2>. QED BY <1>4, <2>1, TreeNotAbsent DEF TypeOK
<1>6. \A t \in Sibling, q \in Path :
         /\ Holds(fs', t, q) <=> Holds(fs, t, q) \/ (t = "tmp" /\ q = p)
         /\ Holds(fs, t, q) => fs'[t][q] = fs[t][q]
  BY <1>2, <1>3, <1>5 DEF Holds, Tree
<1>7. fs'["tmp"][p] = i
  BY <1>3, <1>5 DEF Tree
<1>8. \A t \in Sibling, q \in Path :
         Holds(fs, t, q) /\ Sole(fs, t, q) /\ fs[t][q] # i => Sole(fs', t, q)
  BY <1>6, <1>7 DEF Sole
<1>9. TypeOK'
  BY <1>1, <1>3, <1>5 DEF StageLink, TypeOK, faults
<1>10. Accounted'
  BY <1>2, <1>3, <1>6, <1>7 DEF Accounted
<1>11. ReadOnlyOK'
  BY <1>1, <1>3, <1>6, <1>7, <1>8 DEF ReadOnlyOK
<1>12. ControlOK' /\ HashedOK' /\ DestOK' /\ VerifiedOK'
  BY <1>3, <1>5 DEF StageLink, ControlOK, HashedOK, Holds, DestOK, VerifiedOK
<1>13. JobOK'
  <2>1. \A q \in writing : q \in Path /\ q # p /\ Sole(fs', "tmp", q)
                           /\ fs'["tmp"][q] = fs["tmp"][q]
    BY <1>1, <1>3, <1>6, <1>8 DEF JobOK, TypeOK, Holds
  <2>2. \A q \in todo' : fs'["tmp"][q] = fs["tmp"][q]
    BY <1>3, <1>5 DEF Tree, TypeOK
  <2>3. \A q \in Path : Local(q)' <=> Local(q)
    BY <1>3 DEF Local, Classify, Leftover
  <2>. QED BY <1>3, <1>5, <2>1, <2>2, <2>3 DEF JobOK, TypeOK
<1>14. LinksOK'
  <2>1. Distinct(fs["tmp"])'
    BY <1>1, <1>3, <1>5, <1>7, <1>6 DEF LinksOK, Distinct, Tree
  <2>2. \A q, r \in Path :
           Holds(fs', "dest", q) /\ Holds(fs', "tmp", r)
              /\ fs'["dest"][q] = fs'["tmp"][r] => q = r
    BY <1>1, <1>3, <1>5, <1>6, <1>7 DEF LinksOK
  <2>. QED BY <1>3, <1>5, <2>1, <2>2 DEF LinksOK, Live
<1>15. PartialOK'
  BY <1>1, <1>3, <1>5, <1>6, <1>8 DEF PartialOK, Private, StageLink, Take
<1>. QED BY <1>9, <1>10, <1>11, <1>12, <1>13, <1>14, <1>15
\* O_EXCL: the file that is going to be written is a new one.
LEMMA StageOpenStep ==
    ASSUME IInv, NEW p \in Path, StageOpen(p)
    PROVE  IInv'
<1>. USE DEF IInv, ctl, Staging, Swapping, Sibling
<1>1. /\ pc \in {"local", "remote"} /\ pc' = pc /\ p \in todo /\ todo' = todo \ {p}
      /\ writing' = writing \cup {p} /\ taken \subseteq taken'
      /\ (Local(p) <=> pc = "local")
      /\ UNCHANGED <<ctl, err, man, live, index, had>>
      /\ fs["tmp"] \in Tree /\ fs["tmp"] # Absent /\ fs["tmp"][p] = Nil
      /\ man \in Manifests /\ man[p] # Nil
  BY DEF StageOpen, Ready, Take, TypeOK, JobOK
<1>2. PICK i \in FreeInodes(file) :
         /\ fs' = Name(fs, "tmp", p, i)
         /\ file' = [file EXCEPT ![i] = [data |-> Torn, mode |-> man[p].mode]]
  BY DEF StageOpen
<1>3. i \in Inode /\ i # Nil /\ file[i] = Nil
  BY NilAssumption DEF FreeInodes
<1>4. \A t \in Sibling, q \in Path : Holds(fs, t, q) => fs[t][q] # i
  BY <1>3 DEF Accounted
<1>5. /\ fs' \in [Sibling -> Tree \cup {Absent}]
      /\ fs'["tmp"] = [fs["tmp"] EXCEPT ![p] = i] /\ fs'["tmp"] # Absent
      /\ \A t \in Sibling : t # "tmp" => fs'[t] = fs[t]
  <2>1. [fs["tmp"] EXCEPT ![p] = i] \in Tree
    BY <1>1, <1>3 DEF Tree
  <2>. QED BY <1>2, <2>1, TreeNotAbsent DEF TypeOK, Name
<1>6. \A t \in Sibling, q \in Path :
         /\ Holds(fs', t, q) <=> Holds(fs, t, q) \/ (t = "tmp" /\ q = p)
         /\ Holds(fs, t, q) => fs'[t][q] = fs[t][q]
  BY <1>1, <1>3, <1>5 DEF Holds, Tree
<1>7. fs'["tmp"][p] = i
  BY <1>1, <1>5 DEF Tree
<1>8. /\ \A t \in Sibling, q \in Path :
            Holds(fs, t, q) /\ Sole(fs, t, q) => Sole(fs', t, q)
      /\ Sole(fs', "tmp", p)
  BY <1>4, <1>6, <1>7 DEF Sole
<1>9. [data |-> Torn, mode |-> man[p].mode] \in File
  BY <1>1, EntryType DEF File, Data
<1>10. file' \in [Inode -> File \cup {Nil}]
  BY <1>2, <1>9 DEF TypeOK
<1>11. /\ \A t \in Sibling, q \in Path :
             Holds(fs, t, q) => file'[fs[t][q]] = file[fs[t][q]]
       /\ file'[i] = [data |-> Torn, mode |-> man[p].mode]
  BY <1>2, <1>3, <1>4 DEF TypeOK
<1>12. TypeOK'
  <2>1. FaultsOK'
    BY FaultSteps DEF StageOpen, TypeOK, FaultsOK
  <2>2. taken' \subseteq Path
    BY TakeType, <1>1 DEF StageOpen
  <2>. QED BY <1>1, <1>5, <1>10, <2>1, <2>2 DEF TypeOK, FaultsOK
<1>13. Accounted'
  BY <1>6, <1>7, <1>9, <1>11, NilAssumption DEF Accounted, File, Data
<1>14. ReadOnlyOK'
  BY <1>6, <1>7, <1>8, <1>11 DEF ReadOnlyOK
<1>15. ControlOK' /\ HashedOK' /\ DestOK' /\ VerifiedOK'
  BY <1>1, <1>5, <1>11 DEF ControlOK, HashedOK, Holds, DestOK, VerifiedOK
<1>16. JobOK'
  <2>1. \A q \in writing' : q \in Path /\ Sole(fs', "tmp", q) /\ fs'["tmp"][q] # Nil
    BY <1>1, <1>3, <1>6, <1>7, <1>8 DEF JobOK, TypeOK, Holds
  <2>2. \A q \in todo' : fs'["tmp"][q] = fs["tmp"][q]
    BY <1>1, <1>5 DEF Tree, TypeOK
  <2>3. \A q \in Path : Local(q)' <=> Local(q)
    BY <1>1 DEF Local, Classify, Leftover
  <2>. QED BY <1>1, <1>5, <2>1, <2>2, <2>3 DEF JobOK, TypeOK
<1>17. LinksOK'
  <2>1. Distinct(fs["tmp"])'
    BY <1>1, <1>4, <1>5, <1>7, <1>6 DEF LinksOK, Distinct, Tree, Holds
  <2>2. \A q, r \in Path :
           Holds(fs', "dest", q) /\ Holds(fs', "tmp", r)
              /\ fs'["dest"][q] = fs'["tmp"][r] => q = r
    BY <1>1, <1>4, <1>5, <1>6, <1>7 DEF LinksOK
  <2>. QED BY <1>1, <1>5, <2>1, <2>2 DEF LinksOK, Live
<1>18. PartialOK'
  BY <1>1, <1>5, <1>6, <1>8 DEF PartialOK, Private
<1>. QED BY <1>12, <1>13, <1>14, <1>15, <1>16, <1>17, <1>18

\* Writing into a file changes no name and no mode.
LEMMA DataFacts ==
    ASSUME TypeOK, Accounted, ReadOnlyOK, UNCHANGED fs,
           NEW i \in Inode, file[i] # Nil, NEW d \in Data,
           file' = [file EXCEPT ![i].data = d]
    PROVE  /\ file' \in [Inode -> File \cup {Nil}]
           /\ Accounted' /\ ReadOnlyOK'
           /\ \A j \in Inode : file'[j] # Nil <=> file[j] # Nil
           /\ \A j \in Inode : file'[j].mode = file[j].mode
           /\ \A j \in Inode : j # i => file'[j] = file[j]
<1>1. /\ file' \in [Inode -> File \cup {Nil}]
      /\ \A j \in Inode : file'[j] # Nil <=> file[j] # Nil
      /\ \A j \in Inode : file[j] # Nil => file'[j].mode = file[j].mode
      /\ \A j \in Inode : j # i => file'[j] = file[j]
  BY NilAssumption DEF TypeOK, File, Data
<1>2. \A s \in Sibling, p \in Path : Holds(fs, s, p) => fs[s][p] \in Inode
  BY DEF TypeOK, Tree, Holds
<1>3. Accounted'
  BY <1>1, <1>2 DEF Accounted, Holds
<1>4. ReadOnlyOK'
  BY <1>1, <1>2 DEF ReadOnlyOK, Sole, Holds, Accounted
<1>. QED BY <1>1, <1>3, <1>4

\* A file that is being written has no other name: nobody sees the bytes come.
LEMMA ReceivedStep ==
    ASSUME IInv, NEW p \in writing, NEW d \in Data, Received(p, d),
           FaultsOK', had' \in SUBSET Content
    PROVE  IInv'
<1>. DEFINE i == fs["tmp"][p]
<1>. USE DEF IInv, ctl, Staging, Swapping, Sibling
<1>1. /\ pc \in {"local", "remote"} /\ p \in Path /\ Sole(fs, "tmp", p)
      /\ i # Nil /\ fs["tmp"] # Absent
  BY DEF JobOK, TypeOK, Labels
<1>2. i \in Inode /\ file[i] # Nil
  BY <1>1 DEF TypeOK, Tree, Accounted, Holds
<1>3. /\ file' = [file EXCEPT ![i].data = d] /\ writing' = writing \ {p}
      /\ err' \in {err, "mismatch"}
      /\ UNCHANGED <<fs, pc, ctl, man, live, index, todo, taken>>
  BY DEF Received, FirstErr
<1>4. /\ file' \in [Inode -> File \cup {Nil}]
      /\ Accounted' /\ ReadOnlyOK'
      /\ \A j \in Inode : file'[j].mode = file[j].mode
  BY <1>2, <1>3, DataFacts
<1>5. TypeOK'
  BY <1>3, <1>4 DEF TypeOK, FaultsOK
<1>6. ControlOK' /\ DestOK' /\ VerifiedOK'
  BY <1>1, <1>3 DEF ControlOK, DestOK, VerifiedOK
<1>7. JobOK'
  <2>1. \A q \in Path : Local(q)' <=> Local(q)
    BY <1>3 DEF Local, Classify, Leftover
  <2>. QED BY <1>1, <1>3, <2>1 DEF JobOK, TypeOK, Sole, Holds
<1>8. HashedOK'
  BY <1>3, <1>4 DEF HashedOK, Holds, TypeOK, Tree
<1>9. LinksOK' /\ PartialOK'
  BY <1>1, <1>3 DEF LinksOK, PartialOK, Live, Distinct, Private, Sole, Holds
<1>. QED BY <1>4, <1>5, <1>6, <1>7, <1>8, <1>9

LEMMA WriteStep ==
    ASSUME IInv, NEW p \in Path,
           \/ StageCopied(p) \/ StageDownloaded(p)
           \/ \E d \in Data : StageMismatch(p, d)
    PROVE  IInv'
<1>. USE DEF IInv
<1>1. /\ p \in writing /\ pc \in Staging /\ man \in Manifests /\ man[p] # Nil
      /\ man[p].data \in Content /\ had \in SUBSET Content
  BY EntryType DEF StageCopied, StageDownloaded, StageMismatch, JobOK, TypeOK
<1>2. CASE StageCopied(p)
  <2>1. pc = "local" /\ Local(p)
    BY <1>1, <1>2 DEF StageCopied, JobOK, Staging
  <2>2. \E s \in Sibling, q \in Path : Holds(fs, s, q) /\ Source(p) = fs[s][q]
    BY <1>1, <2>1 DEF Source, Local, Classify, Decision, HashedOK, Leftover, TypeOK, Sibling
  <2>3. file[Source(p)].data \in Data
    BY <2>2 DEF TypeOK, Tree, Holds, Accounted, File
  <2>. QED BY <1>1, <1>2, <2>3, ReceivedStep
           DEF StageCopied, faults, FaultsOK, TypeOK
<1>3. CASE StageDownloaded(p)
  BY <1>1, <1>3, ReceivedStep
     DEF StageDownloaded, NoFault, faults, FaultsOK, TypeOK, Data
<1>4. CASE \E d \in Data : StageMismatch(p, d)
  BY <1>1, <1>4, ReceivedStep, FaultSteps DEF StageMismatch, FaultsOK, TypeOK
<1>. QED BY <1>2, <1>3, <1>4

\* A failed worker leaves the disk as it is.
LEMMA StageFailsStep ==
    ASSUME IInv, NEW p \in Path, StageCut(p) \/ StageFails(p)
    PROVE  IInv'
<1>. USE DEF IInv, disk, ctl, Staging, Swapping, Sibling
<1>1. /\ pc \in {"local", "remote"} /\ FaultsOK
      /\ p \in writing \/ p \in todo
      /\ man \in Manifests /\ man[p] # Nil
  BY DEF StageCut, StageFails, Ready, JobOK, TypeOK, Labels, FaultsOK
<1>2. FaultsOK'
  BY <1>1, FaultSteps DEF StageCut, StageFails
<1>3. taken' \in SUBSET Path /\ taken \subseteq taken'
  BY <1>1, TakeType DEF StageCut, StageFails, TypeOK
<1>4. /\ UNCHANGED <<fs, file, pc, call, attempt, result, man, live, index, had>>
      /\ todo' \subseteq todo /\ writing' \subseteq writing
      /\ err' \in {err, "other"}
  BY DEF StageCut, StageFails, FirstErr
<1>5. TypeOK'
  BY <1>2, <1>3, <1>4 DEF TypeOK, FaultsOK
<1>6. JobOK'
  <2>1. \A q \in Path : Local(q)' <=> Local(q)
    BY <1>4 DEF Local, Classify, Leftover
  <2>. QED BY <1>1, <1>4, <2>1 DEF JobOK, TypeOK, Sole, Holds
<1>7. ControlOK' /\ DestOK' /\ VerifiedOK' /\ HashedOK' /\ Accounted' /\ ReadOnlyOK'
  BY <1>1, <1>4 DEF ControlOK, DestOK, VerifiedOK, HashedOK, Accounted, ReadOnlyOK,
                    Holds, Sole
<1>8. LinksOK' /\ PartialOK'
  BY <1>1, <1>3, <1>4 DEF LinksOK, PartialOK, Live, Distinct, Private, Sole, Holds
<1>. QED BY <1>5, <1>6, <1>7, <1>8

\* Between the entries: the two waits for the workers, and the removal of the
\* partial tree, whose files tmp has by then or never will.
LEMMA StageControlStep ==
    ASSUME IInv, BeginFails \/ LocalDone \/ Clear \/ ClearShared \/ RemoteDone
    PROVE  IInv'
<1>. USE DEF IInv, disk, ctl, job, Staging, Swapping, Labels, Sibling
<1>1. FaultsOK
  BY DEF TypeOK, FaultsOK
<1>2. CASE BeginFails
  <2>1. FaultsOK'
    BY <1>1, <1>2, FaultSteps DEF BeginFails
  <2>. QED BY <1>2, <2>1, BoundAssumption
           DEF BeginFails, End, Ended, TypeOK, FaultsOK, ControlOK, Accounted,
               ReadOnlyOK, JobOK, HashedOK, DestOK, VerifiedOK, LinksOK, Live, PartialOK
<1>3. CASE LocalDone
  BY <1>3 DEF LocalDone, ForgetJob, NoFiles, NoLeftovers, faults, TypeOK, ControlOK,
              Accounted, ReadOnlyOK, JobOK, HashedOK, DestOK, VerifiedOK, LinksOK,
              Live, PartialOK, Private, Local, Classify, Leftover
<1>4. CASE Clear
  <2>1. FaultsOK'
    BY <1>1, <1>4, FaultSteps DEF Clear
  <2>2. CASE RemoveSome("partial") /\ UNCHANGED pc /\ NoFault
    BY <1>4, <2>2, UnlinkStep DEF Clear, RemoveSome, NoFault
  <2>3. CASE RemoveRoot("partial") /\ pc' = "remote"
    <3>1. /\ fs' \in [Sibling -> Tree \cup {Absent}] /\ file' = file /\ FewerNames
          /\ \A t \in Sibling : t # "partial" => fs'[t] = fs[t]
      BY <2>3, RootFacts
    <3>2. Accounted' /\ ReadOnlyOK' /\ (Private => Private')
      BY <3>1, FewerNamesFacts
    <3>3. TypeOK'
      BY <1>4, <2>1, <2>3, <3>1 DEF Clear, TypeOK, FaultsOK
    <3>4. JobOK'
      BY <1>4, <2>3, <3>1 DEF Clear, JobOK, Local, Classify, Leftover
    <3>. QED BY <1>4, <2>3, <3>1, <3>2, <3>3, <3>4
             DEF Clear, ControlOK, HashedOK, DestOK, VerifiedOK, LinksOK, Live,
                 Holds, PartialOK
  <2>4. CASE UNCHANGED disk /\ pc' \in {"remote", "clearShared"}
    BY <1>4, <2>1, <2>4
       DEF Clear, TypeOK, FaultsOK, ControlOK, Accounted, ReadOnlyOK, JobOK, HashedOK,
           DestOK, VerifiedOK, LinksOK, Live, PartialOK, Private, Local, Classify, Leftover
  <2>. QED BY <1>4, <2>2, <2>3, <2>4 DEF Clear
<1>5. CASE ClearShared
  <2>1. FaultsOK'
    BY <1>1, <1>5, FaultSteps DEF ClearShared
  <2>2. CASE DropShared("partial") /\ UNCHANGED <<pc, err, job>> /\ NoFault
    BY <1>5, <2>2, DropSharedUnlinks, UnlinkStep DEF ClearShared, NoFault
  <2>3. CASE UNCHANGED <<disk, err, job>> /\ pc' = "remote"
    BY <1>5, <2>1, <2>3
       DEF ClearShared, TypeOK, FaultsOK, ControlOK, Accounted, ReadOnlyOK, JobOK,
           HashedOK, DestOK, VerifiedOK, LinksOK, Live, PartialOK, Private, Local,
           Classify, Leftover
  <2>4. CASE UNCHANGED disk /\ pc' = "keep" /\ err' = "other" /\ ForgetJob
    BY <1>5, <2>1, <2>4
       DEF ClearShared, ForgetJob, NoFiles, NoLeftovers, TypeOK, FaultsOK, ControlOK,
           Accounted, ReadOnlyOK, JobOK, HashedOK, DestOK, VerifiedOK, LinksOK, Live,
           PartialOK
  <2>. QED BY <1>5, <2>2, <2>3, <2>4 DEF ClearShared
<1>6. CASE RemoteDone
  BY <1>6 DEF RemoteDone, ForgetJob, NoFiles, NoLeftovers, faults, TypeOK, ControlOK,
              Accounted, ReadOnlyOK, JobOK, HashedOK, DestOK, VerifiedOK, LinksOK,
              Live, PartialOK, Private
<1>. QED BY <1>2, <1>3, <1>4, <1>5, <1>6

\* What is moved out of the resume directory of tmp is no name of a tree.
LEMMA ResumeDirStuckStep == ASSUME IInv, ResumeDirStuck PROVE IInv'
<1>. USE DEF IInv, ctl, Staging, Swapping, Labels, Sibling
<1>1. FaultsOK'
  BY FaultSteps DEF ResumeDirStuck, TypeOK, FaultsOK
<1>2. /\ fs' \in [Sibling -> Tree \cup {Absent}] /\ file' = file /\ FewerNames
      /\ \A t \in Sibling : t # "partial" => fs'[t] = fs[t]
  <2>1. CASE fs' = fs
    BY <2>1 DEF ResumeDirStuck, TypeOK, FewerNames
  <2>2. CASE fs["partial"] = Absent /\ fs' = [fs EXCEPT !["partial"] = EmptyTree]
    BY <2>2, EmptyFacts DEF ResumeDirStuck
  <2>3. CASE fs["partial"] # Absent /\ fs' = [fs EXCEPT !["partial"] = fs["partial"]]
    <3>1. fs' = fs
      BY <2>3 DEF TypeOK
    <3>. QED BY <3>1 DEF ResumeDirStuck, TypeOK, FewerNames
  <2>. QED BY <2>1, <2>2, <2>3 DEF ResumeDirStuck
<1>3. Accounted' /\ ReadOnlyOK' /\ (Private => Private')
  BY <1>2, FewerNamesFacts
<1>4. TypeOK'
  BY <1>1, <1>2
     DEF ResumeDirStuck, ForgetJob, NoFiles, NoLeftovers, TypeOK, FaultsOK
<1>. QED BY <1>2, <1>3, <1>4
         DEF ResumeDirStuck, ForgetJob, ControlOK, JobOK, HashedOK, DestOK,
             VerifiedOK, LinksOK, Live, PartialOK

LEMMA StageStep == ASSUME IInv, Stage PROVE IInv'
BY BeginStageStep, StageLinkStep, StageOpenStep, WriteStep, StageFailsStep,
   StageControlStep, ResumeDirStuckStep DEF Stage

-----------------------------------------------------------------------------
(* Verification and the swap.                                              *)

LEMMA VerifyStep == ASSUME IInv, Verified \/ Refused PROVE IInv'
<1>. USE DEF IInv, disk, ctl, job, Staging, Swapping, Labels, Sibling
<1>1. FaultsOK'
  BY FaultSteps DEF Verified, Refused, NoFault, TypeOK, FaultsOK
<1>2. CASE Verified
  BY <1>1, <1>2 DEF Verified, TypeOK, FaultsOK, ControlOK, Accounted, ReadOnlyOK,
              JobOK, HashedOK, DestOK, VerifiedOK, LinksOK, Live, PartialOK
<1>3. CASE Refused
  BY <1>1, <1>3 DEF Refused, TypeOK, FaultsOK, ControlOK, Accounted, ReadOnlyOK,
              JobOK, HashedOK, DestOK, VerifiedOK, LinksOK, Live, PartialOK
<1>. QED BY <1>2, <1>3

\* The two renames and the one that takes the first back.
LEMMA SwapStep ==
    ASSUME IInv, SetAside \/ Install \/ InstallFails \/ Rollback
    PROVE  IInv'
<1>. USE DEF IInv, disk, ctl, job, Staging, Swapping, Labels, Sibling
<1>1. FaultsOK /\ (UNCHANGED faults => FaultsOK')
  BY DEF TypeOK, FaultsOK, faults
<1>2. CASE SetAside
  <2>1. FaultsOK'
    BY <1>1, <1>2, FaultSteps DEF SetAside, NoFault
  <2>2. CASE fs["old"] = Absent /\ fs' = Move(fs, "dest", "old") /\ pc' = "install"
             /\ UNCHANGED err
    <3>1. /\ fs' \in [Sibling -> Tree \cup {Absent}]
          /\ fs'["old"] = fs["dest"] /\ fs'["dest"] = Absent
          /\ fs'["tmp"] = fs["tmp"] /\ fs'["partial"] = fs["partial"]
          /\ Accounted' /\ ReadOnlyOK' /\ file' = file
      BY <1>2, <2>2, MoveFacts DEF SetAside
    <3>2. TypeOK'
      BY <1>2, <2>1, <2>2, <3>1 DEF SetAside, TypeOK, FaultsOK
    <3>. QED BY <1>2, <2>2, <3>1, <3>2
             DEF SetAside, ControlOK, JobOK, HashedOK, DestOK, VerifiedOK, LinksOK,
                 Live, PartialOK, View
  <2>3. CASE UNCHANGED fs /\ pc' = "keep" /\ err' = "other"
    BY <1>2, <2>1, <2>3
       DEF SetAside, TypeOK, FaultsOK, ControlOK, Accounted, ReadOnlyOK, JobOK,
           HashedOK, DestOK, VerifiedOK, LinksOK, Live, PartialOK
  <2>. QED BY <1>2, <2>2, <2>3 DEF SetAside
<1>3. CASE Install
  <2>1. fs["dest"] = Absent /\ fs["tmp"] # Absent
    BY <1>3 DEF Install, AtInstall, DestOK, JobOK
  <2>2. /\ fs' \in [Sibling -> Tree \cup {Absent}]
        /\ fs'["dest"] = fs["tmp"] /\ fs'["tmp"] = Absent
        /\ fs'["old"] = fs["old"] /\ fs'["partial"] = fs["partial"]
        /\ Accounted' /\ ReadOnlyOK' /\ file' = file
    BY <1>3, <2>1, MoveFacts DEF Install
  <2>3. TypeOK'
    BY <1>1, <1>3, <2>2 DEF Install, TypeOK, FaultsOK
  <2>. QED BY <1>3, <2>1, <2>2, <2>3
           DEF Install, AtInstall, ControlOK, JobOK, HashedOK, DestOK, VerifiedOK,
               LinksOK, Live, PartialOK, View
<1>4. CASE InstallFails
  <2>1. FaultsOK'
    BY <1>1, <1>4, FaultSteps DEF InstallFails
  <2>. QED BY <1>4, <2>1
           DEF InstallFails, AtInstall, TypeOK, FaultsOK, ControlOK, Accounted,
               ReadOnlyOK, JobOK, HashedOK, DestOK, VerifiedOK, LinksOK, Live, PartialOK
<1>5. CASE Rollback
  <2>1. FaultsOK'
    BY <1>1, <1>5, FaultSteps DEF Rollback
  <2>2. CASE fs' = Move(fs, "old", "dest")
    <3>1. fs["dest"] = Absent /\ fs["old"] # Absent
      BY <1>5 DEF Rollback, DestOK
    <3>2. /\ fs' \in [Sibling -> Tree \cup {Absent}]
          /\ fs'["dest"] = fs["old"] /\ fs'["old"] = Absent
          /\ fs'["tmp"] = fs["tmp"] /\ fs'["partial"] = fs["partial"]
          /\ Accounted' /\ ReadOnlyOK' /\ file' = file
      BY <1>5, <2>2, <3>1, MoveFacts DEF Rollback
    <3>3. TypeOK'
      BY <1>5, <2>1, <3>2 DEF Rollback, TypeOK, FaultsOK
    <3>. QED BY <1>5, <3>1, <3>2, <3>3
             DEF Rollback, ControlOK, JobOK, HashedOK, DestOK, VerifiedOK, LinksOK,
                 Live, PartialOK
  <2>3. CASE UNCHANGED fs
    BY <1>5, <2>1, <2>3
       DEF Rollback, TypeOK, FaultsOK, ControlOK, Accounted, ReadOnlyOK, JobOK,
           HashedOK, DestOK, VerifiedOK, LinksOK, Live, PartialOK
  <2>. QED BY <1>5, <2>2, <2>3 DEF Rollback
<1>. QED BY <1>2, <1>3, <1>4, <1>5

LEMMA RemoveOldStep == ASSUME IInv, RemoveOld PROVE IInv'
<1>. USE DEF IInv, disk, ctl, job, Staging, Swapping, Labels, Sibling
<1>1. pc = "removeOld" /\ fs["dest"] # Absent /\ FaultsOK' /\ FaultsOK
  BY FaultSteps DEF RemoveOld, DestOK, TypeOK, FaultsOK
<1>2. CASE fs["old"] # Absent /\ RemoveSome("old") /\ UNCHANGED <<pc, ctl, err, man>>
           /\ NoFault
  BY <1>1, <1>2, UnlinkStep DEF RemoveOld, RemoveSome, NoFault
<1>3. CASE RemoveRoot("old") /\ End("ok")
  <2>1. /\ fs' \in [Sibling -> Tree \cup {Absent}] /\ file' = file /\ FewerNames
        /\ \A t \in Sibling : t # "old" => fs'[t] = fs[t]
    BY <1>3, RootFacts
  <2>2. Accounted' /\ ReadOnlyOK'
    BY <2>1, FewerNamesFacts
  <2>3. TypeOK'
    BY <1>1, <1>3, <2>1, BoundAssumption
       DEF RemoveOld, End, Ended, TypeOK, FaultsOK
  <2>. QED BY <1>1, <1>3, <2>1, <2>2, <2>3
           DEF RemoveOld, End, ControlOK, JobOK, HashedOK, DestOK, VerifiedOK, LinksOK,
               Live, PartialOK
<1>4. CASE UNCHANGED disk /\ End("ok")
  BY <1>1, <1>4, BoundAssumption
     DEF RemoveOld, End, Ended, TypeOK, FaultsOK, ControlOK, Accounted, ReadOnlyOK,
         JobOK, HashedOK, DestOK, VerifiedOK, LinksOK, Live, PartialOK
<1>. QED BY <1>2, <1>3, <1>4 DEF RemoveOld

-----------------------------------------------------------------------------
(* Calls, kills and other programs.                                        *)

LEMMA WorldStep ==
    ASSUME IInv,
           (\E c \in Calls : Start(c)) \/ Kill \/ \E p \in Path, d \in Data : OutsideWrite(p, d)
    PROVE  IInv'
<1>. USE DEF IInv, disk, ctl, job, Staging, Swapping, Labels, Sibling
<1>1. CASE \E c \in Calls : Start(c)
  BY <1>1 DEF Start, Ended, faults, TypeOK, ControlOK, Accounted, ReadOnlyOK, JobOK,
              HashedOK, DestOK, VerifiedOK, LinksOK, Live, PartialOK
<1>2. CASE Kill
  <2>1. kills' \in 0..MaxKills
    BY <1>2, BoundAssumption DEF Kill, TypeOK
  <2>2. TypeOK'
    BY <1>2, <2>1, BoundAssumption
       DEF Kill, End, ForgetJob, NoFiles, NoLeftovers, Ended, TypeOK
  <2>. QED BY <1>2, <2>2
           DEF Kill, End, ForgetJob, ControlOK, Accounted, ReadOnlyOK, JobOK, HashedOK,
               DestOK, VerifiedOK, LinksOK, Live, PartialOK
<1>3. ASSUME NEW p \in Path, NEW d \in Data, OutsideWrite(p, d)
      PROVE  IInv'
  <2>. DEFINE i == fs["dest"][p]
  <2>1. i \in Inode /\ file[i] # Nil
    BY <1>3 DEF OutsideWrite, Holds, TypeOK, Tree, Accounted
  <2>2. /\ file' \in [Inode -> File \cup {Nil}]
        /\ Accounted' /\ ReadOnlyOK'
        /\ \A j \in Inode : file'[j].mode = file[j].mode
    BY <1>3, <2>1, DataFacts DEF OutsideWrite
  <2>3. edits' \in 0..MaxEdits
    BY <1>3, BoundAssumption DEF OutsideWrite, TypeOK
  <2>4. TypeOK'
    BY <1>3, <2>2, <2>3 DEF OutsideWrite, TypeOK
  <2>5. JobOK'
    BY <1>3 DEF OutsideWrite, JobOK, Local, Classify, Leftover, Sole, Holds
  <2>6. HashedOK'
    BY <1>3, <2>2 DEF OutsideWrite, HashedOK, Holds, TypeOK, Tree
  <2>7. DestOK' /\ ControlOK'
    BY <1>3 DEF OutsideWrite, DestOK, ControlOK
  <2>8. VerifiedOK'
    BY <1>3 DEF OutsideWrite, VerifiedOK
  <2>9. LinksOK'
    BY <1>3 DEF OutsideWrite, LinksOK, Live, Distinct, Holds
  <2>10. PartialOK'
    BY <1>3 DEF OutsideWrite, PartialOK, Private, Sole, Holds
  <2>. QED BY <2>2, <2>4, <2>5, <2>6, <2>7, <2>8, <2>9, <2>10
<1>. QED BY <1>1, <1>2, <1>3

-----------------------------------------------------------------------------
(* The invariant.                                                          *)

LEMMA InitInvariant == ASSUME Init PROVE IInv
<1>1. PICK d \in Disks : fs = d.fs /\ file = d.file
  BY DEF Init
<1>2. WellFormed(fs, file)
  BY <1>1, DiskAssumption
<1>3. TypeOK
  BY <1>2, BoundAssumption
     DEF Init, WellFormed, TypeOK, Labels, Ended, NoFiles, NoLeftovers
<1>4. Accounted
  BY <1>2 DEF WellFormed, Accounted, Named, Holds, Tree
<1>5. ReadOnlyOK /\ LinksOK
  BY <1>2 DEF Init, WellFormed, ReadOnlyOK, LinksOK, Live, Staging, Distinct, Sibling
<1>6. JobOK /\ HashedOK /\ DestOK /\ VerifiedOK /\ PartialOK /\ ControlOK
  BY DEF Init, JobOK, HashedOK, DestOK, VerifiedOK, PartialOK, ControlOK, Staging,
         Swapping
<1>. QED BY <1>3, <1>4, <1>5, <1>6 DEF IInv

LEMMA NextInvariant == ASSUME IInv, [Next]_vars PROVE IInv'
<1>1. CASE Next
  BY <1>1, WorldStep, RecoverStep, KeepStagedStep, UnsharePartialStep, StageStep,
     VerifyStep, SwapStep, RemoveOldStep DEF Next, Step, Swap
<1>2. CASE UNCHANGED vars
  <2>1. UNCHANGED <<fs, file, pc, call, attempt, result, err, man, live, index, todo,
                    writing, taken, had, fsFaults, netFaults, kills, edits>>
    BY <1>2 DEF vars, disk, ctl, job, faults
  <2>2. TypeOK' /\ Accounted' /\ JobOK' /\ HashedOK' /\ DestOK'
    BY <2>1 DEF IInv, TypeOK, Accounted, JobOK, HashedOK, DestOK, Holds, Sole, Local,
                Classify, Leftover
  <2>3. VerifiedOK' /\ LinksOK' /\ PartialOK' /\ ReadOnlyOK' /\ ControlOK'
    BY <2>1 DEF IInv, VerifiedOK, LinksOK, PartialOK, ReadOnlyOK, ControlOK, Live,
                Holds, Sole, Private, Distinct, View
  <2>. QED BY <2>2, <2>3 DEF IInv
<1>. QED BY <1>1, <1>2

\* Whatever is killed, refused or overwritten, the directories stay as IInv
\* describes them for each place the process can be at.
THEOREM Invariance == Spec => []IInv
<1>1. Init => IInv
  BY InitInvariant
<1>2. IInv /\ [Next]_vars => IInv'
  BY NextInvariant
<1>. QED BY <1>1, <1>2, PTL DEF Spec

\* Every variable of Replace keeps its type.
THEOREM TypeCorrect == Spec => []TypeOK
BY Invariance, PTL DEF IInv

\* The destination never has one file under two paths (SeparateFiles).
THEOREM FilesAreSeparate == Spec => []SeparateFiles
<1>1. IInv => SeparateFiles
  BY DEF IInv, LinksOK, Live, SeparateFiles, Distinct
<1>. QED BY <1>1, Invariance, PTL
=============================================================================
