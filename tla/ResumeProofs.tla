---------------------------- MODULE ResumeProofs ----------------------------
(***************************************************************************)
(* Proofs about Resume, for objects of any size over any bytes and tags.   *)
(*                                                                         *)
(* RInv is inductive: for every pc it says which of the files that the     *)
(* code at that point relies on (a free place to create one at, data of    *)
(* its own to write to, the content it is about to install) are there.     *)
(* First what the changes of a tree keep (PutFits, RenameFits, DropFits),  *)
(* then one lemma per action: those that change no file, then the others.  *)
(*                                                                         *)
(* KInv goes with it: where the prefix is that the next pull would find,   *)
(* in every attempt in which nothing went wrong.  Its proof is that of     *)
(* KeepsPrefix too: a lemma per action says what becomes of the prefix.    *)
(***************************************************************************)
EXTENDS ResumeInv, TLAPS

-----------------------------------------------------------------------------
(* The helpers.                                                            *)

\* The loops run over names of prefix files; discard takes the data first.
LEMMA Orders == /\ <<>> \in Seq(Kept)
                /\ Adopted \in Seq(Kept) /\ Discarded \in Seq(Kept) /\ Listed \in Seq(Kept)
                /\ Head(Discarded) = "data"
  BY DEF Adopted, Discarded, Listed, Kept

LEMMA Loops == ASSUME NEW s \in Seq(Kept), s # <<>>
               PROVE  Head(s) \in Kept /\ Tail(s) \in Seq(Kept)
  OBVIOUS

\* A file put at a name it fits keeps every tree well formed.
LEMMA PutFits ==
    ASSUME FilesOK, NEW t \in Tree, NEW n \in Name, NEW x, Fits(n, x),
           t \in trees \/ x = Nil, Put(t, n, x)
    PROVE  /\ FilesOK' /\ trees' = trees
           /\ files'[t][n] = x
           /\ \A u \in Tree, m \in Name : <<u, m>> # <<t, n>> => files'[u][m] = files[u][m]
<1>1. x \in DataFile \cup Tag \cup {Nil}
  BY DEF Fits
<1>2. files' \in [Tree -> [Name -> DataFile \cup Tag \cup {Nil}]]
  BY <1>1 DEF FilesOK, Put
<1>3. files'[t][n] = x
  BY DEF FilesOK, Put
<1>4. \A u \in Tree, m \in Name : <<u, m>> # <<t, n>> => files'[u][m] = files[u][m]
  BY DEF FilesOK, Put
<1>5. \A u \in Tree, m \in Name : Fits(m, files'[u][m])
  BY <1>3, <1>4 DEF FilesOK, Fits
<1>6. \A u \in Tree : u \notin trees => files'[u] = Bare
  BY DEF FilesOK, Put, Bare
<1>. QED BY <1>2, <1>3, <1>4, <1>5, <1>6 DEF FilesOK, Put

\* So does a rename, within a tree or between two.
LEMMA RenameFits ==
    ASSUME FilesOK, NEW t \in Tree, NEW n \in Name, NEW u \in Tree, NEW m \in Name,
           Fits(m, files[t][n]), Rename(t, n, u, m), <<t, n>> # <<u, m>>,
           trees' \in SUBSET Tree, trees \subseteq trees', u \in trees'
    PROVE  /\ FilesOK'
           /\ files'[t][n] = Nil /\ files'[u][m] = files[t][n]
           /\ \A v \in Tree, k \in Name :
                 <<v, k>> \notin {<<t, n>>, <<u, m>>} => files'[v][k] = files[v][k]
<1>1. files' \in [Tree -> [Name -> DataFile \cup Tag \cup {Nil}]]
  BY DEF FilesOK, Rename
<1>2. files'[t][n] = Nil /\ files'[u][m] = files[t][n]
  BY DEF FilesOK, Rename
<1>3. \A v \in Tree, k \in Name :
         <<v, k>> \notin {<<t, n>>, <<u, m>>} => files'[v][k] = files[v][k]
  BY DEF FilesOK, Rename
<1>4. \A v \in Tree, k \in Name : Fits(k, files'[v][k])
  BY <1>2, <1>3 DEF FilesOK, Fits
<1>5. \A v \in Tree : v \notin trees' => files'[v] = Bare
  BY DEF FilesOK, Rename, Bare
<1>. QED BY <1>1, <1>2, <1>3, <1>4, <1>5 DEF FilesOK

\* Dropping the shared files of a tree removes files, and no others.
LEMMA DropFits ==
    ASSUME FilesOK, NEW t \in Tree, DropShared(t),
           trees' \in SUBSET Tree, trees \subseteq trees'
    PROVE  /\ FilesOK'
           /\ \A u \in Tree, n \in Name : files'[u][n] \in {files[u][n], Nil}
           /\ \A u \in Tree \ {t} : files'[u] = files[u]
           /\ files[t] = Bare => files' = files
<1>1. files' \in [Tree -> [Name -> DataFile \cup Tag \cup {Nil}]]
  BY DEF FilesOK, DropShared
<1>2. \A u \in Tree, n \in Name : files'[u][n] \in {files[u][n], Nil}
  BY DEF FilesOK, DropShared
<1>3. \A u \in Tree \ {t} : files'[u] = files[u]
  BY DEF FilesOK, DropShared
<1>4. \A v \in Tree, k \in Name : Fits(k, files'[v][k])
  BY <1>2 DEF FilesOK, Fits
<1>5. files[t] = Bare => files'[t] = Bare
  BY DEF FilesOK, DropShared, Bare
<1>. QED BY <1>1, <1>2, <1>3, <1>4, <1>5 DEF FilesOK

\* Nil, tags and data files are told apart.
LEMMA Responses ==
    /\ Objects \subseteq Response
    /\ Nil \notin Response /\ Nil \notin DataFile /\ Nil \notin Tag
    /\ \A e \in Tag : e \notin DataFile
  BY ObjectsAssumption, NilAssumption, TagAssumption DEF Response, DataFile

\* The history's types.
Counted == hurt \in Nat /\ spent \in 0 .. MaxTroubles /\ spoilt \in BOOLEAN

\* A failing operation is counted, so the second of an attempt is seen to be one.
LEMMA Breaking ==
    ASSUME ResumeTypeOK, Breaks
    PROVE  Counted' /\ hurt' > 0 /\ (hurt > 0 \/ hurt > 1 => hurt' > 1)
<1>1. hurt \in Nat /\ hurt' = hurt + 1
  BY DEF ResumeTypeOK, Breaks
<1>2. hurt' > 0 /\ (hurt > 0 \/ hurt > 1 => hurt' > 1)
  BY <1>1
<1>. QED BY <1>1, <1>2, MaxTroublesAssumption DEF ResumeTypeOK, Breaks, Spend, Counted

\* What createData makes.
LEMMA NewFiles ==
    /\ NewFile \in DataFile /\ NewFile # Nil
    /\ NewFile.bytes = <<>> /\ Len(NewFile.bytes) = 0 /\ NewFile.sole
    /\ \A n \in {"dst", "data"} : Fits(n, NewFile)
<1>1. NewFile \in DataFile /\ NewFile.bytes = <<>> /\ NewFile.sole
  BY DEF NewFile, DataFile
<1>2. Len(NewFile.bytes) = 0 /\ 0 <= Size + 1
  BY <1>1, WantAssumption DEF Size
<1>. QED BY <1>1, <1>2, Responses DEF Fits

\* A file gets a byte longer.
LEMMA Extending ==
    ASSUME NEW f \in DataFile, NEW b \in Byte
    PROVE  /\ Extended(f, b) \in DataFile
           /\ Extended(f, b).sole = f.sole
           /\ Extended(f, b).bytes = Append(f.bytes, b)
<1>1. f.bytes \in Seq(Byte) /\ f.sole \in BOOLEAN /\ f = [bytes |-> f.bytes, sole |-> f.sole]
  BY DEF DataFile
<1>2. Extended(f, b) = [bytes |-> Append(f.bytes, b), sole |-> f.sole]
  BY <1>1 DEF Extended
<1>3. Append(f.bytes, b) \in Seq(Byte)
  BY <1>1
<1>. QED BY <1>1, <1>2, <1>3 DEF DataFile

-----------------------------------------------------------------------------
(* The actions that change no file.                                        *)

LEMMA BeginStep ==
    ASSUME RInv, Begin, UNCHANGED object
    PROVE  RInv'
<1>. USE DEF RInv, Begin, Fresh
<1>1. files' = files /\ trees' = trees /\ FilesOK'
  BY DEF ResumeTypeOK, FilesOK
<1>2. hurt \in Nat /\ Counted' /\ hurt' \in {hurt, 0}
  BY DEF ResumeTypeOK, Counted
<1>3. ResumeTypeOK'
  BY <1>1, <1>2, Responses DEF ResumeTypeOK, Labels, Reasons, Counted
<1>4. TmpThere' /\ Answered' /\ Hurting'
  BY <1>1, <1>2, Responses DEF TmpThere, Answered, Hurting
<1>5. DstFree' /\ DataFree'
  BY <1>1 DEF DstFree, DataFree, Written, Tmp
<1>6. Written' /\ StagedRight'
  BY <1>1 DEF Written, Own, Tmp, Data, Prev, StagedRight, Installed
<1>7. NeverInItsOwnWay' /\ OnlyFaultsStick' /\ OneFaultIsCheap'
  BY <1>1, <1>2 DEF NeverInItsOwnWay, OnlyFaultsStick, OneFaultIsCheap,
     Hurting
<1>. QED BY <1>3, <1>4, <1>5, <1>6, <1>7

LEMMA StashedStep ==
    ASSUME RInv, Stashed, UNCHANGED object
    PROVE  RInv'
<1>. USE DEF RInv, Stashed, Goto, Fine, Stay, history
<1>1. files' = files /\ trees' = trees /\ FilesOK'
  BY DEF ResumeTypeOK, FilesOK
<1>2. hurt \in Nat /\ Counted' /\ hurt' \in {hurt, 0}
  BY DEF ResumeTypeOK, Counted
<1>3. ResumeTypeOK'
  BY <1>1, <1>2, Responses DEF ResumeTypeOK, Labels, Reasons, Counted
<1>4. TmpThere' /\ Answered' /\ Hurting'
  BY <1>1, <1>2, Responses DEF TmpThere, Answered, Hurting
<1>5. DstFree' /\ DataFree'
  BY <1>1 DEF DstFree, DataFree, Written, Tmp
<1>6. Written' /\ StagedRight'
  BY <1>1 DEF Written, Own, Tmp, Data, Prev, StagedRight, Installed
<1>7. NeverInItsOwnWay' /\ OnlyFaultsStick' /\ OneFaultIsCheap'
  BY <1>1, <1>2 DEF NeverInItsOwnWay, OnlyFaultsStick, OneFaultIsCheap,
     Hurting
<1>. QED BY <1>3, <1>4, <1>5, <1>6, <1>7

LEMMA LocalStagedStep ==
    ASSUME RInv, LocalStaged, UNCHANGED object
    PROVE  RInv'
<1>. USE DEF RInv, LocalStaged, Loop, Fine, Stay, history
<1>1. files' = files /\ trees' = trees /\ FilesOK'
  BY DEF ResumeTypeOK, FilesOK
<1>2. hurt \in Nat /\ Counted' /\ hurt' \in {hurt, 0}
  BY DEF ResumeTypeOK, Counted
<1>3. ResumeTypeOK'
  BY <1>1, <1>2, Responses, Orders DEF ResumeTypeOK, Labels, Reasons,
     Counted
<1>4. TmpThere' /\ Answered' /\ Hurting'
  BY <1>1, <1>2, Responses DEF TmpThere, Answered, Hurting
<1>5. DstFree' /\ DataFree'
  BY <1>1 DEF DstFree, DataFree, Written, Tmp
<1>6. Written' /\ StagedRight'
  BY <1>1 DEF Written, Own, Tmp, Data, Prev, StagedRight, Installed
<1>7. NeverInItsOwnWay' /\ OnlyFaultsStick' /\ OneFaultIsCheap'
  BY <1>1, <1>2 DEF NeverInItsOwnWay, OnlyFaultsStick, OneFaultIsCheap,
     Hurting
<1>. QED BY <1>3, <1>4, <1>5, <1>6, <1>7

LEMMA AdoptingStep ==
    ASSUME RInv, Adopting, UNCHANGED object
    PROVE  RInv'
<1>. USE DEF RInv, Adopting, Goto, Fine, Stay, history
<1>1. files' = files /\ trees' = trees /\ FilesOK'
  BY DEF ResumeTypeOK, FilesOK
<1>2. hurt \in Nat /\ Counted' /\ hurt' \in {hurt, 0}
  BY DEF ResumeTypeOK, Counted
<1>3. ResumeTypeOK'
  BY <1>1, <1>2, Responses DEF ResumeTypeOK, Labels, Reasons, Counted
<1>4. TmpThere' /\ Answered' /\ Hurting'
  BY <1>1, <1>2, Responses DEF TmpThere, Answered, Hurting
<1>5. DstFree' /\ DataFree'
  BY <1>1 DEF DstFree, DataFree, Written, Tmp
<1>6. Written' /\ StagedRight'
  BY <1>1 DEF Written, Own, Tmp, Data, Prev, StagedRight, Installed
<1>7. NeverInItsOwnWay' /\ OnlyFaultsStick' /\ OneFaultIsCheap'
  BY <1>1, <1>2 DEF NeverInItsOwnWay, OnlyFaultsStick, OneFaultIsCheap,
     Hurting
<1>. QED BY <1>3, <1>4, <1>5, <1>6, <1>7

LEMMA MkdirAllStep ==
    ASSUME RInv, MkdirAll, UNCHANGED object
    PROVE  RInv'
<1>. USE DEF RInv, MkdirAll, Goto, Fine, Stay, history
<1>1. files' = files /\ trees' = trees /\ FilesOK'
  BY DEF ResumeTypeOK, FilesOK
<1>2. hurt \in Nat /\ Counted' /\ hurt' \in {hurt, 0}
  BY DEF ResumeTypeOK, Counted
<1>3. ResumeTypeOK'
  BY <1>1, <1>2, Responses DEF ResumeTypeOK, Labels, Reasons, Counted
<1>4. TmpThere' /\ Answered' /\ Hurting'
  BY <1>1, <1>2, Responses DEF TmpThere, Answered, Hurting
<1>5. DstFree' /\ DataFree'
  BY <1>1 DEF DstFree, DataFree, Written, Tmp
<1>6. Written' /\ StagedRight'
  BY <1>1 DEF Written, Own, Tmp, Data, Prev, StagedRight, Installed
<1>7. NeverInItsOwnWay' /\ OnlyFaultsStick' /\ OneFaultIsCheap'
  BY <1>1, <1>2 DEF NeverInItsOwnWay, OnlyFaultsStick, OneFaultIsCheap,
     Hurting
<1>. QED BY <1>3, <1>4, <1>5, <1>6, <1>7

LEMMA RefusedStep ==
    ASSUME RInv, Refused, UNCHANGED object
    PROVE  RInv'
<1>. USE DEF RInv, Refused, Loop, Fine, Stay, history
<1>1. files' = files /\ trees' = trees /\ FilesOK'
  BY DEF ResumeTypeOK, FilesOK
<1>2. hurt \in Nat /\ Counted' /\ hurt' \in {hurt, 0}
  BY DEF ResumeTypeOK, Counted
<1>3. ResumeTypeOK'
  BY <1>1, <1>2, Responses, Orders DEF ResumeTypeOK, Labels, Reasons,
     Counted
<1>4. TmpThere' /\ Answered' /\ Hurting'
  BY <1>1, <1>2, Responses DEF TmpThere, Answered, Hurting
<1>5. DstFree' /\ DataFree'
  BY <1>1 DEF DstFree, DataFree, Written, Tmp
<1>6. Written' /\ StagedRight'
  BY <1>1 DEF Written, Own, Tmp, Data, Prev, StagedRight, Installed
<1>7. NeverInItsOwnWay' /\ OnlyFaultsStick' /\ OneFaultIsCheap'
  BY <1>1, <1>2 DEF NeverInItsOwnWay, OnlyFaultsStick, OneFaultIsCheap,
     Hurting
<1>. QED BY <1>3, <1>4, <1>5, <1>6, <1>7

LEMMA KnownBadStep ==
    ASSUME RInv, KnownBad, UNCHANGED object
    PROVE  RInv'
<1>. USE DEF RInv, KnownBad, Fail, Fine, Stay, history
<1>1. files' = files /\ trees' = trees /\ FilesOK'
  BY DEF ResumeTypeOK, FilesOK
<1>2. hurt \in Nat /\ Counted' /\ hurt' \in {hurt, 0}
  BY DEF ResumeTypeOK, Counted
<1>3. ResumeTypeOK'
  BY <1>1, <1>2, Responses, Orders DEF ResumeTypeOK, Labels, Reasons,
     Counted
<1>4. TmpThere' /\ Answered' /\ Hurting'
  BY <1>1, <1>2, Responses DEF TmpThere, Answered, Hurting
<1>5. DstFree' /\ DataFree'
  BY <1>1 DEF DstFree, DataFree, Written, Tmp
<1>6. Written' /\ StagedRight'
  BY <1>1 DEF Written, Own, Tmp, Data, Prev, StagedRight, Installed
<1>7. NeverInItsOwnWay' /\ OnlyFaultsStick' /\ OneFaultIsCheap'
  BY <1>1, <1>2 DEF NeverInItsOwnWay, OnlyFaultsStick, OneFaultIsCheap,
     Hurting
<1>. QED BY <1>3, <1>4, <1>5, <1>6, <1>7

LEMMA GetStep ==
    ASSUME RInv, Get, UNCHANGED object
    PROVE  RInv'
<1>. USE DEF RInv, Get, Respond, Fine, Stay, history
<1>1. files' = files /\ trees' = trees /\ FilesOK'
  BY DEF ResumeTypeOK, FilesOK
<1>2. hurt \in Nat /\ Counted' /\ hurt' \in {hurt, 0}
  BY DEF ResumeTypeOK, Counted
<1>3. ResumeTypeOK'
  BY <1>1, <1>2, Responses DEF ResumeTypeOK, Labels, Reasons, Counted
<1>4. TmpThere' /\ Answered' /\ Hurting'
  BY <1>1, <1>2, Responses DEF TmpThere, Answered, Hurting, ResumeTypeOK
<1>5. DstFree' /\ DataFree'
  BY <1>1 DEF DstFree, DataFree, Written, Tmp
<1>6. Written' /\ StagedRight'
  BY <1>1 DEF Written, Own, Tmp, Data, Prev, StagedRight, Installed
<1>7. NeverInItsOwnWay' /\ OnlyFaultsStick' /\ OneFaultIsCheap'
  BY <1>1, <1>2 DEF NeverInItsOwnWay, OnlyFaultsStick, OneFaultIsCheap,
     Hurting
<1>. QED BY <1>3, <1>4, <1>5, <1>6, <1>7

LEMMA MismatchStep ==
    ASSUME RInv, Mismatch, UNCHANGED object
    PROVE  RInv'
<1>. USE DEF RInv, Mismatch, Fail, Fine, Stay, history
<1>1. files' = files /\ trees' = trees /\ FilesOK'
  BY DEF ResumeTypeOK, FilesOK
<1>2. hurt \in Nat /\ Counted' /\ hurt' \in {hurt, 0}
  BY DEF ResumeTypeOK, Counted
<1>3. ResumeTypeOK'
  BY <1>1, <1>2, Responses, Orders DEF ResumeTypeOK, Labels, Reasons,
     Counted, EndOfBody, Receiving
<1>4. TmpThere' /\ Answered' /\ Hurting'
  BY <1>1, <1>2, Responses DEF TmpThere, Answered, Hurting, EndOfBody,
     Receiving
<1>5. DstFree' /\ DataFree'
  BY <1>1 DEF DstFree, DataFree, Written, Tmp, EndOfBody, Receiving
<1>6. Written' /\ StagedRight'
  BY <1>1 DEF Written, Own, Tmp, Data, Prev, StagedRight, Installed,
     EndOfBody, Receiving
<1>7. NeverInItsOwnWay' /\ OnlyFaultsStick' /\ OneFaultIsCheap'
  BY <1>1, <1>2 DEF NeverInItsOwnWay, OnlyFaultsStick, OneFaultIsCheap,
     Hurting, EndOfBody, Receiving
<1>. QED BY <1>3, <1>4, <1>5, <1>6, <1>7

LEMMA ChmodStep ==
    ASSUME RInv, Chmod, UNCHANGED object
    PROVE  RInv'
<1>. USE DEF RInv, Chmod, Goto, Fine, Stay, history
<1>1. files' = files /\ trees' = trees /\ FilesOK'
  BY DEF ResumeTypeOK, FilesOK
<1>2. hurt \in Nat /\ Counted' /\ hurt' \in {hurt, 0}
  BY DEF ResumeTypeOK, Counted
<1>3. ResumeTypeOK'
  BY <1>1, <1>2, Responses DEF ResumeTypeOK, Labels, Reasons, Counted
<1>4. TmpThere' /\ Answered' /\ Hurting'
  BY <1>1, <1>2, Responses DEF TmpThere, Answered, Hurting
<1>5. DstFree' /\ DataFree'
  BY <1>1 DEF DstFree, DataFree, Written, Tmp
<1>6. Written' /\ StagedRight'
  BY <1>1 DEF Written, Own, Tmp, Data, Prev, StagedRight, Installed
<1>7. NeverInItsOwnWay' /\ OnlyFaultsStick' /\ OneFaultIsCheap'
  BY <1>1, <1>2 DEF NeverInItsOwnWay, OnlyFaultsStick, OneFaultIsCheap,
     Hurting
<1>. QED BY <1>3, <1>4, <1>5, <1>6, <1>7

LEMMA RemoteStagedStep ==
    ASSUME RInv, RemoteStaged, UNCHANGED object
    PROVE  RInv'
<1>. USE DEF RInv, RemoteStaged, Goto, Fine, Stay, history
<1>1. files' = files /\ trees' = trees /\ FilesOK'
  BY DEF ResumeTypeOK, FilesOK
<1>2. hurt \in Nat /\ Counted' /\ hurt' \in {hurt, 0}
  BY DEF ResumeTypeOK, Counted
<1>3. ResumeTypeOK'
  BY <1>1, <1>2, Responses DEF ResumeTypeOK, Labels, Reasons, Counted
<1>4. TmpThere' /\ Answered' /\ Hurting'
  BY <1>1, <1>2, Responses DEF TmpThere, Answered, Hurting
<1>5. DstFree' /\ DataFree'
  BY <1>1 DEF DstFree, DataFree, Written, Tmp
<1>6. Written' /\ StagedRight'
  BY <1>1 DEF Written, Own, Tmp, Data, Prev, StagedRight, Installed
<1>7. NeverInItsOwnWay' /\ OnlyFaultsStick' /\ OneFaultIsCheap'
  BY <1>1, <1>2 DEF NeverInItsOwnWay, OnlyFaultsStick, OneFaultIsCheap,
     Hurting
<1>. QED BY <1>3, <1>4, <1>5, <1>6, <1>7

LEMMA DirClearedStep ==
    ASSUME RInv, DirCleared, UNCHANGED object
    PROVE  RInv'
<1>. USE DEF RInv, DirCleared, Goto, Fine, Removed, history
<1>1. files' = files /\ trees' = trees /\ FilesOK'
  BY DEF ResumeTypeOK, FilesOK
<1>2. hurt \in Nat /\ Counted' /\ hurt' \in {hurt, 0}
  BY DEF ResumeTypeOK, Counted
<1>3. ResumeTypeOK'
  BY <1>1, <1>2, Responses DEF ResumeTypeOK, Labels, Reasons, Counted
<1>4. TmpThere' /\ Answered' /\ Hurting'
  BY <1>1, <1>2, Responses DEF TmpThere, Answered, Hurting
<1>5. DstFree' /\ DataFree'
  BY <1>1 DEF DstFree, DataFree, Written, Tmp
<1>6. Written' /\ StagedRight'
  BY <1>1 DEF Written, Own, Tmp, Data, Prev, StagedRight, Installed
<1>7. NeverInItsOwnWay' /\ OnlyFaultsStick' /\ OneFaultIsCheap'
  BY <1>1, <1>2 DEF NeverInItsOwnWay, OnlyFaultsStick, OneFaultIsCheap,
     Hurting
<1>. QED BY <1>3, <1>4, <1>5, <1>6, <1>7

LEMMA KeepFailsStep ==
    ASSUME RInv, KeepFails, UNCHANGED object
    PROVE  RInv'
<1>. USE DEF RInv, KeepFails, StashFails, Goto, Loop
<1>1. files' = files /\ trees' = trees /\ FilesOK'
  BY DEF ResumeTypeOK, FilesOK, Breaks
<1>2. Counted' /\ hurt' > 0 /\ (hurt > 0 \/ hurt > 1 => hurt' > 1)
  BY Breaking DEF ResumeTypeOK
<1>3. ResumeTypeOK'
  BY <1>1, <1>2, Responses, Orders, Loops DEF ResumeTypeOK, Labels, Reasons,
     Counted
<1>4. TmpThere' /\ Answered' /\ Hurting'
  <2>1. spoilt' = TRUE
    BY DEF Breaks
  <2>2. TmpThere' /\ Answered'
    BY <1>1, Responses DEF TmpThere, Answered
  <2>3. pc' \notin {"drop", "aside", "cleardir again"}
    OBVIOUS
  <2>. QED BY <2>1, <2>2, <2>3 DEF Hurting
<1>5. DstFree' /\ DataFree'
  BY <1>1 DEF DstFree, DataFree, Written, Tmp
<1>6. Written' /\ StagedRight'
  BY <1>1 DEF Written, Own, Tmp, Data, Prev, StagedRight, Installed
<1>7. NeverInItsOwnWay' /\ OnlyFaultsStick' /\ OneFaultIsCheap'
  BY <1>1, <1>2 DEF NeverInItsOwnWay, OnlyFaultsStick, OneFaultIsCheap,
     Hurting
<1>. QED BY <1>3, <1>4, <1>5, <1>6, <1>7

LEMMA StageFailsStep ==
    ASSUME RInv, StageFails, UNCHANGED object
    PROVE  RInv'
<1>. USE DEF RInv, StageFails, Goto, Loop, Fail
<1>1. files' = files /\ trees' = trees /\ FilesOK'
  BY DEF ResumeTypeOK, FilesOK, Breaks
<1>2. Counted' /\ hurt' > 0 /\ (hurt > 0 \/ hurt > 1 => hurt' > 1)
  BY Breaking DEF ResumeTypeOK
<1>3. ResumeTypeOK'
  BY <1>1, <1>2, Responses, Orders, Loops DEF ResumeTypeOK, Labels, Reasons,
     Counted
<1>4. TmpThere' /\ Answered' /\ Hurting'
  <2>1. spoilt' = TRUE
    BY DEF Breaks
  <2>2. TmpThere' /\ Answered'
    BY <1>1, Responses DEF TmpThere, Answered
  <2>. QED BY <1>2, <2>1, <2>2 DEF Hurting
<1>5. DstFree' /\ DataFree'
  BY <1>1 DEF DstFree, DataFree, Written, Tmp
<1>6. Written' /\ StagedRight'
  BY <1>1 DEF Written, Own, Tmp, Data, Prev, StagedRight, Installed
<1>7. NeverInItsOwnWay' /\ OnlyFaultsStick' /\ OneFaultIsCheap'
  BY <1>1, <1>2 DEF NeverInItsOwnWay, OnlyFaultsStick, OneFaultIsCheap,
     Hurting
<1>. QED BY <1>3, <1>4, <1>5, <1>6, <1>7

LEMMA PrefixFailsStep ==
    ASSUME RInv, PrefixFails, UNCHANGED object
    PROVE  RInv'
<1>. USE DEF RInv, PrefixFails, Loop, Fail, Stuck
<1>1. files' = files /\ trees' = trees /\ FilesOK'
  BY DEF ResumeTypeOK, FilesOK, Breaks
<1>2. Counted' /\ hurt' > 0 /\ (hurt > 0 \/ hurt > 1 => hurt' > 1)
  BY Breaking DEF ResumeTypeOK
<1>3. ResumeTypeOK'
  BY <1>1, <1>2, Responses, Orders DEF ResumeTypeOK, Labels, Reasons,
     Counted
<1>4. TmpThere' /\ Answered' /\ Hurting'
  BY <1>1, <1>2, Responses DEF TmpThere, Answered, Hurting
<1>5. DstFree' /\ DataFree'
  BY <1>1 DEF DstFree, DataFree, Written, Tmp
<1>6. Written' /\ StagedRight'
  BY <1>1 DEF Written, Own, Tmp, Data, Prev, StagedRight, Installed
<1>7. NeverInItsOwnWay' /\ OnlyFaultsStick' /\ OneFaultIsCheap'
  BY <1>1, <1>2 DEF NeverInItsOwnWay, OnlyFaultsStick, OneFaultIsCheap,
     Hurting
<1>. QED BY <1>3, <1>4, <1>5, <1>6, <1>7

LEMMA DropInfoFailsStep ==
    ASSUME RInv, DropInfoFails, UNCHANGED object
    PROVE  RInv'
<1>. USE DEF RInv, DropInfoFails, Goto
<1>1. files' = files /\ trees' = trees /\ FilesOK'
  BY DEF ResumeTypeOK, FilesOK, Breaks
<1>2. Counted' /\ hurt' > 0 /\ (hurt > 0 \/ hurt > 1 => hurt' > 1)
  BY Breaking DEF ResumeTypeOK
<1>3. ResumeTypeOK'
  BY <1>1, <1>2, Responses DEF ResumeTypeOK, Labels, Reasons, Counted
<1>4. TmpThere' /\ Answered' /\ Hurting'
  BY <1>1, <1>2, Responses DEF TmpThere, Answered, Hurting
<1>5. DstFree' /\ DataFree'
  BY <1>1 DEF DstFree, DataFree, Written, Tmp
<1>6. Written' /\ StagedRight'
  BY <1>1 DEF Written, Own, Tmp, Data, Prev, StagedRight, Installed
<1>7. NeverInItsOwnWay' /\ OnlyFaultsStick' /\ OneFaultIsCheap'
  BY <1>1, <1>2 DEF NeverInItsOwnWay, OnlyFaultsStick, OneFaultIsCheap,
     Hurting
<1>. QED BY <1>3, <1>4, <1>5, <1>6, <1>7

LEMMA EndFailsStep ==
    ASSUME RInv, EndFails, UNCHANGED object
    PROVE  RInv'
<1>. USE DEF RInv, EndFails, StashFails, Loop, Fail
<1>1. files' = files /\ trees' = trees /\ FilesOK'
  BY DEF ResumeTypeOK, FilesOK, Breaks
<1>2. Counted' /\ hurt' > 0 /\ (hurt > 0 \/ hurt > 1 => hurt' > 1)
  BY Breaking DEF ResumeTypeOK
<1>3. ResumeTypeOK'
  BY <1>1, <1>2, Responses, Orders, Loops DEF ResumeTypeOK, Labels, Reasons,
     Counted
<1>4. TmpThere' /\ Answered' /\ Hurting'
  BY <1>1, <1>2, Responses DEF TmpThere, Answered, Hurting
<1>5. DstFree' /\ DataFree'
  BY <1>1 DEF DstFree, DataFree, Written, Tmp
<1>6. Written' /\ StagedRight'
  BY <1>1 DEF Written, Own, Tmp, Data, Prev, StagedRight, Installed
<1>7. NeverInItsOwnWay' /\ OnlyFaultsStick' /\ OneFaultIsCheap'
  BY <1>1, <1>2 DEF NeverInItsOwnWay, OnlyFaultsStick, OneFaultIsCheap,
     Hurting
<1>. QED BY <1>3, <1>4, <1>5, <1>6, <1>7

LEMMA NetFailsStep ==
    ASSUME RInv, NetFails, UNCHANGED object
    PROVE  RInv'
<1>. USE DEF RInv, NetFails, Fail, Fine, Stay, history
<1>1. files' = files /\ trees' = trees /\ FilesOK'
  BY DEF ResumeTypeOK, FilesOK
<1>2. hurt \in Nat /\ Counted' /\ hurt' \in {hurt, 0}
  BY DEF ResumeTypeOK, Counted
<1>3. ResumeTypeOK'
  BY <1>1, <1>2, Responses, Orders DEF ResumeTypeOK, Labels, Reasons,
     Counted, EndOfBody, Receiving
<1>4. TmpThere' /\ Answered' /\ Hurting'
  BY <1>1, <1>2, Responses DEF TmpThere, Answered, Hurting, EndOfBody,
     Receiving
<1>5. DstFree' /\ DataFree'
  BY <1>1 DEF DstFree, DataFree, Written, Tmp, EndOfBody, Receiving
<1>6. Written' /\ StagedRight'
  BY <1>1 DEF Written, Own, Tmp, Data, Prev, StagedRight, Installed,
     EndOfBody, Receiving
<1>7. NeverInItsOwnWay' /\ OnlyFaultsStick' /\ OneFaultIsCheap'
  BY <1>1, <1>2 DEF NeverInItsOwnWay, OnlyFaultsStick, OneFaultIsCheap,
     Hurting, EndOfBody, Receiving
<1>. QED BY <1>3, <1>4, <1>5, <1>6, <1>7

LEMMA RangeIgnoredStep ==
    ASSUME RInv, RangeIgnored, UNCHANGED object
    PROVE  RInv'
<1>. USE DEF RInv, RangeIgnored
<1>1. files' = files /\ trees' = trees /\ FilesOK'
  BY DEF ResumeTypeOK, FilesOK
<1>2. hurt \in Nat /\ Counted' /\ hurt' = hurt
  BY MaxTroublesAssumption DEF ResumeTypeOK, Counted, Spend
<1>3. ResumeTypeOK'
  BY <1>1, <1>2, Responses, Orders DEF ResumeTypeOK, Labels, Reasons,
     Counted
<1>4. TmpThere' /\ Answered' /\ Hurting'
  BY <1>1, <1>2, Responses DEF TmpThere, Answered, Hurting
<1>5. DstFree' /\ DataFree'
  BY <1>1 DEF DstFree, DataFree, Written, Tmp
<1>6. Written' /\ StagedRight'
  BY <1>1 DEF Written, Own, Tmp, Data, Prev, StagedRight, Installed
<1>7. NeverInItsOwnWay' /\ OnlyFaultsStick' /\ OneFaultIsCheap'
  BY <1>1, <1>2 DEF NeverInItsOwnWay, OnlyFaultsStick, OneFaultIsCheap,
     Hurting
<1>. QED BY <1>3, <1>4, <1>5, <1>6, <1>7

LEMMA ShrankStep ==
    ASSUME RInv, Shrank, UNCHANGED object
    PROVE  RInv'
<1>. USE DEF RInv, Shrank
<1>1. /\ FilesOK' /\ trees' = trees /\ \A k \in Name \ {"prev"} : Tmp(k)' = Tmp(k)
  <2>1. "prev" \in Name /\ "tmp" \in Tree /\ "tmp" \in trees
    BY DEF Name, Kept, Tree, ResumeTypeOK, TmpThere
  <2>2. Tmp("data") \in DataFile /\ Tmp("prev") \in DataFile /\ Len(Data) <= Len(Prev)
        /\ Len(Prev) <= Size + 1
    BY <2>1, Responses DEF Written, Own, ResumeTypeOK, FilesOK, Fits, Tmp, Data, Prev, Name, Kept
  <2>3. Len(Data) \in Nat /\ Len(Prev) \in Nat /\ Size \in Nat
    BY <2>2, WantAssumption DEF DataFile, Data, Prev, Size
  <2> DEFINE cut == [Tmp("prev") EXCEPT !.bytes = Data]
  <2>4. cut \in DataFile /\ cut.bytes = Data
    BY <2>2 DEF DataFile, Data
  <2>5. Fits("prev", cut)
    BY <2>2, <2>3, <2>4 DEF Fits
  <2>. QED BY <2>1, <2>5, PutFits DEF ResumeTypeOK, Tmp
<1>2. hurt \in Nat /\ Counted' /\ hurt' = hurt
  BY MaxTroublesAssumption DEF ResumeTypeOK, Counted, Spend
<1>3. ResumeTypeOK'
  BY <1>1, <1>2, Responses, Orders DEF ResumeTypeOK, Labels, Reasons,
     Counted
<1>4. TmpThere' /\ Answered' /\ Hurting'
  BY <1>1, <1>2, Responses DEF TmpThere, Answered, Hurting
<1>5. DstFree' /\ DataFree'
  BY <1>1 DEF DstFree, DataFree, Written, Tmp, Name, Kept
<1>6. Written' /\ StagedRight'
  BY <1>1 DEF Written, Own, Tmp, Data, Prev, StagedRight, Installed
<1>7. NeverInItsOwnWay' /\ OnlyFaultsStick' /\ OneFaultIsCheap'
  BY <1>1, <1>2 DEF NeverInItsOwnWay, OnlyFaultsStick, OneFaultIsCheap,
     Hurting
<1>. QED BY <1>3, <1>4, <1>5, <1>6, <1>7

LEMMA OthersFailStep ==
    ASSUME RInv, OthersFail, UNCHANGED object
    PROVE  RInv'
<1>. USE DEF RInv, OthersFail, Fail, Fine, Stay, history
<1>1. files' = files /\ trees' = trees /\ FilesOK'
  BY DEF ResumeTypeOK, FilesOK
<1>2. hurt \in Nat /\ Counted' /\ hurt' \in {hurt, 0}
  BY DEF ResumeTypeOK, Counted
<1>3. ResumeTypeOK'
  BY <1>1, <1>2, Responses, Orders DEF ResumeTypeOK, Labels, Reasons,
     Counted
<1>4. TmpThere' /\ Answered' /\ Hurting'
  BY <1>1, <1>2, Responses DEF TmpThere, Answered, Hurting
<1>5. DstFree' /\ DataFree'
  BY <1>1 DEF DstFree, DataFree, Written, Tmp
<1>6. Written' /\ StagedRight'
  BY <1>1 DEF Written, Own, Tmp, Data, Prev, StagedRight, Installed
<1>7. NeverInItsOwnWay' /\ OnlyFaultsStick' /\ OneFaultIsCheap'
  BY <1>1, <1>2 DEF NeverInItsOwnWay, OnlyFaultsStick, OneFaultIsCheap,
     Hurting
<1>. QED BY <1>3, <1>4, <1>5, <1>6, <1>7

LEMMA LoadStep ==
    ASSUME RInv, Load, UNCHANGED object
    PROVE  RInv'
<1>. USE DEF RInv, Load, Goto, Loop, Respond, Fine, Stay, history
<1>1. files' = files /\ trees' = trees /\ FilesOK'
  BY DEF ResumeTypeOK, FilesOK
<1>2. hurt \in Nat /\ Counted' /\ hurt' \in {hurt, 0}
  BY DEF ResumeTypeOK, Counted
<1>3. ResumeTypeOK'
  <2>1. Usable => [body |-> <<>>, tag |-> Tmp("info")] \in Response
    BY DEF ResumeTypeOK, FilesOK, Fits, Usable, Tmp, Response, Tree, Name, Kept
  <2>. QED BY <1>1, <1>2, <2>1, Orders DEF ResumeTypeOK, Labels
<1>4. TmpThere' /\ Answered' /\ Hurting'
  <2>1. Usable => [body |-> <<>>, tag |-> Tmp("info")] \in Response
    BY DEF ResumeTypeOK, FilesOK, Fits, Usable, Tmp, Response, Tree, Name, Kept
  <2>. QED BY <1>1, <1>2, <2>1 DEF TmpThere, Answered, Hurting
<1>5. DstFree' /\ DataFree'
  BY <1>1 DEF DstFree, DataFree, Written, Tmp
<1>6. Written' /\ StagedRight'
  <2>1. pc' = "range" \/ pc' = "extend" => Tmp("data") # Nil
    BY DEF Usable
  <2>2. pc' \in {"range", "extend", "discard"}
    OBVIOUS
  <2>3. Tmp("data")' = Tmp("data")
    BY <1>1 DEF Tmp
  <2>. QED BY <2>1, <2>2, <2>3 DEF Written, StagedRight, Installed
<1>7. NeverInItsOwnWay' /\ OnlyFaultsStick' /\ OneFaultIsCheap'
  BY <1>1, <1>2 DEF NeverInItsOwnWay, OnlyFaultsStick, OneFaultIsCheap,
     Hurting
<1>. QED BY <1>3, <1>4, <1>5, <1>6, <1>7

LEMMA ContinueStep ==
    ASSUME RInv, Continue, UNCHANGED object
    PROVE  RInv'
<1>. USE DEF RInv, Continue, Respond, Fine, Stay, history
<1>1. files' = files /\ trees' = trees /\ FilesOK'
  BY DEF ResumeTypeOK, FilesOK
<1>2. hurt \in Nat /\ Counted' /\ hurt' \in {hurt, 0}
  BY DEF ResumeTypeOK, Counted
<1>3. ResumeTypeOK'
  <2>1. Data \in Seq(Byte)
    BY DEF ResumeTypeOK, FilesOK, Fits, Written, Data, Tmp, DataFile, Tree, Name, Kept
  <2>2. SubSeq(object.body, Len(Data) + 1, Size) \in Seq(Byte)
    BY <2>1, Responses, WantAssumption DEF ResumeTypeOK, Response, Size, Continues
  <2>3. stream' \in Response
    BY <2>2, Responses DEF ResumeTypeOK, Response
  <2>. QED BY <1>1, <1>2, <2>3 DEF ResumeTypeOK, Labels
<1>4. TmpThere' /\ Answered' /\ Hurting'
  <2>1. Data \in Seq(Byte)
    BY DEF ResumeTypeOK, FilesOK, Fits, Written, Data, Tmp, DataFile, Tree, Name, Kept
  <2>2. SubSeq(object.body, Len(Data) + 1, Size) \in Seq(Byte)
    BY <2>1, Responses, WantAssumption DEF ResumeTypeOK, Response, Size, Continues
  <2>3. stream' \in Response
    BY <2>2, Responses DEF ResumeTypeOK, Response
  <2>. QED BY <1>1, <1>2, <2>3 DEF TmpThere, Answered, Hurting
<1>5. DstFree' /\ DataFree'
  BY <1>1 DEF DstFree, DataFree, Written, Tmp
<1>6. Written' /\ StagedRight'
  BY <1>1 DEF Written, Own, Tmp, Data, Prev, StagedRight, Installed
<1>7. NeverInItsOwnWay' /\ OnlyFaultsStick' /\ OneFaultIsCheap'
  BY <1>1, <1>2 DEF NeverInItsOwnWay, OnlyFaultsStick, OneFaultIsCheap,
     Hurting
<1>. QED BY <1>3, <1>4, <1>5, <1>6, <1>7

LEMMA AfreshStep ==
    ASSUME RInv, Afresh, UNCHANGED object
    PROVE  RInv'
<1>. USE DEF RInv, Afresh, Goto, Fine, Stay, history
<1>1. files' = files /\ trees' = trees /\ FilesOK'
  BY DEF ResumeTypeOK, FilesOK
<1>2. hurt \in Nat /\ Counted' /\ hurt' \in {hurt, 0}
  BY DEF ResumeTypeOK, Counted
<1>3. ResumeTypeOK'
  BY <1>1, <1>2, Responses DEF ResumeTypeOK, Labels, Reasons, Counted
<1>4. TmpThere' /\ Answered' /\ Hurting'
  BY <1>1, <1>2, Responses DEF TmpThere, Answered, Hurting, ResumeTypeOK
<1>5. DstFree' /\ DataFree'
  BY <1>1 DEF DstFree, DataFree, Written, Tmp, Discarded
<1>6. Written' /\ StagedRight'
  BY <1>1 DEF Written, Own, Tmp, Data, Prev, StagedRight, Installed
<1>7. NeverInItsOwnWay' /\ OnlyFaultsStick' /\ OneFaultIsCheap'
  BY <1>1, <1>2 DEF NeverInItsOwnWay, OnlyFaultsStick, OneFaultIsCheap,
     Hurting
<1>. QED BY <1>3, <1>4, <1>5, <1>6, <1>7

LEMMA CompleteStep ==
    ASSUME RInv, Complete, UNCHANGED object
    PROVE  RInv'
<1>. USE DEF RInv, Complete, Respond, Fine, Stay, history
<1>1. files' = files /\ trees' = trees /\ FilesOK'
  BY DEF ResumeTypeOK, FilesOK
<1>2. hurt \in Nat /\ Counted' /\ hurt' \in {hurt, 0}
  BY DEF ResumeTypeOK, Counted
<1>3. ResumeTypeOK'
  BY <1>1, <1>2, Responses DEF ResumeTypeOK, Labels, Reasons, Counted,
     EndOfBody, Receiving
<1>4. TmpThere' /\ Answered' /\ Hurting'
  BY <1>1, <1>2, Responses DEF TmpThere, Answered, Hurting, EndOfBody,
     Receiving
<1>5. DstFree' /\ DataFree'
  BY <1>1 DEF DstFree, DataFree, Written, Tmp, EndOfBody, Receiving
<1>6. Written' /\ StagedRight'
  <2>1. pc = "writing" => Tmp("dst") = [bytes |-> Want, sole |-> TRUE]
    BY DEF ResumeTypeOK, FilesOK, Fits, Written, Own, Tmp, DataFile, Verified, Received, Sink,
           Tree, Name, Kept
  <2>2. pc \in {"extending", "fetching"} => Tmp("data") = [bytes |-> Want, sole |-> TRUE]
    BY DEF ResumeTypeOK, FilesOK, Fits, Written, Own, Tmp, DataFile, Verified, Received, Sink,
           Tree, Name, Kept
  <2>. QED BY <1>1, <2>1, <2>2 DEF Written, StagedRight, Installed, EndOfBody, Receiving, Tmp
<1>7. NeverInItsOwnWay' /\ OnlyFaultsStick' /\ OneFaultIsCheap'
  BY <1>1, <1>2 DEF NeverInItsOwnWay, OnlyFaultsStick, OneFaultIsCheap,
     Hurting, EndOfBody, Receiving
<1>. QED BY <1>3, <1>4, <1>5, <1>6, <1>7

-----------------------------------------------------------------------------
(* The actions that do.                                                    *)

LEMMA KeepStep ==
    ASSUME RInv, Keep, UNCHANGED object
    PROVE  RInv'
<1>. USE DEF RInv, Keep, Goto, Loop, Fine, history
<1>1. FilesOK' /\ trees' = trees
  BY DropFits DEF ResumeTypeOK, FilesOK, Tree
<1>2. hurt \in Nat /\ Counted' /\ hurt' \in {hurt, 0}
  BY DEF ResumeTypeOK, Counted
<1>3. ResumeTypeOK'
  BY <1>1, <1>2, Responses, Orders DEF ResumeTypeOK, Labels, Reasons,
     Counted
<1>4. TmpThere' /\ Answered' /\ Hurting'
  BY <1>1, <1>2, Responses DEF TmpThere, Answered, Hurting
<1>5. DstFree' /\ DataFree'
  BY <1>1 DEF DstFree, DataFree, Written, Tmp
<1>6. Written' /\ StagedRight'
  BY <1>1 DEF Written, Own, Tmp, Data, Prev, StagedRight, Installed
<1>7. NeverInItsOwnWay' /\ OnlyFaultsStick' /\ OneFaultIsCheap'
  BY <1>1, <1>2 DEF NeverInItsOwnWay, OnlyFaultsStick, OneFaultIsCheap,
     Hurting
<1>. QED BY <1>3, <1>4, <1>5, <1>6, <1>7

LEMMA KeepRenameStep ==
    ASSUME RInv, KeepRename, UNCHANGED object
    PROVE  RInv'
<1>. USE DEF RInv, KeepRename, Goto, Fine, AfterKeep, history
<1>1. FilesOK' /\ trees' = {"partial"}
  <2>1. files' \in [Tree -> [Name -> DataFile \cup Tag \cup {Nil}]]
    BY DEF ResumeTypeOK, FilesOK, Bare, Tree
  <2>2. \A n \in Name : files'["tmp"][n] = Nil /\ files'["partial"][n] \in {files["tmp"][n], Nil}
    BY DEF ResumeTypeOK, FilesOK, Bare, Tree
  <2>3. \A t \in Tree, n \in Name : Fits(n, files'[t][n])
    BY <2>2 DEF ResumeTypeOK, FilesOK, Fits, Tree
  <2>4. files'["tmp"] = Bare
    BY DEF ResumeTypeOK, FilesOK, Tree
  <2>. QED BY <2>1, <2>3, <2>4 DEF FilesOK, Tree
<1>2. hurt \in Nat /\ Counted' /\ hurt' \in {hurt, 0}
  BY DEF ResumeTypeOK, Counted
<1>3. ResumeTypeOK'
  BY <1>1, <1>2, Responses DEF ResumeTypeOK, Labels, Reasons, Counted
<1>4. TmpThere' /\ Answered' /\ Hurting'
  BY <1>1, <1>2, Responses DEF TmpThere, Answered, Hurting
<1>5. DstFree' /\ DataFree'
  BY <1>1 DEF DstFree, DataFree, Written, Tmp
<1>6. Written' /\ StagedRight'
  BY <1>1 DEF Written, Own, Tmp, Data, Prev, StagedRight, Installed
<1>7. NeverInItsOwnWay' /\ OnlyFaultsStick' /\ OneFaultIsCheap'
  BY <1>1, <1>2 DEF NeverInItsOwnWay, OnlyFaultsStick, OneFaultIsCheap,
     Hurting
<1>. QED BY <1>3, <1>4, <1>5, <1>6, <1>7

LEMMA MkdirStashStep ==
    ASSUME RInv, MkdirStash, UNCHANGED object
    PROVE  RInv'
<1>. USE DEF RInv, MkdirStash, Fine, memory, history
<1>1. files' = files /\ trees' = trees \cup {"partial"} /\ FilesOK'
  BY DEF ResumeTypeOK, FilesOK, Tree
<1>2. hurt \in Nat /\ Counted' /\ hurt' \in {hurt, 0}
  BY DEF ResumeTypeOK, Counted
<1>3. ResumeTypeOK'
  BY <1>1, <1>2, Responses DEF ResumeTypeOK, Labels, Reasons, Counted
<1>4. TmpThere' /\ Answered' /\ Hurting'
  BY <1>1, <1>2, Responses DEF TmpThere, Answered, Hurting
<1>5. DstFree' /\ DataFree'
  BY <1>1 DEF DstFree, DataFree, Written, Tmp
<1>6. Written' /\ StagedRight'
  BY <1>1 DEF Written, Own, Tmp, Data, Prev, StagedRight, Installed
<1>7. NeverInItsOwnWay' /\ OnlyFaultsStick' /\ OneFaultIsCheap'
  BY <1>1, <1>2 DEF NeverInItsOwnWay, OnlyFaultsStick, OneFaultIsCheap,
     Hurting
<1>. QED BY <1>3, <1>4, <1>5, <1>6, <1>7

LEMMA StashStep ==
    ASSUME RInv, Stash, UNCHANGED object
    PROVE  RInv'
<1>. USE DEF RInv, Stash, Loop, Fine, history
<1>1. FilesOK' /\ trees' = trees /\ Tmp("dst")' = Tmp("dst")
  <2>1. CASE Stashes(Head(todo))
    <3>1. Head(todo) \in Kept /\ todo \in Seq(Kept)
      BY Loops DEF ResumeTypeOK
    <3>2. Head(todo) \in Name /\ Head(todo) # "dst" /\ Fits(Head(todo), files["tmp"][Head(todo)])
      BY <3>1 DEF ResumeTypeOK, FilesOK, Tree, Name, Kept
    <3>3. trees' = trees /\ "partial" \in trees /\ trees' \in SUBSET Tree
      BY <2>1 DEF ResumeTypeOK, FilesOK, Tree
    <3>4. "tmp" \in Tree /\ "partial" \in Tree /\ "dst" \in Name /\ "tmp" # "partial"
      BY DEF Tree, Name
    <3>5. FilesOK' /\ files'["tmp"]["dst"] = files["tmp"]["dst"]
      BY <2>1, <3>2, <3>3, <3>4, RenameFits DEF ResumeTypeOK
    <3>. QED BY <2>1, <3>3, <3>5 DEF Tmp
  <2>2. CASE ~Stashes(Head(todo))
    BY <2>2 DEF ResumeTypeOK, FilesOK, Tmp
  <2>. QED BY <2>1, <2>2
<1>2. hurt \in Nat /\ Counted' /\ hurt' \in {hurt, 0}
  BY DEF ResumeTypeOK, Counted
<1>3. ResumeTypeOK'
  BY <1>1, <1>2, Responses, Loops DEF ResumeTypeOK, Labels, Reasons, Counted
<1>4. TmpThere' /\ Answered' /\ Hurting'
  BY <1>1, <1>2, Responses DEF TmpThere, Answered, Hurting
<1>5. DstFree' /\ DataFree'
  BY <1>1 DEF DstFree, DataFree, Written, Tmp
<1>6. Written' /\ StagedRight'
  BY <1>1 DEF Written, Own, Tmp, Data, Prev, StagedRight, Installed
<1>7. NeverInItsOwnWay' /\ OnlyFaultsStick' /\ OneFaultIsCheap'
  BY <1>1, <1>2 DEF NeverInItsOwnWay, OnlyFaultsStick, OneFaultIsCheap,
     Hurting
<1>. QED BY <1>3, <1>4, <1>5, <1>6, <1>7

LEMMA TmpRemovedStep ==
    ASSUME RInv, TmpRemoved, UNCHANGED object
    PROVE  RInv'
<1>. USE DEF RInv, TmpRemoved, Goto, Fine, AfterKeep, Removed, history
<1>1. FilesOK' /\ files' = files /\ trees' = trees \ {"tmp"}
  <2>1. files["tmp"] = Bare
    BY DEF ResumeTypeOK, FilesOK, Tree, Bare, Root, Doomed
  <2>. QED BY <2>1 DEF ResumeTypeOK, FilesOK
<1>2. hurt \in Nat /\ Counted' /\ hurt' \in {hurt, 0}
  BY DEF ResumeTypeOK, Counted
<1>3. ResumeTypeOK'
  BY <1>1, <1>2, Responses DEF ResumeTypeOK, Labels, Reasons, Counted
<1>4. TmpThere' /\ Answered' /\ Hurting'
  BY <1>1, <1>2, Responses DEF TmpThere, Answered, Hurting
<1>5. DstFree' /\ DataFree'
  BY <1>1 DEF DstFree, DataFree, Written, Tmp
<1>6. Written' /\ StagedRight'
  BY <1>1 DEF Written, Own, Tmp, Data, Prev, StagedRight, Installed
<1>7. NeverInItsOwnWay' /\ OnlyFaultsStick' /\ OneFaultIsCheap'
  BY <1>1, <1>2 DEF NeverInItsOwnWay, OnlyFaultsStick, OneFaultIsCheap,
     Hurting
<1>. QED BY <1>3, <1>4, <1>5, <1>6, <1>7

LEMMA RemoveAllStep ==
    ASSUME RInv, RemoveAll, UNCHANGED object
    PROVE  RInv'
<1>. USE DEF RInv, RemoveAll, Fine, memory, history
<1>1. /\ FilesOK' /\ trees' = trees
      /\ pc = "clear" => files'["tmp"] = files["tmp"]
      /\ pc \in {"cleardir", "cleardir again"} => Tmp("dst")' = Tmp("dst")
  <2>1. PICK n \in Doomed : files[Root][n] # Nil /\ Put(Root, n, Nil)
    OBVIOUS
  <2>2. n \in Name /\ Root \in Tree /\ (pc \in {"cleardir", "cleardir again"} => n # "dst")
    BY DEF Doomed, Root, Tree, Name, Kept
  <2>3. FilesOK' /\ trees' = trees
    BY <2>1, <2>2, PutFits DEF ResumeTypeOK, Fits
  <2>4. pc = "clear" => files'["tmp"] = files["tmp"]
    BY <2>1 DEF Put, Root, ResumeTypeOK, FilesOK, Tree
  <2>5. pc \in {"cleardir", "cleardir again"} => Tmp("dst")' = Tmp("dst")
    BY <2>1, <2>2, PutFits DEF ResumeTypeOK, Fits, Tmp, Tree, Name
  <2>. QED BY <2>3, <2>4, <2>5
<1>2. hurt \in Nat /\ Counted' /\ hurt' \in {hurt, 0}
  BY DEF ResumeTypeOK, Counted
<1>3. ResumeTypeOK'
  BY <1>1, <1>2, Responses DEF ResumeTypeOK, Labels, Reasons, Counted,
     Removing
<1>4. TmpThere' /\ Answered' /\ Hurting'
  BY <1>1, <1>2, Responses DEF TmpThere, Answered, Hurting, Removing
<1>5. DstFree' /\ DataFree'
  BY <1>1 DEF DstFree, DataFree, Written, Tmp, Removing
<1>6. Written' /\ StagedRight'
  BY <1>1 DEF Written, Own, Tmp, Data, Prev, StagedRight, Installed,
     Removing
<1>7. NeverInItsOwnWay' /\ OnlyFaultsStick' /\ OneFaultIsCheap'
  BY <1>1, <1>2 DEF NeverInItsOwnWay, OnlyFaultsStick, OneFaultIsCheap,
     Hurting, Removing
<1>. QED BY <1>3, <1>4, <1>5, <1>6, <1>7

LEMMA UnshareStep ==
    ASSUME RInv, Unshare, UNCHANGED object
    PROVE  RInv'
<1>. USE DEF RInv, Unshare, Recovered, Goto, Fine, Stage, history
<1>1. /\ FilesOK' /\ pc' \in {"local", "idle"}
      /\ pc' = "local" => trees' = trees \cup {"tmp"} /\ Tmp("dst")' = Nil
  <2>1. trees' \in SUBSET Tree /\ trees \subseteq trees'
        /\ (pc' = "local" => trees' = trees \cup {"tmp"} /\ files["tmp"] = Bare)
    BY DEF ResumeTypeOK, FilesOK, Tree, TmpThere
  <2>. QED BY <2>1, DropFits DEF ResumeTypeOK, Tree, Tmp, Bare, Name
<1>2. hurt \in Nat /\ Counted' /\ hurt' \in {hurt, 0}
  BY DEF ResumeTypeOK, Counted
<1>3. ResumeTypeOK'
  BY <1>1, <1>2, Responses DEF ResumeTypeOK, Labels, Reasons, Counted
<1>4. TmpThere' /\ Answered' /\ Hurting'
  BY <1>1, <1>2, Responses DEF TmpThere, Answered, Hurting
<1>5. DstFree' /\ DataFree'
  BY <1>1 DEF DstFree, DataFree, Written, Tmp
<1>6. Written' /\ StagedRight'
  BY <1>1 DEF Written, Own, Tmp, Data, Prev, StagedRight, Installed
<1>7. NeverInItsOwnWay' /\ OnlyFaultsStick' /\ OneFaultIsCheap'
  BY <1>1, <1>2 DEF NeverInItsOwnWay, OnlyFaultsStick, OneFaultIsCheap,
     Hurting
<1>. QED BY <1>3, <1>4, <1>5, <1>6, <1>7

LEMMA SharedRemovedStep ==
    ASSUME RInv, SharedRemoved, UNCHANGED object
    PROVE  RInv'
<1>. USE DEF RInv, SharedRemoved, Recovered, Goto, Fine, Stage, Removed, history
<1>1. /\ FilesOK' /\ pc' \in {"local", "idle"}
      /\ pc' = "local" => trees' = (trees \ {"partial"}) \cup {"tmp"} /\ Tmp("dst")' = Nil
  <2>1. files["partial"] = Bare /\ (pc' = "local" => files["tmp"] = Bare)
    BY DEF ResumeTypeOK, FilesOK, Tree, Bare, Root, Doomed, TmpThere
  <2>. QED BY <2>1 DEF ResumeTypeOK, FilesOK, Tree, Tmp, Bare, Name
<1>2. hurt \in Nat /\ Counted' /\ hurt' \in {hurt, 0}
  BY DEF ResumeTypeOK, Counted
<1>3. ResumeTypeOK'
  BY <1>1, <1>2, Responses DEF ResumeTypeOK, Labels, Reasons, Counted
<1>4. TmpThere' /\ Answered' /\ Hurting'
  BY <1>1, <1>2, Responses DEF TmpThere, Answered, Hurting
<1>5. DstFree' /\ DataFree'
  BY <1>1 DEF DstFree, DataFree, Written, Tmp
<1>6. Written' /\ StagedRight'
  BY <1>1 DEF Written, Own, Tmp, Data, Prev, StagedRight, Installed
<1>7. NeverInItsOwnWay' /\ OnlyFaultsStick' /\ OneFaultIsCheap'
  BY <1>1, <1>2 DEF NeverInItsOwnWay, OnlyFaultsStick, OneFaultIsCheap,
     Hurting
<1>. QED BY <1>3, <1>4, <1>5, <1>6, <1>7

LEMMA ResyncStep ==
    ASSUME RInv, Resync, UNCHANGED object
    PROVE  RInv'
<1>. USE DEF RInv, Resync, Fresh, Stage
<1>1. FilesOK' /\ trees' = trees \cup {"tmp"} /\ Tmp("dst")' = Nil
  <2>1. files["tmp"] = Bare
    BY DEF ResumeTypeOK, FilesOK, Tree, TmpThere
  <2>. QED BY <2>1 DEF ResumeTypeOK, FilesOK, Tree, Tmp, Bare, Name
<1>2. hurt \in Nat /\ Counted' /\ hurt' \in {hurt, 0}
  BY DEF ResumeTypeOK, Counted
<1>3. ResumeTypeOK'
  BY <1>1, <1>2, Responses DEF ResumeTypeOK, Labels, Reasons, Counted
<1>4. TmpThere' /\ Answered' /\ Hurting'
  BY <1>1, <1>2, Responses DEF TmpThere, Answered, Hurting
<1>5. DstFree' /\ DataFree'
  BY <1>1 DEF DstFree, DataFree, Written, Tmp
<1>6. Written' /\ StagedRight'
  BY <1>1 DEF Written, Own, Tmp, Data, Prev, StagedRight, Installed
<1>7. NeverInItsOwnWay' /\ OnlyFaultsStick' /\ OneFaultIsCheap'
  BY <1>1, <1>2 DEF NeverInItsOwnWay, OnlyFaultsStick, OneFaultIsCheap,
     Hurting
<1>. QED BY <1>3, <1>4, <1>5, <1>6, <1>7

LEMMA AdoptStep ==
    ASSUME RInv, Adopt, UNCHANGED object
    PROVE  RInv'
<1>. USE DEF RInv, Adopt, Loop, Fine, history
<1>1. FilesOK' /\ trees' = trees /\ Tmp("dst")' = Tmp("dst")
  <2>1. CASE files["partial"][Head(todo)] # Nil
    <3>1. Head(todo) \in Kept /\ todo \in Seq(Kept)
      BY Loops DEF ResumeTypeOK
    <3>2. Head(todo) \in Name /\ Head(todo) # "dst" /\ Fits(Head(todo), files["partial"][Head(todo)])
      BY <3>1 DEF ResumeTypeOK, FilesOK, Tree, Name, Kept
    <3>3. trees' = trees /\ trees' \in SUBSET Tree /\ "tmp" \in trees
      BY DEF ResumeTypeOK, FilesOK, TmpThere
    <3>4. "tmp" \in Tree /\ "partial" \in Tree /\ "dst" \in Name /\ "tmp" # "partial"
      BY DEF Tree, Name
    <3>5. FilesOK' /\ files'["tmp"]["dst"] = files["tmp"]["dst"]
      BY <2>1, <3>2, <3>3, <3>4, RenameFits DEF ResumeTypeOK
    <3>. QED BY <2>1, <3>3, <3>5 DEF Tmp
  <2>2. CASE files["partial"][Head(todo)] = Nil
    BY <2>2 DEF ResumeTypeOK, FilesOK, Tmp
  <2>. QED BY <2>1, <2>2
<1>2. hurt \in Nat /\ Counted' /\ hurt' \in {hurt, 0}
  BY DEF ResumeTypeOK, Counted
<1>3. ResumeTypeOK'
  BY <1>1, <1>2, Responses, Loops DEF ResumeTypeOK, Labels, Reasons, Counted
<1>4. TmpThere' /\ Answered' /\ Hurting'
  BY <1>1, <1>2, Responses DEF TmpThere, Answered, Hurting
<1>5. DstFree' /\ DataFree'
  BY <1>1 DEF DstFree, DataFree, Written, Tmp
<1>6. Written' /\ StagedRight'
  BY <1>1 DEF Written, Own, Tmp, Data, Prev, StagedRight, Installed
<1>7. NeverInItsOwnWay' /\ OnlyFaultsStick' /\ OneFaultIsCheap'
  BY <1>1, <1>2 DEF NeverInItsOwnWay, OnlyFaultsStick, OneFaultIsCheap,
     Hurting
<1>. QED BY <1>3, <1>4, <1>5, <1>6, <1>7

LEMMA ClearedStep ==
    ASSUME RInv, Cleared, UNCHANGED object
    PROVE  RInv'
<1>. USE DEF RInv, Cleared, Goto, Fine, Removed, history
<1>1. FilesOK' /\ files' = files /\ trees' = trees \ {"partial"}
  <2>1. files["partial"] = Bare
    BY DEF ResumeTypeOK, FilesOK, Tree, Bare, Root, Doomed
  <2>. QED BY <2>1 DEF ResumeTypeOK, FilesOK
<1>2. hurt \in Nat /\ Counted' /\ hurt' \in {hurt, 0}
  BY DEF ResumeTypeOK, Counted
<1>3. ResumeTypeOK'
  BY <1>1, <1>2, Responses DEF ResumeTypeOK, Labels, Reasons, Counted
<1>4. TmpThere' /\ Answered' /\ Hurting'
  BY <1>1, <1>2, Responses DEF TmpThere, Answered, Hurting
<1>5. DstFree' /\ DataFree'
  BY <1>1 DEF DstFree, DataFree, Written, Tmp
<1>6. Written' /\ StagedRight'
  BY <1>1 DEF Written, Own, Tmp, Data, Prev, StagedRight, Installed
<1>7. NeverInItsOwnWay' /\ OnlyFaultsStick' /\ OneFaultIsCheap'
  BY <1>1, <1>2 DEF NeverInItsOwnWay, OnlyFaultsStick, OneFaultIsCheap,
     Hurting
<1>. QED BY <1>3, <1>4, <1>5, <1>6, <1>7

LEMMA ClearSharedStep ==
    ASSUME RInv, ClearShared, UNCHANGED object
    PROVE  RInv'
<1>. USE DEF RInv, ClearShared, Goto, Fine, history
<1>1. FilesOK' /\ trees' = trees /\ files'["tmp"] = files["tmp"]
  BY DropFits DEF ResumeTypeOK, FilesOK, Tree
<1>2. hurt \in Nat /\ Counted' /\ hurt' \in {hurt, 0}
  BY DEF ResumeTypeOK, Counted
<1>3. ResumeTypeOK'
  BY <1>1, <1>2, Responses DEF ResumeTypeOK, Labels, Reasons, Counted
<1>4. TmpThere' /\ Answered' /\ Hurting'
  BY <1>1, <1>2, Responses DEF TmpThere, Answered, Hurting
<1>5. DstFree' /\ DataFree'
  BY <1>1 DEF DstFree, DataFree, Written, Tmp
<1>6. Written' /\ StagedRight'
  BY <1>1 DEF Written, Own, Tmp, Data, Prev, StagedRight, Installed
<1>7. NeverInItsOwnWay' /\ OnlyFaultsStick' /\ OneFaultIsCheap'
  BY <1>1, <1>2 DEF NeverInItsOwnWay, OnlyFaultsStick, OneFaultIsCheap,
     Hurting
<1>. QED BY <1>3, <1>4, <1>5, <1>6, <1>7

LEMMA LoadPrevStep ==
    ASSUME RInv, LoadPrev, UNCHANGED object
    PROVE  RInv'
<1>. USE DEF RInv, LoadPrev, Goto, Fine, history
<1>1. /\ FilesOK' /\ trees' = trees
      /\ Tmp("prev")' = Nil /\ Tmp("data")' = Tmp("prev")
      /\ \A k \in Name \ {"prev", "data"} : Tmp(k)' = Tmp(k)
  <2>1. Fits("data", files["tmp"]["prev"]) /\ "tmp" \in trees /\ trees' \in SUBSET Tree
    BY DEF ResumeTypeOK, FilesOK, Fits, TmpThere, Tree, Name, Kept
  <2>2. "prev" \in Name /\ "data" \in Name /\ "tmp" \in Tree
    BY DEF Name, Kept, Tree
  <2>. QED BY <2>1, <2>2, RenameFits DEF ResumeTypeOK, Tmp
<1>2. hurt \in Nat /\ Counted' /\ hurt' \in {hurt, 0}
  BY DEF ResumeTypeOK, Counted
<1>3. ResumeTypeOK'
  BY <1>1, <1>2, Responses DEF ResumeTypeOK, Labels, Reasons, Counted
<1>4. TmpThere' /\ Answered' /\ Hurting'
  BY <1>1, <1>2, Responses DEF TmpThere, Answered, Hurting
<1>5. DstFree' /\ DataFree'
  BY <1>1 DEF DstFree, DataFree, Written, Tmp, Name, Kept
<1>6. Written' /\ StagedRight'
  BY <1>1 DEF Written, Own, Tmp, Data, Prev, StagedRight, Installed, Name,
     Kept
<1>7. NeverInItsOwnWay' /\ OnlyFaultsStick' /\ OneFaultIsCheap'
  BY <1>1, <1>2 DEF NeverInItsOwnWay, OnlyFaultsStick, OneFaultIsCheap,
     Hurting
<1>. QED BY <1>3, <1>4, <1>5, <1>6, <1>7

LEMMA SetAsideStep ==
    ASSUME RInv, SetAside, UNCHANGED object
    PROVE  RInv'
<1>. USE DEF RInv, SetAside, Goto, Fine, history
<1>1. /\ FilesOK' /\ trees' = trees
      /\ Tmp("data")' = Nil /\ Tmp("prev")' = Tmp("data")
      /\ \A k \in Name \ {"data", "prev"} : Tmp(k)' = Tmp(k)
  <2>1. Fits("prev", files["tmp"]["data"]) /\ "tmp" \in trees /\ trees' \in SUBSET Tree
    BY DEF ResumeTypeOK, FilesOK, Fits, TmpThere, Tree, Name, Kept
  <2>2. "data" \in Name /\ "prev" \in Name /\ "tmp" \in Tree
    BY DEF Name, Kept, Tree
  <2>. QED BY <2>1, <2>2, RenameFits DEF ResumeTypeOK, Tmp
<1>2. hurt \in Nat /\ Counted' /\ hurt' \in {hurt, 0}
  BY DEF ResumeTypeOK, Counted
<1>3. ResumeTypeOK'
  BY <1>1, <1>2, Responses DEF ResumeTypeOK, Labels, Reasons, Counted
<1>4. TmpThere' /\ Answered' /\ Hurting'
  BY <1>1, <1>2, Responses DEF TmpThere, Answered, Hurting
<1>5. DstFree' /\ DataFree'
  BY <1>1 DEF DstFree, DataFree, Written, Tmp, Name, Kept
<1>6. Written' /\ StagedRight'
  BY <1>1 DEF Written, Own, Tmp, Data, Prev, StagedRight, Installed, Name,
     Kept
<1>7. NeverInItsOwnWay' /\ OnlyFaultsStick' /\ OneFaultIsCheap'
  BY <1>1, <1>2 DEF NeverInItsOwnWay, OnlyFaultsStick, OneFaultIsCheap,
     Hurting
<1>. QED BY <1>3, <1>4, <1>5, <1>6, <1>7

LEMMA PublishStep ==
    ASSUME RInv, Publish, UNCHANGED object
    PROVE  RInv'
<1>. USE DEF RInv, Publish, Goto, Fine, history
<1>1. /\ FilesOK' /\ trees' = trees
      /\ Tmp("draft")' = Nil /\ Tmp("info")' = Tmp("draft")
      /\ \A k \in Name \ {"draft", "info"} : Tmp(k)' = Tmp(k)
  <2>1. Fits("info", files["tmp"]["draft"]) /\ "tmp" \in trees /\ trees' \in SUBSET Tree
    BY DEF ResumeTypeOK, FilesOK, Fits, TmpThere, Tree, Name, Kept
  <2>2. "draft" \in Name /\ "info" \in Name /\ "tmp" \in Tree
    BY DEF Name, Kept, Tree
  <2>. QED BY <2>1, <2>2, RenameFits DEF ResumeTypeOK, Tmp
<1>2. hurt \in Nat /\ Counted' /\ hurt' \in {hurt, 0}
  BY DEF ResumeTypeOK, Counted
<1>3. ResumeTypeOK'
  BY <1>1, <1>2, Responses DEF ResumeTypeOK, Labels, Reasons, Counted
<1>4. TmpThere' /\ Answered' /\ Hurting'
  BY <1>1, <1>2, Responses DEF TmpThere, Answered, Hurting
<1>5. DstFree' /\ DataFree'
  BY <1>1 DEF DstFree, DataFree, Written, Tmp, Name, Kept
<1>6. Written' /\ StagedRight'
  BY <1>1 DEF Written, Own, Tmp, Data, Prev, StagedRight, Installed, Name,
     Kept
<1>7. NeverInItsOwnWay' /\ OnlyFaultsStick' /\ OneFaultIsCheap'
  BY <1>1, <1>2 DEF NeverInItsOwnWay, OnlyFaultsStick, OneFaultIsCheap,
     Hurting
<1>. QED BY <1>3, <1>4, <1>5, <1>6, <1>7

LEMMA InstallStep ==
    ASSUME RInv, Install, UNCHANGED object
    PROVE  RInv'
<1>. USE DEF RInv, Install, Goto, Fine, history
<1>1. /\ FilesOK' /\ trees' = trees
      /\ Tmp("data")' = Nil /\ Tmp("dst")' = Tmp("data")
      /\ \A k \in Name \ {"data", "dst"} : Tmp(k)' = Tmp(k)
  <2>1. Fits("dst", files["tmp"]["data"]) /\ "tmp" \in trees /\ trees' \in SUBSET Tree
    BY DEF ResumeTypeOK, FilesOK, Fits, TmpThere, Tree, Name, Kept
  <2>2. "data" \in Name /\ "dst" \in Name /\ "tmp" \in Tree
    BY DEF Name, Kept, Tree
  <2>. QED BY <2>1, <2>2, RenameFits DEF ResumeTypeOK, Tmp
<1>2. hurt \in Nat /\ Counted' /\ hurt' \in {hurt, 0}
  BY DEF ResumeTypeOK, Counted
<1>3. ResumeTypeOK'
  BY <1>1, <1>2, Responses DEF ResumeTypeOK, Labels, Reasons, Counted
<1>4. TmpThere' /\ Answered' /\ Hurting'
  BY <1>1, <1>2, Responses DEF TmpThere, Answered, Hurting
<1>5. DstFree' /\ DataFree'
  BY <1>1 DEF DstFree, DataFree, Written, Tmp, Name, Kept
<1>6. Written' /\ StagedRight'
  BY <1>1 DEF Written, Own, Tmp, Data, Prev, StagedRight, Installed, Name,
     Kept
<1>7. NeverInItsOwnWay' /\ OnlyFaultsStick' /\ OneFaultIsCheap'
  BY <1>1, <1>2 DEF NeverInItsOwnWay, OnlyFaultsStick, OneFaultIsCheap,
     Hurting
<1>. QED BY <1>3, <1>4, <1>5, <1>6, <1>7

LEMMA DropInfoStep ==
    ASSUME RInv, DropInfo, UNCHANGED object
    PROVE  RInv'
<1>. USE DEF RInv, DropInfo, Goto, Fine, history
<1>1. /\ FilesOK' /\ trees' = trees /\ Tmp("info")' = Nil
      /\ \A k \in Name \ {"info"} : Tmp(k)' = Tmp(k)
  <2>1. "info" \in Name /\ "tmp" \in Tree /\ "tmp" \in trees
    BY DEF Name, Kept, Tree, ResumeTypeOK, TmpThere
  <2>2. Put("tmp", "info", Nil) /\ Fits("info", Nil)
    BY DEF ResumeTypeOK, Fits
  <2>. QED BY <2>1, <2>2, PutFits DEF ResumeTypeOK, Tmp
<1>2. hurt \in Nat /\ Counted' /\ hurt' \in {hurt, 0}
  BY DEF ResumeTypeOK, Counted
<1>3. ResumeTypeOK'
  BY <1>1, <1>2, Responses DEF ResumeTypeOK, Labels, Reasons, Counted
<1>4. TmpThere' /\ Answered' /\ Hurting'
  BY <1>1, <1>2, Responses DEF TmpThere, Answered, Hurting
<1>5. DstFree' /\ DataFree'
  BY <1>1 DEF DstFree, DataFree, Written, Tmp, Name, Kept
<1>6. Written' /\ StagedRight'
  BY <1>1 DEF Written, Own, Tmp, Data, Prev, StagedRight, Installed, Name,
     Kept
<1>7. NeverInItsOwnWay' /\ OnlyFaultsStick' /\ OneFaultIsCheap'
  BY <1>1, <1>2 DEF NeverInItsOwnWay, OnlyFaultsStick, OneFaultIsCheap,
     Hurting
<1>. QED BY <1>3, <1>4, <1>5, <1>6, <1>7

LEMMA CopiedStep ==
    ASSUME RInv, Copied, UNCHANGED object
    PROVE  RInv'
<1>. USE DEF RInv, Copied, Goto, Fine, history
<1>1. /\ FilesOK' /\ trees' = trees /\ Tmp("prev")' = Nil
      /\ \A k \in Name \ {"prev"} : Tmp(k)' = Tmp(k)
  <2>1. "prev" \in Name /\ "tmp" \in Tree /\ "tmp" \in trees
    BY DEF Name, Kept, Tree, ResumeTypeOK, TmpThere
  <2>2. Put("tmp", "prev", Nil) /\ Fits("prev", Nil)
    BY DEF ResumeTypeOK, Fits
  <2>. QED BY <2>1, <2>2, PutFits DEF ResumeTypeOK, Tmp
<1>2. hurt \in Nat /\ Counted' /\ hurt' \in {hurt, 0}
  BY DEF ResumeTypeOK, Counted
<1>3. ResumeTypeOK'
  BY <1>1, <1>2, Responses DEF ResumeTypeOK, Labels, Reasons, Counted
<1>4. TmpThere' /\ Answered' /\ Hurting'
  BY <1>1, <1>2, Responses DEF TmpThere, Answered, Hurting
<1>5. DstFree' /\ DataFree'
  BY <1>1 DEF DstFree, DataFree, Written, Tmp, Name, Kept
<1>6. Written' /\ StagedRight'
  BY <1>1 DEF Written, Own, Tmp, Data, Prev, StagedRight, Installed, Name,
     Kept
<1>7. NeverInItsOwnWay' /\ OnlyFaultsStick' /\ OneFaultIsCheap'
  BY <1>1, <1>2 DEF NeverInItsOwnWay, OnlyFaultsStick, OneFaultIsCheap,
     Hurting
<1>. QED BY <1>3, <1>4, <1>5, <1>6, <1>7

LEMMA CreateStep ==
    ASSUME RInv, Create, UNCHANGED object
    PROVE  RInv'
<1>. USE DEF RInv, Create, Goto, Stuck, Fine, history
<1>1. /\ FilesOK' /\ trees' = trees /\ Tmp("data")' = NewFile
      /\ \A k \in Name \ {"data"} : Tmp(k)' = Tmp(k)
  <2>1. Tmp("data") = Nil
    BY DEF DataFree
  <2>2. "data" \in Name /\ "tmp" \in Tree /\ "tmp" \in trees
    BY DEF Name, Kept, Tree, ResumeTypeOK, TmpThere
  <2>3. Put("tmp", "data", NewFile) /\ Fits("data", NewFile)
    BY NewFiles, <2>1 DEF ResumeTypeOK, Fits
  <2>. QED BY <2>2, <2>3, PutFits DEF ResumeTypeOK, Tmp
<1>2. hurt \in Nat /\ Counted' /\ hurt' \in {hurt, 0}
  BY DEF ResumeTypeOK, Counted
<1>3. ResumeTypeOK'
  BY <1>1, <1>2, Responses, Orders DEF ResumeTypeOK, Labels, Reasons,
     Counted, DataFree
<1>4. TmpThere' /\ Answered' /\ Hurting'
  BY <1>1, <1>2, Responses DEF TmpThere, Answered, Hurting
<1>5. DstFree' /\ DataFree'
  BY <1>1 DEF DstFree, DataFree, Written, Tmp, Name, Kept
<1>6. Written' /\ StagedRight'
  <2>1. pc = "create" => Tmp("prev") # Nil /\ Len(Prev) \in Nat
    BY DEF Written, Prev, Tmp, ResumeTypeOK, FilesOK, Fits, DataFile, Tree, Name, Kept
  <2>2. /\ Tmp("data")' = NewFile /\ Data' = <<>> /\ Tmp("prev")' = Tmp("prev") /\ Prev' = Prev
    BY <1>1 DEF Data, Prev, NewFile, Name, Kept, Tmp
  <2>3. Own("data")'
    BY <2>2, NewFiles DEF Own
  <2>4. Len(Data') = 0 /\ (pc = "create" => Len(Data') <= Len(Prev'))
    BY <2>1, <2>2, NewFiles
  <2>5. pc' \in {"copy", "fetching"} /\ (pc' = "copy" => pc = "create")
    BY DEF DataFree
  <2>. QED BY <2>1, <2>2, <2>3, <2>4, <2>5 DEF Written, StagedRight, Installed
<1>7. NeverInItsOwnWay' /\ OnlyFaultsStick' /\ OneFaultIsCheap'
  BY <1>1, <1>2 DEF NeverInItsOwnWay, OnlyFaultsStick, OneFaultIsCheap,
     Hurting, DataFree
<1>. QED BY <1>3, <1>4, <1>5, <1>6, <1>7

LEMMA OpenStep ==
    ASSUME RInv, Open, UNCHANGED object
    PROVE  RInv'
<1>. USE DEF RInv, Open, Goto, Fail, Fine, history
<1>1. /\ FilesOK' /\ trees' = trees /\ Tmp("dst")' = NewFile
      /\ \A k \in Name \ {"dst"} : Tmp(k)' = Tmp(k)
  <2>1. Tmp("dst") = Nil
    BY DEF DstFree
  <2>2. "dst" \in Name /\ "tmp" \in Tree /\ "tmp" \in trees
    BY DEF Name, Kept, Tree, ResumeTypeOK, TmpThere
  <2>3. Put("tmp", "dst", NewFile) /\ Fits("dst", NewFile)
    BY NewFiles, <2>1 DEF ResumeTypeOK, Fits
  <2>. QED BY <2>2, <2>3, PutFits DEF ResumeTypeOK, Tmp
<1>2. hurt \in Nat /\ Counted' /\ hurt' \in {hurt, 0}
  BY DEF ResumeTypeOK, Counted
<1>3. ResumeTypeOK'
  BY <1>1, <1>2, Responses, Orders DEF ResumeTypeOK, Labels, Reasons,
     Counted, DstFree
<1>4. TmpThere' /\ Answered' /\ Hurting'
  BY <1>1, <1>2, Responses DEF TmpThere, Answered, Hurting
<1>5. DstFree' /\ DataFree'
  BY <1>1 DEF DstFree, DataFree, Written, Tmp, Name, Kept
<1>6. Written' /\ StagedRight'
  <2>1. Own("dst")'
    BY <1>1, NewFiles DEF Own
  <2>. QED BY <2>1 DEF Written, StagedRight, Installed
<1>7. NeverInItsOwnWay' /\ OnlyFaultsStick' /\ OneFaultIsCheap'
  BY <1>1, <1>2 DEF NeverInItsOwnWay, OnlyFaultsStick, OneFaultIsCheap,
     Hurting, DstFree
<1>. QED BY <1>3, <1>4, <1>5, <1>6, <1>7

LEMMA SwappedStep ==
    ASSUME RInv, Swapped, UNCHANGED object
    PROVE  RInv'
<1>. USE DEF RInv, Swapped, Goto, Fine, history
<1>1. FilesOK' /\ trees' = trees \ {"tmp"}
  <2>1. files' \in [Tree -> [Name -> DataFile \cup Tag \cup {Nil}]]
    BY DEF ResumeTypeOK, FilesOK, Bare, Tree
  <2>2. files'["partial"] = files["partial"] /\ files'["tmp"] = Bare
    BY DEF ResumeTypeOK, FilesOK, Tree
  <2>3. \A t \in Tree, n \in Name : Fits(n, files'[t][n])
    BY <2>2 DEF ResumeTypeOK, FilesOK, Fits, Tree, Bare
  <2>. QED BY <2>1, <2>2, <2>3 DEF ResumeTypeOK, FilesOK, Tree
<1>2. hurt \in Nat /\ Counted' /\ hurt' \in {hurt, 0}
  BY DEF ResumeTypeOK, Counted
<1>3. ResumeTypeOK'
  BY <1>1, <1>2, Responses DEF ResumeTypeOK, Labels, Reasons, Counted
<1>4. TmpThere' /\ Answered' /\ Hurting'
  BY <1>1, <1>2, Responses DEF TmpThere, Answered, Hurting
<1>5. DstFree' /\ DataFree'
  BY <1>1 DEF DstFree, DataFree, Written, Tmp
<1>6. Written' /\ StagedRight'
  BY <1>1 DEF Written, Own, Tmp, Data, Prev, StagedRight, Installed
<1>7. NeverInItsOwnWay' /\ OnlyFaultsStick' /\ OneFaultIsCheap'
  BY <1>1, <1>2 DEF NeverInItsOwnWay, OnlyFaultsStick, OneFaultIsCheap,
     Hurting
<1>. QED BY <1>3, <1>4, <1>5, <1>6, <1>7

LEMMA DiscardStep ==
    ASSUME RInv, Discard, UNCHANGED object
    PROVE  RInv'
<1>. USE DEF RInv, Discard, Loop, Fine, history
<1>1. /\ FilesOK' /\ trees' = trees
      /\ Tmp("dst")' = Tmp("dst")
      /\ pc = "discard" => Tmp("data")' = Nil
  <2>1. Head(todo) \in Kept
    BY Loops DEF ResumeTypeOK
  <2>2. Head(todo) \in Name /\ Head(todo) # "dst" /\ "tmp" \in Tree /\ "tmp" \in trees
    BY <2>1 DEF Name, Kept, Tree, TmpThere
  <2>3. /\ FilesOK' /\ trees' = trees /\ files'["tmp"][Head(todo)] = Nil
        /\ \A u \in Tree, m \in Name : <<u, m>> # <<"tmp", Head(todo)>> => files'[u][m] = files[u][m]
    BY <2>2, PutFits DEF ResumeTypeOK, Fits
  <2>4. todo = Discarded => Head(todo) = "data"
    BY Orders
  <2>5. pc = "discard" => Tmp("data")' = Nil
    BY <2>2, <2>3, <2>4 DEF DataFree, Tmp, Name, Kept
  <2>6. Tmp("dst")' = Tmp("dst")
    BY <2>2, <2>3 DEF Tmp, Name
  <2>. QED BY <2>3, <2>5, <2>6
<1>2. hurt \in Nat /\ Counted' /\ hurt' \in {hurt, 0}
  BY DEF ResumeTypeOK, Counted
<1>3. ResumeTypeOK'
  BY <1>1, <1>2, Responses, Loops DEF ResumeTypeOK, Labels, Reasons, Counted
<1>4. TmpThere' /\ Answered' /\ Hurting'
  BY <1>1, <1>2, Responses DEF TmpThere, Answered, Hurting
<1>5. DstFree' /\ DataFree'
  BY <1>1 DEF DstFree, DataFree, Written, Tmp, Name, Kept
<1>6. Written' /\ StagedRight'
  BY <1>1 DEF Written, Own, Tmp, Data, Prev, StagedRight, Installed, Name,
     Kept
<1>7. NeverInItsOwnWay' /\ OnlyFaultsStick' /\ OneFaultIsCheap'
  BY <1>1, <1>2 DEF NeverInItsOwnWay, OnlyFaultsStick, OneFaultIsCheap,
     Hurting
<1>. QED BY <1>3, <1>4, <1>5, <1>6, <1>7

LEMMA CopyStep ==
    ASSUME RInv, Copy, UNCHANGED object
    PROVE  RInv'
<1>. USE DEF RInv, Copy, Fine, memory, history
<1>1. /\ FilesOK' /\ trees' = trees /\ Own("data")' /\ Len(Data') <= Len(Prev')
      /\ \A k \in Name \ {"data"} : Tmp(k)' = Tmp(k)
  <2>1. /\ Tmp("data") \in DataFile /\ Tmp("data").sole
        /\ Tmp("prev") \in DataFile /\ Len(Prev) <= Size + 1
    BY Responses DEF Written, Own, Prev, Tmp, ResumeTypeOK, FilesOK, Fits, Tree, Name, Kept
  <2>2. Data \in Seq(Byte) /\ Prev \in Seq(Byte)
    BY <2>1 DEF Data, Prev, DataFile
  <2>3. Prev[Len(Data) + 1] \in Byte
    BY <2>2
  <2> DEFINE x == Extended(Tmp("data"), Prev[Len(Data) + 1])
  <2>4. x \in DataFile /\ x.sole /\ x.bytes = Append(Data, Prev[Len(Data) + 1])
    BY <2>1, <2>3, Extending DEF Data
  <2>5. Len(x.bytes) <= Len(Prev) /\ Len(x.bytes) <= Size + 1
    BY <2>1, <2>2, <2>3, <2>4, WantAssumption DEF Size
  <2>6. Fits("data", x) /\ x # Nil
    BY <2>4, <2>5, Responses DEF Fits
  <2>7. "data" \in Name /\ "prev" \in Name /\ "tmp" \in Tree /\ "tmp" \in trees
    BY DEF Name, Kept, Tree, TmpThere
  <2>8. Put("tmp", "data", x)
    OBVIOUS
  <2> HIDE DEF x
  <2>9. /\ FilesOK' /\ trees' = trees /\ Tmp("data")' = x
        /\ \A k \in Name \ {"data"} : Tmp(k)' = Tmp(k)
    BY <2>6, <2>7, <2>8, PutFits DEF ResumeTypeOK, Tmp
  <2>10. Data' = x.bytes /\ Prev' = Prev
    BY <2>7, <2>9 DEF Data, Prev
  <2>11. Own("data")'
    BY <2>4, <2>6, <2>9 DEF Own
  <2>. QED BY <2>5, <2>9, <2>10, <2>11
<1>2. hurt \in Nat /\ Counted' /\ hurt' \in {hurt, 0}
  BY DEF ResumeTypeOK, Counted
<1>3. ResumeTypeOK'
  BY <1>1, <1>2, Responses DEF ResumeTypeOK, Labels, Reasons, Counted
<1>4. TmpThere' /\ Answered' /\ Hurting'
  BY <1>1, <1>2, Responses DEF TmpThere, Answered, Hurting
<1>5. DstFree' /\ DataFree'
  BY <1>1 DEF DstFree, DataFree, Written, Tmp, Name, Kept
<1>6. Written' /\ StagedRight'
  BY <1>1 DEF Written, Own, Tmp, Data, Prev, StagedRight, Installed, Name,
     Kept
<1>7. NeverInItsOwnWay' /\ OnlyFaultsStick' /\ OneFaultIsCheap'
  BY <1>1, <1>2 DEF NeverInItsOwnWay, OnlyFaultsStick, OneFaultIsCheap,
     Hurting
<1>. QED BY <1>3, <1>4, <1>5, <1>6, <1>7

LEMMA ReceiveStep ==
    ASSUME RInv, Receive, UNCHANGED object
    PROVE  RInv'
<1>. USE DEF RInv, Receive, Respond, Fine, history
<1>1. /\ FilesOK' /\ trees' = trees /\ stream' \in Response /\ Own(Sink)'
      /\ \A k \in Name \ {Sink} : Tmp(k)' = Tmp(k)
  <2>1. Tmp(Sink) \in DataFile /\ Tmp(Sink).sole
    BY Responses DEF Receiving, Written, Own, Sink, Tmp, ResumeTypeOK, FilesOK, Fits, Tree, Name, Kept
  <2>2. Received \in Seq(Byte) /\ Len(Received) <= Size
    BY <2>1 DEF Received, DataFile, Room
  <2>3. stream \in Response
    BY DEF Receiving, Answered
  <2>4. Head(stream.body) \in Byte /\ Tail(stream.body) \in Seq(Byte)
    BY <2>3 DEF Response
  <2>5. stream' \in Response
    BY <2>3, <2>4 DEF Response
  <2> DEFINE x == Extended(Tmp(Sink), Head(stream.body))
  <2>6. x \in DataFile /\ x.sole /\ x.bytes = Append(Received, Head(stream.body))
    BY <2>1, <2>4, Extending DEF Received
  <2>7. Len(x.bytes) <= Size + 1
    BY <2>2, <2>4, <2>6, WantAssumption DEF Size
  <2>8. Sink \in {"dst", "data"} /\ Sink \in Name /\ "tmp" \in Tree /\ "tmp" \in trees
    BY DEF Sink, Name, Kept, Tree, TmpThere, Receiving
  <2>9. Fits(Sink, x) /\ x # Nil
    BY <2>6, <2>7, <2>8, Responses DEF Fits
  <2>10. Put("tmp", Sink, x)
    OBVIOUS
  <2> HIDE DEF x
  <2>11. /\ FilesOK' /\ trees' = trees /\ files'["tmp"][Sink] = x
         /\ \A u \in Tree, m \in Name : <<u, m>> # <<"tmp", Sink>> => files'[u][m] = files[u][m]
    BY <2>8, <2>9, <2>10, PutFits DEF ResumeTypeOK
  <2>12. \A k \in Name \ {Sink} : Tmp(k)' = Tmp(k)
    BY <2>8, <2>11 DEF Tmp
  <2>13. Sink' = Sink
    BY DEF Sink
  <2>14. Own(Sink)'
    BY <2>6, <2>9, <2>11, <2>13 DEF Own, Tmp
  <2>. QED BY <2>5, <2>11, <2>12, <2>14
<1>2. hurt \in Nat /\ Counted' /\ hurt' \in {hurt, 0}
  BY DEF ResumeTypeOK, Counted
<1>3. ResumeTypeOK'
  BY <1>1, <1>2, Responses, Loops DEF ResumeTypeOK, Labels, Reasons,
     Counted, Receiving
<1>4. TmpThere' /\ Answered' /\ Hurting'
  BY <1>1, <1>2, Responses DEF TmpThere, Answered, Hurting, Receiving
<1>5. DstFree' /\ DataFree'
  BY <1>1 DEF DstFree, DataFree, Written, Tmp, Name, Kept, Sink, Receiving
<1>6. Written' /\ StagedRight'
  BY <1>1 DEF Written, Own, Tmp, Data, Prev, StagedRight, Installed, Name,
     Kept, Sink, Receiving
<1>7. NeverInItsOwnWay' /\ OnlyFaultsStick' /\ OneFaultIsCheap'
  BY <1>1, <1>2 DEF NeverInItsOwnWay, OnlyFaultsStick, OneFaultIsCheap,
     Hurting, Receiving
<1>. QED BY <1>3, <1>4, <1>5, <1>6, <1>7

LEMMA SidecarStep ==
    ASSUME RInv, Sidecar, UNCHANGED object
    PROVE  RInv'
<1>. USE DEF RInv, Sidecar, Goto, Fine, history
<1>1. /\ FilesOK' /\ trees' = trees
      /\ \A k \in Name \ {"draft"} : Tmp(k)' = Tmp(k)
  <2>1. CASE stream.tag = Nil
    BY <2>1 DEF ResumeTypeOK, FilesOK, Tmp
  <2>2. CASE stream.tag # Nil
    <3>1. stream.tag \in Tag
      BY <2>2 DEF Answered, Response
    <3>2. "draft" \in Name /\ "tmp" \in Tree /\ "tmp" \in trees
      BY DEF Name, Kept, Tree, TmpThere
    <3>3. Put("tmp", "draft", stream.tag) /\ Fits("draft", stream.tag)
      BY <2>2, <3>1 DEF Fits
    <3>. QED BY <3>2, <3>3, PutFits DEF ResumeTypeOK, Tmp
  <2>. QED BY <2>1, <2>2
<1>2. hurt \in Nat /\ Counted' /\ hurt' \in {hurt, 0}
  BY DEF ResumeTypeOK, Counted
<1>3. ResumeTypeOK'
  BY <1>1, <1>2, Responses DEF ResumeTypeOK, Labels, Reasons, Counted
<1>4. TmpThere' /\ Answered' /\ Hurting'
  BY <1>1, <1>2, Responses DEF TmpThere, Answered, Hurting
<1>5. DstFree' /\ DataFree'
  BY <1>1 DEF DstFree, DataFree, Written, Tmp, Name, Kept
<1>6. Written' /\ StagedRight'
  BY <1>1 DEF Written, Own, Tmp, Data, Prev, StagedRight, Installed, Name,
     Kept
<1>7. NeverInItsOwnWay' /\ OnlyFaultsStick' /\ OneFaultIsCheap'
  BY <1>1, <1>2 DEF NeverInItsOwnWay, OnlyFaultsStick, OneFaultIsCheap,
     Hurting
<1>. QED BY <1>3, <1>4, <1>5, <1>6, <1>7

-----------------------------------------------------------------------------
(* What happens around a pull, and no step.                                *)

LEMMA KillStep ==
    ASSUME RInv, Kill
    PROVE  RInv'
<1>1. spent \in 0 .. MaxTroubles /\ Spend
  BY DEF RInv, Kill, ResumeTypeOK
<1>2. spent' \in 0 .. MaxTroubles
  BY <1>1, MaxTroublesAssumption DEF Spend
<1>. USE DEF RInv, Kill
<1>3. FilesOK'
  BY DEF ResumeTypeOK, FilesOK
<1>4. ResumeTypeOK'
  BY <1>3, <1>2, Orders DEF ResumeTypeOK, Labels, Reasons
<1>. QED BY <1>4 DEF TmpThere, Answered, DstFree, DataFree, Written, Hurting, StagedRight,
     Installed, NeverInItsOwnWay, OnlyFaultsStick, OneFaultIsCheap

LEMMA OverwriteStep ==
    ASSUME RInv, Overwrite
    PROVE  RInv'
<1>. USE DEF RInv, Overwrite, memory
<1>1. FilesOK' /\ spent' \in 0 .. MaxTroubles
  BY MaxTroublesAssumption DEF ResumeTypeOK, FilesOK, Spend
<1>2. ResumeTypeOK'
  BY <1>1 DEF ResumeTypeOK
<1>3. TmpThere' /\ Answered' /\ Hurting'
  BY DEF TmpThere, Answered, Hurting
<1>4. DstFree' /\ DataFree' /\ Written' /\ StagedRight'
  BY DEF DstFree, DataFree, Written, Own, Tmp, Data, Prev, StagedRight, Installed
<1>5. NeverInItsOwnWay' /\ OnlyFaultsStick' /\ OneFaultIsCheap'
  BY DEF NeverInItsOwnWay, OnlyFaultsStick, OneFaultIsCheap
<1>. QED BY <1>2, <1>3, <1>4, <1>5

\* Only the partial tree's data files are linked.
LEMMA LinkKeptStep ==
    ASSUME RInv, LinkKept
    PROVE  RInv'
<1>. USE DEF RInv, LinkKept, memory
<1>1. FilesOK' /\ trees' = trees /\ files'["tmp"] = files["tmp"]
  <2>1. PICK n \in {"data", "prev"} :
           /\ files["partial"][n] # Nil
           /\ Put("partial", n, [files["partial"][n] EXCEPT !.sole = FALSE])
    OBVIOUS
  <2>2. /\ "partial" \in Tree /\ n \in Name /\ files["partial"][n] \in DataFile
        /\ Len(files["partial"][n].bytes) <= Size + 1
    BY <2>1 DEF ResumeTypeOK, FilesOK, Fits, Tree, Name, Kept
  <2> DEFINE x == [files["partial"][n] EXCEPT !.sole = FALSE]
  <2>3. x \in DataFile /\ x.bytes = files["partial"][n].bytes
    BY <2>2 DEF DataFile
  <2>4. Fits(n, x)
    BY <2>2, <2>3 DEF Fits
  <2>5. "partial" \in trees
    BY <2>1, <2>2 DEF ResumeTypeOK, FilesOK, Bare
  <2> HIDE DEF x
  <2>6. FilesOK' /\ trees' = trees
    BY <2>1, <2>2, <2>4, <2>5, PutFits DEF ResumeTypeOK, x
  <2>7. files'["tmp"] = files["tmp"]
    BY <2>1 DEF Put, ResumeTypeOK, FilesOK, Tree
  <2>. QED BY <2>6, <2>7
<1>2. ResumeTypeOK'
  BY <1>1, MaxTroublesAssumption DEF ResumeTypeOK, Spend
<1>3. TmpThere' /\ Answered' /\ Hurting'
  BY <1>1 DEF TmpThere, Answered, Hurting
<1>4. DstFree' /\ DataFree' /\ Written' /\ StagedRight'
  BY <1>1 DEF DstFree, DataFree, Written, Own, Tmp, Data, Prev, StagedRight, Installed
<1>5. NeverInItsOwnWay' /\ OnlyFaultsStick' /\ OneFaultIsCheap'
  BY DEF NeverInItsOwnWay, OnlyFaultsStick, OneFaultIsCheap
<1>. QED BY <1>2, <1>3, <1>4, <1>5

LEMMA NoStep ==
    ASSUME RInv, UNCHANGED vars
    PROVE  RInv'
<1>. USE DEF RInv, vars, memory, history
<1>1. ResumeTypeOK'
  BY DEF ResumeTypeOK, FilesOK
<1>2. TmpThere' /\ Answered' /\ Hurting'
  BY DEF TmpThere, Answered, Hurting
<1>3. DstFree' /\ DataFree' /\ Written' /\ StagedRight'
  BY DEF DstFree, DataFree, Written, Own, Tmp, Data, Prev, StagedRight, Installed
<1>4. NeverInItsOwnWay' /\ OnlyFaultsStick' /\ OneFaultIsCheap'
  BY DEF NeverInItsOwnWay, OnlyFaultsStick, OneFaultIsCheap
<1>. QED BY <1>1, <1>2, <1>3, <1>4

LEMMA InitStep == Init => RInv
<1>1. 0 \in 0 .. MaxTroubles /\ 0 \in Nat
  BY MaxTroublesAssumption
<1>. SUFFICES ASSUME Init PROVE RInv
  OBVIOUS
<1>. USE DEF Init
<1>2. FilesOK
  BY DEF FilesOK, Fits, Bare, Tree
<1>3. ResumeTypeOK
  BY <1>1, <1>2, Orders DEF ResumeTypeOK, Labels, Reasons
<1>. QED BY <1>3 DEF RInv, TmpThere, Answered, DstFree, DataFree, Written, Hurting, StagedRight,
     Installed, NeverInItsOwnWay, OnlyFaultsStick, OneFaultIsCheap

LEMMA WorkStep ==
    ASSUME RInv, Work
    PROVE  RInv'
<1>1. CASE Trees
  BY <1>1, BeginStep, KeepStep, KeepRenameStep, MkdirStashStep, StashStep, StashedStep, TmpRemovedStep,
     RemoveAllStep DEF Work, Trees
<1>2. CASE Stages
  BY <1>2, UnshareStep, SharedRemovedStep, ResyncStep, LocalStagedStep, AdoptStep, AdoptingStep,
     ClearedStep, ClearSharedStep DEF Work, Stages
<1>3. CASE Resumes
  BY <1>3, MkdirAllStep, LoadPrevStep, LoadStep, ContinueStep, RefusedStep, SetAsideStep,
     CreateStep, CopyStep, CopiedStep DEF Work, Resumes
<1>4. CASE Fetches
  BY <1>4, DiscardStep, AfreshStep, KnownBadStep, GetStep, SidecarStep, PublishStep, OpenStep,
     ReceiveStep, CompleteStep, MismatchStep DEF Work, Fetches
<1>5. CASE Ends
  BY <1>5, InstallStep, DropInfoStep, ChmodStep, RemoteStagedStep, DirClearedStep,
     SwappedStep DEF Work, Ends
<1>. QED BY <1>1, <1>2, <1>3, <1>4, <1>5 DEF Work

LEMMA TroubleStep ==
    ASSUME RInv, Trouble
    PROVE  RInv'
  BY KeepFailsStep, StageFailsStep, PrefixFailsStep, DropInfoFailsStep, EndFailsStep,
     NetFailsStep, RangeIgnoredStep, ShrankStep, OthersFailStep DEF Trouble

-----------------------------------------------------------------------------
(* What is held of a prefix.                                               *)

\* Nothing is held, or what is found under the names.
LEMMA Holding ==
    ASSUME ResumeTypeOK
    PROVE  /\ Held \in Nat
           /\ Held # 0 =>
                /\ object.body = Want /\ object.tag # Nil /\ Found("info") = object.tag
                /\ FoundData \in DataFile /\ FoundData.sole
                /\ Seqs!IsPrefix(FoundData.bytes, Want)
                /\ Held = Len(FoundData.bytes)
<1>1. \A n \in {"data", "prev"} : Found(n) \in DataFile \cup {Nil}
  BY DEF ResumeTypeOK, FilesOK, Fits, Found, Tree, Name, Kept
<1>2. FoundData \in DataFile \cup {Nil}
  BY <1>1 DEF FoundData
<1>3. FoundData # Nil => Len(FoundData.bytes) \in Nat
  BY <1>2 DEF DataFile
<1>. QED BY <1>2, <1>3 DEF Held

\* It depends on three names.
LEMMA SameHeld ==
    ASSUME object' = object,
           \A n \in {"data", "prev", "info"} : Found(n)' = Found(n)
    PROVE  Held' = Held
BY DEF Held, FoundData

LEMMA Standing ==
    ASSUME files' = files, object' = object
    PROVE  /\ Held' = Held
           /\ \A n \in Name : Tmp(n)' = Tmp(n) /\ Settled(n)' = Settled(n)
           /\ Data' = Data /\ Prev' = Prev
           /\ Rest(Data)' = Rest(Data) /\ Rest(Prev)' = Rest(Prev)
BY DEF Held, FoundData, Found, Tmp, Settled, Data, Prev, Rest, Name, Kept

\* While an object is downloaded there is nothing but the staging tree.
LEMMA FoundHere ==
    ASSUME files["partial"] = Bare
    PROVE  \A n \in Name : Found(n) = Tmp(n)
BY DEF Found, Tmp, Bare

LEMMA Prefixes ==
    ASSUME NEW s \in Seq(Byte), NEW t \in Seq(Byte)
    PROVE  Seqs!IsPrefix(s, t) <=> Len(s) <= Len(t) /\ \A i \in 1 .. Len(s) : s[i] = t[i]
<1>1. ASSUME Len(s) <= Len(t)
      PROVE  /\ SubSeq(s, 1, Len(s)) = s
             /\ SubSeq(t, 1, Len(s)) \in Seq(Byte) /\ Len(SubSeq(t, 1, Len(s))) = Len(s)
             /\ \A i \in 1 .. Len(s) : SubSeq(t, 1, Len(s))[i] = t[i]
  BY <1>1
<1>2. ASSUME Len(s) <= Len(t), \A i \in 1 .. Len(s) : s[i] = t[i]
      PROVE  SubSeq(t, 1, Len(s)) = s
  BY <1>1, <1>2
<1>. QED BY <1>1, <1>2 DEF Seqs!IsPrefix

\* The byte that follows.
LEMMA Lengthening ==
    ASSUME NEW s \in Seq(Byte), NEW t \in Seq(Byte), Len(s) < Len(t), Seqs!IsPrefix(s, t)
    PROVE  Seqs!IsPrefix(Append(s, t[Len(s) + 1]), t)
<1>1. t[Len(s) + 1] \in Byte
  OBVIOUS
<1> DEFINE r == Append(s, t[Len(s) + 1])
<1>2. /\ r \in Seq(Byte) /\ Len(r) = Len(s) + 1 /\ Len(r) <= Len(t)
      /\ \A i \in 1 .. Len(r) : r[i] = t[i]
  BY <1>1, Prefixes
<1> HIDE DEF r
<1>3. Seqs!IsPrefix(r, t)
  BY <1>2, Prefixes
<1>. QED BY <1>3 DEF r

\* A whole prefix.
LEMMA Whole ==
    ASSUME NEW s \in Seq(Byte), NEW t \in Seq(Byte), Seqs!IsPrefix(s, t), Len(s) >= Len(t)
    PROVE  s = t
BY Prefixes

\* What a response still brings.
LEMMA Rests ==
    ASSUME NEW s \in Seq(Byte), Len(s) <= Size
    PROVE  /\ Rest(s) \in Seq(Byte) /\ Len(Rest(s)) = Size - Len(s)
           /\ \A i \in 1 .. Size - Len(s) : Rest(s)[i] = Want[Len(s) + i]
BY WantAssumption DEF Rest, Size

\* A byte of it is received.
LEMMA Shortening ==
    ASSUME NEW s \in Seq(Byte), Len(s) <= Size, Rest(s) # <<>>
    PROVE  /\ Len(s) < Size
           /\ Head(Rest(s)) = Want[Len(s) + 1] /\ Want[Len(s) + 1] \in Byte
           /\ Tail(Rest(s)) = Rest(Append(s, Head(Rest(s))))
<1>1. Len(s) < Size
  BY Rests, WantAssumption DEF Size
<1>2. Head(Rest(s)) = Want[Len(s) + 1] /\ Want[Len(s) + 1] \in Byte
  BY <1>1, Rests, WantAssumption DEF Size
<1> DEFINE q == Rest(s)  r == Append(s, Head(q))  u == Tail(q)
<1>3. Size \in Nat /\ Len(s) \in Nat
  BY WantAssumption DEF Size
<1>4. /\ q \in Seq(Byte) /\ Len(q) = Size - Len(s) /\ q # <<>>
      /\ \A i \in 1 .. Size - Len(s) : q[i] = Want[Len(s) + i]
  BY Rests
<1>5. r \in Seq(Byte) /\ Len(r) = Len(s) + 1
  BY <1>2
<1> HIDE DEF q, r
<1>6. u \in Seq(Byte) /\ Len(u) = Len(q) - 1 /\ \A i \in 1 .. Len(u) : u[i] = q[i + 1]
  BY <1>4
<1> HIDE DEF u
<1>7. Len(u) = Size - Len(r)
  BY <1>3, <1>4, <1>5, <1>6
<1>8. ASSUME NEW i \in 1 .. Size - Len(r)
      PROVE  u[i] = Want[Len(r) + i]
  <2>1. i + 1 \in 1 .. Size - Len(s) /\ Len(s) + (i + 1) = Len(r) + i
    BY <1>3, <1>5
  <2>. QED BY <1>4, <1>6, <1>7, <2>1
<1>9. Len(r) <= Size
  BY <1>1, <1>3, <1>5
<1>10. /\ Rest(r) \in Seq(Byte) /\ Len(Rest(r)) = Size - Len(r)
       /\ \A i \in 1 .. Size - Len(r) : Rest(r)[i] = Want[Len(r) + i]
  BY <1>5, <1>9, Rests
<1>11. Rest(r) = u
  BY <1>6, <1>7, <1>8, <1>10
<1>. QED BY <1>1, <1>2, <1>11 DEF q, r, u

-----------------------------------------------------------------------------
(* A prefix is kept: first the steps that change no file.                  *)

HeldOn == pc \notin {"install"} \cup Installed => Held' >= Held

\* Nothing is asked of the files at most places.
LEMMA Elsewhere ==
    ASSUME pc' \notin Downloading \cup
                      {"stash", "rmtmp", "adopt", "clear", "rmshared", "drop", "plain"}
    PROVE  SureOK'
BY DEF SureOK, MovedOK, PrefixOK, RestOK, Downloading

LEMMA StandingHeld ==
    ASSUME RInv, files' = files, object' = object
    PROVE  HeldOn
BY Standing, Holding DEF RInv, HeldOn

\* Steps to such a place.
LEMMA LeavingSure ==
    ASSUME RInv, object' = object,
           \/ Begin \/ TmpRemoved \/ Resync \/ KnownBad \/ Complete \/ NetFails \/ OthersFail
           \/ Kill
    PROVE  SureOK' /\ HeldOn
<1>1. files' = files
  BY DEF Begin, TmpRemoved, Removed, Resync, KnownBad, Complete, NetFails, OthersFail, Kill, Stay
<1>2. pc' \in {"idle", "keep", "unshare", "again", "local", "install", "chmod"}
  BY DEF Begin, TmpRemoved, AfterKeep, Resync, Stage, KnownBad, Complete, EndOfBody,
         Receiving, Respond, NetFails, OthersFail, Kill, Fail, Goto
<1>. QED BY <1>1, <1>2, StandingHeld, Elsewhere DEF Downloading

\* Steps on to the next loop or request.
LEMMA StashedSure ==
    ASSUME RInv, SureOK, Stashed, object' = object
    PROVE  SureOK' /\ files' = files
<1>1. files' = files /\ todo = <<>> /\ pc' \in {"rmtmp", "cleardir again"}
      /\ (pc' = "rmtmp" => pc = "stash")
  BY DEF Stashed, Goto, Stay
<1>2. \A n \in Kept : ~Pending(n)
  <2>1. Len(todo) = 0
    BY <1>1
  <2>. QED BY <2>1 DEF Pending
<1>3. pc' = "rmtmp" => \A n \in Kept : Settled(n)'
  BY <1>1, <1>2, Standing DEF SureOK, MovedOK, Name
<1>. QED BY <1>1, <1>3 DEF SureOK, MovedOK, PrefixOK, RestOK, Downloading

LEMMA LocalStagedSure ==
    ASSUME RInv, SureOK, LocalStaged, object' = object
    PROVE  SureOK' /\ files' = files
<1>1. files' = files /\ pc' = "adopt" /\ todo' = <<"data", "prev", "info">>
  BY DEF LocalStaged, Loop, Stay, Adopted
<1>2. \A n \in {"data", "prev", "info"} : Pending(n)'
  <2>1. /\ Len(todo') = 3 /\ todo'[1] = "data" /\ todo'[2] = "prev" /\ todo'[3] = "info"
    BY <1>1
  <2>. QED BY <2>1 DEF Pending
<1>. QED BY <1>1, <1>2 DEF SureOK, MovedOK, PrefixOK, RestOK, Downloading

LEMMA AdoptingSure ==
    ASSUME RInv, SureOK, Adopting, object' = object
    PROVE  SureOK' /\ files' = files
<1>1. files' = files /\ todo = <<>> /\ pc = "adopt" /\ pc' = "clear"
  BY DEF Adopting, Goto, Stay
<1>2. \A n \in {"data", "prev", "info"} : files'["partial"][n] = Nil
  BY <1>1 DEF SureOK, MovedOK, Pending
<1>. QED BY <1>1, <1>2 DEF SureOK, MovedOK, PrefixOK, RestOK, Downloading

LEMMA ClearedSure ==
    ASSUME RInv, RInv', SureOK, Cleared, object' = object
    PROVE  SureOK' /\ files' = files
<1>1. files' = files /\ pc' = "mkdir" /\ "partial" \notin trees'
  BY DEF Cleared, Removed, Goto
<1>2. files'["partial"] = Bare
  BY <1>1 DEF RInv, ResumeTypeOK, FilesOK, Tree
<1>. QED BY <1>1, <1>2 DEF SureOK, MovedOK, PrefixOK, RestOK, Downloading

LEMMA MkdirAllSure ==
    ASSUME RInv, SureOK, MkdirAll, object' = object
    PROVE  SureOK' /\ files' = files
<1>1. files' = files /\ pc = "mkdir" /\ pc' = "load"
  BY DEF MkdirAll, Goto, Stay
<1>. QED BY <1>1 DEF SureOK, MovedOK, PrefixOK, RestOK, Downloading

\* What is found of a download under way.
LEMMA Here ==
    ASSUME RInv, SureOK, pc \in Downloading
    PROVE  /\ Found("info") = Tmp("info") /\ Found("prev") = Tmp("prev")
           /\ Found("data") = Tmp("data")
           /\ Tmp("prev") = Nil => FoundData = Tmp("data")
           /\ Tmp("data") \in DataFile \cup {Nil} /\ Tmp("prev") \in DataFile \cup {Nil}
BY FoundHere DEF SureOK, MovedOK, FoundData, Name, Kept, RInv, ResumeTypeOK, FilesOK, Fits, Tmp,
                 Tree

\* Whatever is held can be continued, and is, unless the object is another.
LEMMA LoadSure ==
    ASSUME RInv, StreamOK, SureOK, Load, object' = object
    PROVE  SureOK' /\ files' = files
<1>1. files' = files /\ pc = "load" /\ Tmp("prev") = Nil /\ stream = Nil
      /\ files["partial"] = Bare
  BY DEF Load, Stay, StreamOK, SureOK, MovedOK, Downloading
<1>2. CASE Usable /\ Len(Data) < Size /\ Goto("range")
  BY <1>1, <1>2 DEF Goto, SureOK, MovedOK, PrefixOK, RestOK, Tmp
<1>3. CASE Usable /\ Len(Data) = Size /\ Respond("extend", [body |-> <<>>, tag |-> Tmp("info")])
  <2>1. Data \in Seq(Byte)
    BY <1>1, <1>3, Here, Responses DEF Usable, Data, DataFile, Downloading
  <2>2. Rest(Data) = <<>>
    BY <1>3, <2>1, Rests, WantAssumption DEF Size
  <2>3. pc' = "extend" /\ stream'.body = <<>> /\ Rest(Data)' = Rest(Data)
    BY <1>1, <1>3, Standing DEF Respond
  <2>. QED BY <1>1, <2>2, <2>3 DEF SureOK, MovedOK, PrefixOK, RestOK, Tmp
<1>4. CASE ~Usable /\ Loop("discard", Discarded)
  <2>1. Held = 0
    <3>1. SUFFICES ASSUME Held # 0 PROVE FALSE
      OBVIOUS
    <3>2. /\ object.tag # Nil /\ Tmp("info") = object.tag /\ Tmp("data") \in DataFile
          /\ Seqs!IsPrefix(Data, Want) /\ Held = Len(Data)
      BY <1>1, <3>1, Holding, Here DEF RInv, Downloading, Data
    <3>3. Len(Data) \in 1 .. Size
      BY <3>1, <3>2, Prefixes, WantAssumption DEF DataFile, Data, Size
    <3>. QED BY <1>4, <3>2, <3>3, Responses DEF Usable
  <2>2. Held' = 0 /\ pc' = "discard" /\ stream' = Nil
    BY <1>1, <1>4, <2>1, Standing DEF Loop
  <2>. QED BY <1>1, <2>2 DEF SureOK, MovedOK, PrefixOK, RestOK, Tmp
<1>. QED BY <1>2, <1>3, <1>4 DEF Load

LEMMA ContinueSure ==
    ASSUME RInv, SureOK, Continue, object' = object
    PROVE  SureOK' /\ files' = files
<1>1. /\ files' = files /\ pc = "range" /\ pc' = "extend"
      /\ stream' = [object EXCEPT !.body = SubSeq(@, Len(Data) + 1, Size)]
      /\ Rest(Data)' = Rest(Data)
  BY Standing DEF Continue, Stay, Respond
<1>2. object \in Response
  BY Responses DEF RInv, ResumeTypeOK
<1>3. object.body = Want => stream'.body = Rest(Data)
  BY <1>1, <1>2 DEF Response, Rest
<1>. QED BY <1>1, <1>3 DEF SureOK, MovedOK, PrefixOK, RestOK, Downloading, Tmp

LEMMA RefusedSure ==
    ASSUME RInv, StreamOK, SureOK, Refused, object' = object
    PROVE  SureOK' /\ files' = files
<1>1. /\ files' = files /\ pc = "range" /\ pc' = "discard" /\ stream' = Nil
      /\ Held' = Held
  BY Standing DEF Refused, Stay, Loop, StreamOK
<1>2. Held = 0
  <2>1. Held # 0 => object.body = Want /\ object.tag = Tmp("info")
    BY <1>1, Holding, Here DEF RInv, Downloading
  <2>. QED BY <2>1 DEF Refused, Continues, Size
<1>. QED BY <1>1, <1>2 DEF SureOK, MovedOK, PrefixOK, RestOK, Downloading, Tmp

\* Bytes are found bad only if they were worth nothing.
LEMMA MismatchSure ==
    ASSUME RInv, SureOK, Mismatch, object' = object
    PROVE  SureOK' /\ files' = files
<1>1. /\ files' = files /\ Held' = Held /\ EndOfBody /\ Received # Want
  BY Standing DEF Mismatch, Stay, Verified
<1>2. CASE pc = "writing"
  <2>1. pc' = "keep"
    BY <1>2 DEF Mismatch, Fail
  <2>. QED BY <1>1, <2>1, Elsewhere DEF Downloading
<1>3. CASE pc # "writing"
  <2>1. /\ pc \in {"extending", "fetching"} /\ Received = Data
        /\ pc' = (IF pc = "extending" THEN "discard" ELSE "known bad") /\ stream' = Nil
    BY <1>1, <1>3 DEF Mismatch, EndOfBody, Receiving, Received, Sink, Data
  <2>2. Held = 0
    <3>1. SUFFICES ASSUME Held # 0 PROVE FALSE
      OBVIOUS
    <3>2. Tmp("prev") = Nil /\ pc \in Downloading
      BY <2>1 DEF SureOK, PrefixOK, Downloading
    <3>3. /\ object.body = Want /\ Tmp("data") \in DataFile /\ Seqs!IsPrefix(Data, Want)
      BY <3>1, <3>2, Holding, Here DEF RInv, Data
    <3>4. Data \in Seq(Byte)
      BY <3>3 DEF Data, DataFile
    <3>5. Len(Data) <= Size
      BY <3>3, <3>4, Prefixes, WantAssumption DEF Size
    <3>6. stream.body = Rest(Data)
      BY <2>1, <3>3 DEF SureOK, RestOK
    <3>7. Rest(Data) = <<>>
      BY <1>1, <2>1, <3>5, <3>6, <3>4 DEF EndOfBody, Room
    <3>8. Len(Data) = Size
      BY <3>4, <3>5, <3>7, Rests, WantAssumption DEF Size
    <3>9. Len(Data) >= Len(Want) /\ Want \in Seq(Byte)
      BY <3>4, <3>8, WantAssumption DEF Size
    <3>10. Data = Want
      BY <3>3, <3>4, <3>9, Whole
    <3>. QED BY <1>1, <2>1, <3>10
  <2>. QED BY <1>1, <2>1, <2>2 DEF SureOK, MovedOK, PrefixOK, RestOK, Downloading, Tmp
<1>. QED BY <1>2, <1>3

LEMMA AfreshSure ==
    ASSUME RInv, SureOK, Afresh, object' = object
    PROVE  SureOK' /\ files' = files
<1>1. files' = files /\ pc = "discard" /\ pc' = "get"
  BY DEF Afresh, Goto, Stay, SureOK, RestOK
<1>. QED BY <1>1 DEF SureOK, MovedOK, PrefixOK, RestOK, Downloading, Tmp

LEMMA GetSure ==
    ASSUME RInv, SureOK, Get, object' = object
    PROVE  SureOK' /\ files' = files
<1>1. files' = files /\ pc = "get" /\ pc' = "sidecar" /\ stream' = object
  BY DEF Get, Respond, Stay, SureOK
<1>. QED BY <1>1 DEF SureOK, MovedOK, PrefixOK, RestOK, Downloading, Tmp

-----------------------------------------------------------------------------
(* Then the loops over the trees.                                          *)

\* A loop has dealt with the first of its names.
LEMMA Looping ==
    ASSUME todo \in Seq(Kept), todo # <<>>, todo' = Tail(todo), NEW n \in Kept,
           n # Head(todo), Pending(n)
    PROVE  Pending(n)'
<1>1. PICK i \in 1 .. Len(todo) : todo[i] = n
  BY DEF Pending
<1>2. i # 1
  BY <1>1
<1>3. i - 1 \in 1 .. Len(todo') /\ todo'[i - 1] = n
  BY <1>1, <1>2
<1>. QED BY <1>3 DEF Pending

LEMMA StillHolding ==
    ASSUME ResumeTypeOK'
    PROVE  Held' \in Nat
<1>1. \A n \in {"data", "prev"} : Found(n)' \in DataFile \cup {Nil}
  BY DEF ResumeTypeOK, FilesOK, Fits, Found, Tree, Name, Kept
<1>2. FoundData' \in DataFile \cup {Nil}
  BY <1>1 DEF FoundData
<1>3. FoundData' # Nil => Len(FoundData'.bytes) \in Nat
  BY <1>2 DEF DataFile
<1>. QED BY <1>3 DEF Held

\* dropShared takes no file that can be held.
LEMMA DropHeld ==
    ASSUME RInv, RInv', NEW t \in Tree, DropShared(t), object' = object,
           t = "partial" => files["tmp"] = Bare
    PROVE  HeldOn
<1>1. Held \in Nat /\ Held' \in Nat
  BY Holding, StillHolding DEF RInv
<1>2. SUFFICES ASSUME Held # 0 PROVE Held' = Held
  BY <1>1 DEF HeldOn
<1>3. /\ FoundData.sole /\ FoundData # Nil /\ FoundData \in DataFile
      /\ object.tag # Nil /\ Found("info") = object.tag /\ object.tag \in Tag
  BY <1>2, Holding, Responses DEF RInv, ResumeTypeOK, Response
<1>4. \A u \in Tree, n \in Name :
         files'[u][n] = IF u = t /\ n \in Shared(t) THEN Nil ELSE files[u][n]
  BY DEF DropShared, RInv, ResumeTypeOK, FilesOK
<1>5. \A n \in Name : Found(n)' \in {Found(n), Nil}
  BY <1>4 DEF Found, Bare, Tree
<1>6. \A n \in Name : (Found(n) = Nil \/ Found(n) \in Tag \/ Found(n).sole) => Found(n)' = Found(n)
  BY <1>4, <1>5 DEF Found, Shared, IsFile, Tree, Bare
<1>7. Found("info")' = Found("info")
  BY <1>3, <1>6 DEF Name, Kept
<1>8. FoundData' = FoundData
  BY <1>3, <1>6 DEF FoundData, Name, Kept
<1>. QED BY <1>7, <1>8 DEF Held

LEMMA KeepSure ==
    ASSUME RInv, RInv', SureOK, Keep, object' = object
    PROVE  SureOK' /\ HeldOn /\ (pc' = "rename" => "partial" \notin trees')
<1>1. pc' \in {"stash", "rename"} /\ (pc' = "stash" => todo' = <<"data", "info", "draft", "prev">>)
      /\ (pc' = "rename" => "partial" \notin trees')
  BY DEF Keep, Loop, Goto, Listed
<1>2. pc' = "stash" => \A n \in Kept : Pending(n)'
  <2>1. ASSUME pc' = "stash"
        PROVE  \A n \in Kept : Pending(n)'
    <3>1. /\ Len(todo') = 4 /\ todo'[1] = "data" /\ todo'[2] = "info"
          /\ todo'[3] = "draft" /\ todo'[4] = "prev"
      BY <1>1, <2>1
    <3>. QED BY <3>1 DEF Pending, Kept
  <2>. QED BY <2>1
<1>3. HeldOn
  BY DropHeld DEF Keep, Tree
<1>. QED BY <1>1, <1>2, <1>3 DEF SureOK, MovedOK, PrefixOK, RestOK, Downloading

\* keepStaged's rename: the whole of it is found under the other name.
LEMMA KeepRenameSure ==
    ASSUME RInv, RInv', SureOK, KeepRename, object' = object, "partial" \notin trees
    PROVE  SureOK' /\ HeldOn
<1>1. files["partial"] = Bare /\ files \in [Tree -> [Name -> DataFile \cup Tag \cup {Nil}]]
  BY DEF RInv, ResumeTypeOK, FilesOK, Tree
<1>2. \A n \in Kept : Found(n)' = Found(n)
  BY <1>1 DEF KeepRename, Found, Bare, Tree, Name, Kept
<1>3. Held' = Held
  BY <1>2, SameHeld DEF Kept
<1>4. pc' \in {"unshare", "idle", "again"}
  BY DEF KeepRename, AfterKeep, Goto
<1>5. HeldOn
  BY <1>3, Holding DEF RInv, HeldOn
<1>. QED BY <1>4, <1>5, Elsewhere DEF Downloading

LEMMA MkdirStashSure ==
    ASSUME RInv, SureOK, MkdirStash, object' = object
    PROVE  SureOK' /\ HeldOn
<1>1. files' = files /\ todo' = todo /\ pc' = pc /\ pc \in {"stash", "aside"}
  BY DEF MkdirStash, memory
<1>2. \A n \in Kept : (Pending(n)' <=> Pending(n)) /\ (Settled(n)' <=> Settled(n))
  BY <1>1 DEF Pending, Settled, Tmp
<1>3. HeldOn
  BY <1>1, StandingHeld
<1>. QED BY <1>1, <1>2, <1>3 DEF SureOK, MovedOK, PrefixOK, RestOK, Downloading

\* stashPrefixes: what is found under a name stays so, wherever it lies.
LEMMA StashSure ==
    ASSUME RInv, SureOK, Stash, object' = object
    PROVE  SureOK' /\ HeldOn
<1>1. /\ todo \in Seq(Kept) /\ todo # <<>> /\ todo' = Tail(todo) /\ pc' = pc
      /\ pc \in {"stash", "aside"}
      /\ files \in [Tree -> [Name -> DataFile \cup Tag \cup {Nil}]]
  BY DEF RInv, ResumeTypeOK, FilesOK, Stash, Loop
<1>2. PICK h \in Kept : h = Head(todo)
  BY <1>1, Loops
<1>3. \A n \in Name \ {h}, t \in Tree : files'[t][n] = files[t][n]
  BY <1>1, <1>2 DEF Stash, Rename, Tree, Name
<1>4. Settled(h)' /\ Found(h)' = Found(h)
  <2>1. CASE Stashes(h)
    BY <1>1, <1>2, <2>1 DEF Stash, Rename, Stashes, Settled, Tmp, Found, Tree, Name
  <2>2. CASE ~Stashes(h)
    BY <1>1, <1>2, <2>2 DEF Stash, Stashes, Settled, Tmp, Found
  <2>. QED BY <2>1, <2>2
<1>5. \A n \in Name : Found(n)' = Found(n)
  <2>1. ASSUME NEW n \in Name, n # h
        PROVE  Found(n)' = Found(n)
    BY <1>3, <2>1 DEF Found, Tree
  <2>. QED BY <1>4, <2>1
<1>6. Held' = Held
  BY <1>5, SameHeld DEF Name, Kept
<1>7. pc = "stash" => \A n \in Kept : Pending(n)' \/ Settled(n)'
  <2>1. ASSUME pc = "stash", NEW n \in Kept, n # h
        PROVE  Pending(n)' \/ Settled(n)'
    <3>1. CASE Pending(n)
      BY <1>1, <2>1, <3>1, <1>2, Looping
    <3>2. CASE Settled(n)
      BY <1>3, <2>1, <3>2 DEF Settled, Tmp, Tree, Name
    <3>. QED BY <2>1, <3>1, <3>2 DEF SureOK, MovedOK
  <2>. QED BY <1>4, <2>1
<1>8. HeldOn
  BY <1>6, Holding DEF RInv, HeldOn
<1>. QED BY <1>1, <1>7, <1>8 DEF SureOK, MovedOK, PrefixOK, RestOK, Downloading

\* What RemoveAll takes from a tree is found in the other one.
LEMMA RemoveAllSure ==
    ASSUME RInv, SureOK, RemoveAll, object' = object
    PROVE  SureOK' /\ HeldOn
<1>1. PICK n \in Name : Put(Root, n, Nil) /\ files[Root][n] # Nil
  <2>1. Doomed \subseteq Name
    BY DEF Doomed, Name
  <2>. QED BY <2>1 DEF RemoveAll
<1>2. /\ Root \in Tree /\ files \in [Tree -> [Name -> DataFile \cup Tag \cup {Nil}]]
      /\ pc' = pc /\ pc \in {"rmtmp", "clear", "cleardir", "cleardir again"}
      /\ (Root = "partial" <=> pc = "clear") /\ (pc # "clear" => Root = "tmp")
  BY DEF Root, Tree, RInv, ResumeTypeOK, FilesOK, RemoveAll, memory, Removing, SureOK
<1>3. files'[Root][n] = Nil
      /\ \A m \in Name, t \in Tree : <<t, m>> # <<Root, n>> => files'[t][m] = files[t][m]
  BY <1>1, <1>2 DEF Put
<1>4. CASE pc = "rmtmp"
  <2>1. \A m \in Kept : Found(m)' = Found(m) /\ Settled(m)'
    BY <1>2, <1>3, <1>4 DEF SureOK, MovedOK, Settled, Found, Tmp, Tree, Name
  <2>2. Held' = Held
    BY <2>1, SameHeld DEF Kept
  <2>. QED BY <1>2, <1>4, <2>1, <2>2, Holding
           DEF RInv, HeldOn, SureOK, MovedOK, PrefixOK, RestOK, Downloading
<1>5. CASE pc = "clear"
  <2>1. \A m \in {"data", "prev", "info"} : files["partial"][m] = Nil /\ m \in Name
    BY <1>5 DEF SureOK, MovedOK, Name, Kept
  <2>2. n \notin {"data", "prev", "info"}
    BY <1>1, <1>2, <1>5, <2>1
  <2>3. \A m \in {"data", "prev", "info"} : Found(m)' = Found(m) /\ files'["partial"][m] = Nil
    BY <1>2, <1>3, <1>5, <2>1, <2>2 DEF Found, Tree
  <2>4. Held' = Held
    BY <2>3, SameHeld
  <2>. QED BY <1>2, <1>5, <2>3, <2>4, Holding
           DEF RInv, HeldOn, SureOK, MovedOK, PrefixOK, RestOK, Downloading
<1>6. CASE pc \in {"cleardir", "cleardir again"}
  BY <1>2, <1>6, Elsewhere DEF Downloading, HeldOn, Installed
<1>. QED BY <1>2, <1>4, <1>5, <1>6

\* unsharePartial and adoptPrefixes.
LEMMA UnshareSure ==
    ASSUME RInv, RInv', SureOK, ~spoilt, Unshare, object' = object
    PROVE  SureOK' /\ HeldOn
<1>1. pc = "unshare" /\ why # "tmp"
  BY DEF RInv, Hurting, Unshare
<1>2. files["tmp"] = Bare /\ pc' \in {"local", "idle"}
  BY <1>1 DEF RInv, ResumeTypeOK, FilesOK, Tree, TmpThere, Unshare, Recovered, Stage, Goto
<1>3. HeldOn
  BY <1>2, DropHeld DEF Unshare, Tree
<1>. QED BY <1>2, <1>3, Elsewhere DEF Downloading

LEMMA AdoptSure ==
    ASSUME RInv, SureOK, Adopt, object' = object
    PROVE  SureOK' /\ HeldOn
<1>1. /\ todo \in Seq(Kept) /\ todo # <<>> /\ todo' = Tail(todo) /\ pc' = pc /\ pc = "adopt"
      /\ files \in [Tree -> [Name -> DataFile \cup Tag \cup {Nil}]]
  BY DEF RInv, ResumeTypeOK, FilesOK, Adopt, Loop
<1>2. PICK h \in Kept : h = Head(todo)
  BY <1>1, Loops
<1>3. \A n \in Name \ {h}, t \in Tree : files'[t][n] = files[t][n]
  BY <1>1, <1>2 DEF Adopt, Rename, Tree, Name
<1>4. files'["partial"][h] = Nil /\ Found(h)' = Found(h)
  <2>1. CASE files["partial"][h] # Nil
    BY <1>1, <1>2, <2>1 DEF Adopt, Rename, Found, Tree, Name
  <2>2. CASE files["partial"][h] = Nil
    BY <1>1, <1>2, <2>2 DEF Adopt, Found
  <2>. QED BY <2>1, <2>2
<1>5. \A n \in Name : Found(n)' = Found(n)
  <2>1. ASSUME NEW n \in Name, n # h
        PROVE  Found(n)' = Found(n)
    BY <1>3, <2>1 DEF Found, Tree
  <2>. QED BY <1>4, <2>1
<1>6. Held' = Held
  BY <1>5, SameHeld DEF Name, Kept
<1>7. \A n \in {"data", "prev", "info"} : Pending(n)' \/ files'["partial"][n] = Nil
  <2>1. ASSUME NEW n \in {"data", "prev", "info"}, n # h
        PROVE  Pending(n)' \/ files'["partial"][n] = Nil
    <3>1. CASE Pending(n)
      BY <1>1, <2>1, <3>1, <1>2, Looping DEF Kept
    <3>2. CASE files["partial"][n] = Nil
      BY <1>3, <2>1, <3>2 DEF Tree, Name, Kept
    <3>. QED BY <1>1, <2>1, <3>1, <3>2 DEF SureOK, MovedOK
  <2>. QED BY <1>4, <2>1
<1>8. HeldOn
  BY <1>6, Holding DEF RInv, HeldOn
<1>. QED BY <1>1, <1>7, <1>8 DEF SureOK, MovedOK, PrefixOK, RestOK, Downloading

-----------------------------------------------------------------------------
(* Then the steps of a download.                                           *)

LEMMA PutTmp ==
    ASSUME RInv, NEW n \in Name, NEW x, Put("tmp", n, x)
    PROVE  /\ Tmp(n)' = x /\ files'["partial"] = files["partial"]
           /\ \A m \in Name \ {n} : Tmp(m)' = Tmp(m)
BY DEF RInv, ResumeTypeOK, FilesOK, Put, Tmp, Tree

LEMMA RenameTmp ==
    ASSUME RInv, NEW n \in Name, NEW m \in Name, n # m, Rename("tmp", n, "tmp", m)
    PROVE  /\ Tmp(n)' = Nil /\ Tmp(m)' = Tmp(n) /\ files'["partial"] = files["partial"]
           /\ \A k \in Name \ {n, m} : Tmp(k)' = Tmp(k)
BY DEF RInv, ResumeTypeOK, FilesOK, Rename, Tmp, Tree

LEMMA HereNext ==
    ASSUME files'["partial"] = Bare
    PROVE  /\ Found("info")' = Tmp("info")'
           /\ FoundData' = IF Tmp("prev")' # Nil THEN Tmp("prev")' ELSE Tmp("data")'
BY DEF Found, FoundData, Tmp, Bare, Name, Kept

\* The data is the same, be it under another name.
LEMMA SameData ==
    ASSUME RInv, SureOK, pc \in Downloading, files'["partial"] = Bare, object' = object,
           Tmp("info")' = Tmp("info"),
           (IF Tmp("prev")' # Nil THEN Tmp("prev")' ELSE Tmp("data")')
               = (IF Tmp("prev") # Nil THEN Tmp("prev") ELSE Tmp("data"))
    PROVE  Held' = Held /\ HeldOn
<1>1. Found("info")' = Found("info") /\ FoundData' = FoundData
  BY HereNext, Here DEF FoundData
<1>2. Held' = Held
  BY <1>1 DEF Held
<1>. QED BY <1>2, Holding DEF RInv, HeldOn

\* Nothing is held while there is no data.
LEMMA NoData ==
    ASSUME RInv, RInv', SureOK, pc \in Downloading, Tmp("data") = Nil, Tmp("prev") = Nil
    PROVE  Held = 0 /\ HeldOn
<1>1. FoundData = Nil
  BY Here
<1>2. Held = 0
  BY <1>1 DEF Held
<1>. QED BY <1>2, StillHolding DEF RInv, HeldOn

LEMMA LoadPrevSure ==
    ASSUME RInv, SureOK, LoadPrev, object' = object
    PROVE  SureOK' /\ HeldOn
<1>1. /\ pc = "load" /\ pc' = "load" /\ Tmp("prev") # Nil
      /\ Tmp("prev")' = Nil /\ Tmp("data")' = Tmp("prev") /\ Tmp("info")' = Tmp("info")
      /\ files'["partial"] = files["partial"]
  BY RenameTmp DEF LoadPrev, Goto, Name, Kept
<1>2. files["partial"] = Bare
  BY <1>1 DEF SureOK, MovedOK, Downloading
<1>3. HeldOn
  BY <1>1, <1>2, SameData DEF Downloading
<1>. QED BY <1>1, <1>2, <1>3 DEF SureOK, MovedOK, PrefixOK, RestOK, Downloading

LEMMA SetAsideSure ==
    ASSUME RInv, SureOK, SetAside, object' = object
    PROVE  SureOK' /\ HeldOn
<1>1. /\ pc = "extend" /\ pc' = "create" /\ stream' = stream
      /\ Tmp("data")' = Nil /\ Tmp("prev")' = Tmp("data") /\ Tmp("info")' = Tmp("info")
      /\ files'["partial"] = files["partial"] /\ Tmp("data") # Nil
  BY RenameTmp DEF SetAside, Goto, Name, Kept, RInv, Written
<1>2. files["partial"] = Bare /\ Tmp("prev") = Nil
  BY <1>1 DEF SureOK, MovedOK, PrefixOK, Downloading
<1>3. HeldOn
  BY <1>1, <1>2, SameData DEF Downloading
<1>4. Rest(Prev)' = Rest(Data)
  BY <1>1 DEF Rest, Prev, Data
<1>. QED BY <1>1, <1>2, <1>3, <1>4 DEF SureOK, MovedOK, PrefixOK, RestOK, Downloading

LEMMA Empty ==
    /\ Rest(<<>>) = Want
    /\ \A s \in Seq(Byte) : Seqs!IsPrefix(<<>>, s)
<1> DEFINE e == <<>>
<1>1. e \in Seq(Byte) /\ Len(e) = 0
  OBVIOUS
<1> HIDE DEF e
<1>2. Size \in Nat /\ Len(e) <= Size
  BY <1>1, WantAssumption DEF Size
<1>3. /\ Rest(e) \in Seq(Byte) /\ Len(Rest(e)) = Size - Len(e)
      /\ \A i \in 1 .. Size - Len(e) : Rest(e)[i] = Want[Len(e) + i]
  BY <1>1, <1>2, Rests
<1>4. Rest(e) = Want
  <2>1. Len(Rest(e)) = Size /\ \A i \in 1 .. Size : Rest(e)[i] = Want[i]
    BY <1>1, <1>2, <1>3
  <2>. QED BY <1>3, <2>1, WantAssumption DEF Size
<1>5. ASSUME NEW s \in Seq(Byte)
      PROVE  Seqs!IsPrefix(e, s)
  <2>1. Len(e) <= Len(s) /\ \A i \in 1 .. Len(e) : e[i] = s[i]
    BY <1>1
  <2>. QED BY <1>1, <2>1, Prefixes
<1>. QED BY <1>4, <1>5 DEF e

LEMMA CreateSure ==
    ASSUME RInv, RInv', SureOK, Create, object' = object
    PROVE  SureOK' /\ HeldOn
<1>1. /\ pc \in {"create", "createnew"} /\ Tmp("data") = Nil
      /\ pc' = (IF pc = "create" THEN "copy" ELSE "fetching") /\ stream' = stream
      /\ Put("tmp", "data", NewFile)
  BY DEF Create, Goto, RInv, DataFree
<1>2. /\ Tmp("data")' = NewFile /\ Tmp("prev")' = Tmp("prev") /\ Tmp("info")' = Tmp("info")
      /\ files'["partial"] = files["partial"]
  BY <1>1, PutTmp DEF Name, Kept
<1>3. files["partial"] = Bare
  BY <1>1 DEF SureOK, MovedOK, Downloading
<1>4. Data' = <<>> /\ Prev' = Prev
  BY <1>2 DEF Data, Prev, NewFile
<1>5. CASE pc = "create"
  <2>1. Tmp("prev") # Nil
    BY <1>5 DEF RInv, Written
  <2>2. HeldOn
    BY <1>2, <1>3, <1>5, <2>1, SameData DEF Downloading
  <2>3. Prev \in Seq(Byte)
    BY <1>5, <2>1, Here DEF Downloading, Prev, DataFile
  <2>4. Seqs!IsPrefix(Data, Prev)'
    BY <1>4, <2>3, Empty DEF Seqs!IsPrefix
  <2>5. Rest(Prev)' = Rest(Prev)
    BY <1>4 DEF Rest
  <2>. QED BY <1>1, <1>2, <1>3, <1>5, <2>2, <2>4, <2>5
           DEF SureOK, MovedOK, PrefixOK, RestOK, Downloading
<1>6. CASE pc = "createnew"
  <2>1. Tmp("prev") = Nil /\ stream = object
    BY <1>6 DEF SureOK, PrefixOK, RestOK, Downloading
  <2>2. HeldOn
    BY <1>1, <1>6, <2>1, NoData DEF Downloading
  <2>3. Rest(Data)' = Want
    BY <1>4, Empty DEF Rest
  <2>. QED BY <1>1, <1>2, <1>3, <1>6, <2>1, <2>2, <2>3
           DEF SureOK, MovedOK, PrefixOK, RestOK, Downloading
<1>. QED BY <1>1, <1>5, <1>6

\* Copying forward: prev is found until data has all of it.
LEMMA CopySure ==
    ASSUME RInv, SureOK, Copy, object' = object
    PROVE  SureOK' /\ HeldOn
<1>1. /\ pc = "copy" /\ pc' = "copy" /\ stream' = stream /\ Len(Data) < Len(Prev)
      /\ Put("tmp", "data", Extended(Tmp("data"), Prev[Len(Data) + 1]))
  BY DEF Copy, memory
<1>2. /\ files["partial"] = Bare /\ Seqs!IsPrefix(Data, Prev) /\ Tmp("prev") # Nil
      /\ Tmp("data") \in DataFile /\ Data \in Seq(Byte) /\ Prev \in Seq(Byte)
  BY <1>1, Here DEF SureOK, MovedOK, PrefixOK, Downloading, RInv, Written, Own, Data, Prev,
                    DataFile
<1>3. Prev[Len(Data) + 1] \in Byte
  BY <1>1, <1>2
<1>4. /\ Tmp("data")' = Extended(Tmp("data"), Prev[Len(Data) + 1])
      /\ Tmp("prev")' = Tmp("prev") /\ Tmp("info")' = Tmp("info")
      /\ files'["partial"] = files["partial"]
  BY <1>1, PutTmp DEF Name, Kept
<1>5. Data' = Append(Data, Prev[Len(Data) + 1]) /\ Prev' = Prev
  BY <1>2, <1>3, <1>4, Extending DEF Data, Prev
<1>6. Seqs!IsPrefix(Data, Prev)'
  <2>1. Seqs!IsPrefix(Append(Data, Prev[Len(Data) + 1]), Prev)
    BY <1>1, <1>2, Lengthening
  <2>. QED BY <1>5, <2>1 DEF Seqs!IsPrefix
<1>7. HeldOn
  BY <1>1, <1>2, <1>4, SameData DEF Downloading
<1>8. Rest(Prev)' = Rest(Prev)
  BY <1>5 DEF Rest
<1>. QED BY <1>1, <1>2, <1>4, <1>6, <1>7, <1>8
         DEF SureOK, MovedOK, PrefixOK, RestOK, Downloading

LEMMA CopiedSure ==
    ASSUME RInv, RInv', SureOK, Copied, object' = object
    PROVE  SureOK' /\ HeldOn
<1>1. /\ pc = "copy" /\ pc' = "extending" /\ stream' = stream /\ Len(Data) = Len(Prev)
      /\ Put("tmp", "prev", Nil)
  BY DEF Copied, Goto
<1>2. /\ files["partial"] = Bare /\ Seqs!IsPrefix(Data, Prev) /\ Tmp("prev") # Nil
      /\ Tmp("data") \in DataFile /\ Tmp("data").sole /\ Tmp("prev") \in DataFile
      /\ Data \in Seq(Byte) /\ Prev \in Seq(Byte)
  BY <1>1, Here DEF SureOK, MovedOK, PrefixOK, Downloading, RInv, Written, Own, Data, Prev,
                    DataFile
<1>3. /\ Tmp("prev")' = Nil /\ Tmp("data")' = Tmp("data") /\ Tmp("info")' = Tmp("info")
      /\ files'["partial"] = files["partial"]
  BY <1>1, PutTmp DEF Name, Kept
<1>4. Data = Prev
  BY <1>1, <1>2, Whole
<1>5. HeldOn
  <2>1. CASE Tmp("prev").sole
    <3>1. Tmp("prev") = Tmp("data")
      BY <1>2, <1>4, <2>1 DEF DataFile, Data, Prev
    <3>. QED BY <1>1, <1>2, <1>3, <3>1, SameData DEF Downloading
  <2>2. CASE ~Tmp("prev").sole
    <3>1. FoundData = Tmp("prev")
      BY <1>1, <1>2, Here DEF Downloading, FoundData
    <3>2. Held = 0
      BY <2>2, <3>1 DEF Held
    <3>. QED BY <3>2, StillHolding DEF RInv, HeldOn
  <2>. QED BY <2>1, <2>2
<1>6. Rest(Data)' = Rest(Prev)
  BY <1>3, <1>4 DEF Rest, Data
<1>. QED BY <1>1, <1>2, <1>3, <1>5, <1>6 DEF SureOK, MovedOK, PrefixOK, RestOK, Downloading

\* What is discarded is worth nothing.
LEMMA DiscardSure ==
    ASSUME RInv, SureOK, Discard, object' = object
    PROVE  SureOK' /\ HeldOn
<1>1. /\ pc \in {"discard", "known bad"} /\ pc' = pc /\ stream' = stream
      /\ Held = 0 /\ files["partial"] = Bare /\ Tmp("prev") = Nil
  BY DEF Discard, Loop, SureOK, MovedOK, PrefixOK, Downloading
<1>2. PICK h \in Kept : Put("tmp", h, Nil)
  BY Loops DEF Discard, RInv, ResumeTypeOK
<1>3. /\ Tmp(h)' = Nil /\ files'["partial"] = Bare
      /\ \A m \in Name \ {h} : Tmp(m)' = Tmp(m)
  BY <1>1, <1>2, PutTmp DEF Name
<1>4. Tmp("prev")' = Nil
  BY <1>1, <1>3 DEF Name, Kept
<1>5. Held' = 0
  <2>1. CASE h = "data"
    BY <1>3, <1>4, <2>1, HereNext DEF Held
  <2>2. CASE h = "info"
    BY <1>3, <2>2, HereNext DEF Held
  <2>3. CASE h \notin {"data", "info"}
    <3>1. Tmp("info")' = Tmp("info") /\ Tmp("data")' = Tmp("data")
      BY <1>3, <2>3 DEF Name, Kept
    <3>. QED BY <1>1, <1>3, <1>4, <3>1, SameData DEF Downloading
  <2>. QED BY <2>1, <2>2, <2>3
<1>6. HeldOn
  <2>1. Held' = Held /\ Held \in Nat
    BY <1>1, <1>5
  <2>. QED BY <2>1 DEF HeldOn
<1>. QED BY <1>1, <1>3, <1>4, <1>5, <1>6 DEF SureOK, MovedOK, PrefixOK, RestOK, Downloading

LEMMA SidecarSure ==
    ASSUME RInv, SureOK, Sidecar, object' = object
    PROVE  SureOK' /\ HeldOn
<1>1. /\ pc = "sidecar" /\ pc' \in {"open", "publish"} /\ stream' = stream
      /\ files["partial"] = Bare /\ Tmp("prev") = Nil /\ Tmp("data") = Nil /\ stream = object
  BY DEF Sidecar, Goto, SureOK, MovedOK, PrefixOK, RestOK, Downloading, RInv, DataFree
<1>2. /\ files'["partial"] = Bare
      /\ Tmp("prev")' = Nil /\ Tmp("data")' = Nil /\ Tmp("info")' = Tmp("info")
  <2>1. CASE stream.tag = Nil
    BY <1>1, <2>1 DEF Sidecar, Tmp
  <2>2. CASE stream.tag # Nil
    BY <1>1, <2>2, PutTmp DEF Sidecar, Name, Kept
  <2>. QED BY <2>1, <2>2
<1>3. HeldOn
  BY <1>1, <1>2, SameData DEF Downloading
<1>. QED BY <1>1, <1>2, <1>3 DEF SureOK, MovedOK, PrefixOK, RestOK, Downloading

LEMMA PublishSure ==
    ASSUME RInv, RInv', SureOK, Publish, object' = object
    PROVE  SureOK' /\ HeldOn
<1>1. /\ pc = "publish" /\ pc' = "createnew" /\ stream' = stream
      /\ files["partial"] = Bare /\ Tmp("prev") = Nil /\ Tmp("data") = Nil /\ stream = object
  BY DEF Publish, Goto, SureOK, MovedOK, PrefixOK, RestOK, Downloading, RInv, DataFree
<1>2. files'["partial"] = Bare /\ Tmp("prev")' = Nil
  BY <1>1, RenameTmp DEF Publish, Name, Kept
<1>3. HeldOn
  BY <1>1, NoData DEF Downloading
<1>. QED BY <1>1, <1>2, <1>3 DEF SureOK, MovedOK, PrefixOK, RestOK, Downloading

LEMMA OpenSure ==
    ASSUME RInv, SureOK, Open, object' = object
    PROVE  SureOK' /\ HeldOn
<1>1. /\ pc = "open" /\ files["partial"] = Bare /\ Tmp("prev") = Nil /\ Tmp("data") = Nil
  BY DEF Open, SureOK, MovedOK, PrefixOK, Downloading
<1>2. CASE Tmp("dst") = Nil
  <2>1. pc' = "writing" /\ files'["partial"] = Bare
        /\ Tmp("prev")' = Nil /\ Tmp("data")' = Nil /\ Tmp("info")' = Tmp("info")
    BY <1>1, <1>2, PutTmp DEF Open, Goto, Name, Kept
  <2>2. HeldOn
    BY <1>1, <2>1, SameData DEF Downloading
  <2>. QED BY <2>1, <2>2 DEF SureOK, MovedOK, PrefixOK, RestOK, Downloading
<1>3. CASE Tmp("dst") # Nil
  <2>1. files' = files /\ pc' = "keep"
    BY <1>3 DEF Open, Fail
  <2>. QED BY <2>1, StandingHeld, Elsewhere DEF Downloading
<1>. QED BY <1>2, <1>3

\* A byte that arrives is the one that follows.
LEMMA ReceiveSure ==
    ASSUME RInv, RInv', SureOK, Receive, object' = object
    PROVE  SureOK' /\ HeldOn
<1>1. /\ pc \in {"extending", "fetching", "writing"} /\ pc' = pc
      /\ stream' = [stream EXCEPT !.body = Tail(@)] /\ stream.body # <<>>
      /\ Put("tmp", Sink, Extended(Tmp(Sink), Head(stream.body)))
      /\ files["partial"] = Bare /\ Tmp("prev") = Nil
      /\ stream \in Response
  BY DEF Receive, Receiving, Respond, SureOK, MovedOK, PrefixOK, Downloading, RInv, Answered
<1>2. CASE pc = "writing"
  <2>1. /\ files'["partial"] = Bare /\ Tmp("prev")' = Nil /\ Tmp("info")' = Tmp("info")
        /\ Tmp("data") = Nil /\ Tmp("data")' = Nil
    BY <1>1, <1>2, PutTmp DEF Sink, Name, Kept, SureOK, PrefixOK
  <2>2. HeldOn
    BY <1>1, <2>1, SameData DEF Downloading
  <2>. QED BY <1>1, <1>2, <2>1, <2>2 DEF SureOK, MovedOK, PrefixOK, RestOK, Downloading
<1>3. CASE pc \in {"extending", "fetching"}
  <2>1. /\ Tmp("data") \in DataFile /\ Data \in Seq(Byte)
        /\ Head(stream.body) \in Byte /\ stream'.body = Tail(stream.body)
    <3>1. Tmp("data") \in DataFile
      BY <1>3, Here DEF RInv, Written, Own, Downloading
    <3>2. stream.body \in Seq(Byte) /\ stream'.body = Tail(stream.body)
      BY <1>1 DEF Response
    <3>. QED BY <1>1, <3>1, <3>2 DEF Data, DataFile
  <2>2. /\ Tmp("data")' = Extended(Tmp("data"), Head(stream.body))
        /\ files'["partial"] = Bare /\ Tmp("prev")' = Nil /\ Tmp("info")' = Tmp("info")
    BY <1>1, <1>3, PutTmp DEF Sink, Name, Kept
  <2>3. /\ Tmp("data")' \in DataFile /\ Tmp("data")'.sole = Tmp("data").sole
        /\ Data' = Append(Data, Head(stream.body))
    BY <2>1, <2>2, Extending DEF Data
  <2>4. Len(Data) <= Size
    BY <1>3 DEF Receive, Room, Received, Sink, Data
  <2>5. ASSUME object.body = Want
        PROVE  /\ stream.body = Rest(Data) /\ Len(Data) < Size
               /\ Head(stream.body) = Want[Len(Data) + 1]
               /\ stream'.body = Rest(Data)'
    <3>1. stream.body = Rest(Data)
      BY <1>3, <2>5 DEF SureOK, RestOK
    <3>2. /\ Len(Data) < Size /\ Head(Rest(Data)) = Want[Len(Data) + 1]
          /\ Tail(Rest(Data)) = Rest(Append(Data, Head(Rest(Data))))
      BY <1>1, <2>1, <2>4, <3>1, Shortening
    <3>3. Rest(Data)' = Rest(Append(Data, Head(stream.body)))
      BY <2>3 DEF Rest
    <3>. QED BY <2>1, <3>1, <3>2, <3>3
  <2>6. HeldOn
    <3>1. SUFFICES ASSUME Held # 0 PROVE Held' >= Held
      BY StillHolding DEF RInv, HeldOn
    <3>2. /\ object.body = Want /\ object.tag # Nil /\ Tmp("info") = object.tag
          /\ Tmp("data").sole /\ Seqs!IsPrefix(Data, Want) /\ Held = Len(Data)
      BY <1>1, <1>3, <3>1, Holding, Here DEF RInv, Downloading, Data
    <3>3. Seqs!IsPrefix(Append(Data, Want[Len(Data) + 1]), Want)
      BY <2>1, <2>5, <3>2, Lengthening, WantAssumption DEF Size
    <3>4. Seqs!IsPrefix(Data', Want)
      BY <2>3, <2>5, <3>2, <3>3
    <3>5. Len(Data') = Len(Data) + 1
      BY <2>1, <2>3
    <3>6. FoundData' = Tmp("data")' /\ Found("info")' = Tmp("info")'
      BY <2>2, HereNext
    <3>7. Held' = Len(Data')
      BY <2>2, <2>3, <3>2, <3>4, <3>6, Responses DEF Held, Data
    <3>. QED BY <2>1, <3>2, <3>5, <3>7
  <2>. QED BY <1>1, <1>3, <2>2, <2>5, <2>6
           DEF SureOK, MovedOK, PrefixOK, RestOK, Downloading
<1>. QED BY <1>1, <1>2, <1>3

-----------------------------------------------------------------------------
(* All steps.                                                              *)

\* The object is installed: what is held of it is given up.
LEMMA EndsSure ==
    ASSUME RInv, Ends
    PROVE  SureOK' /\ HeldOn
<1>1. pc \in {"install"} \cup Installed
  BY DEF Ends, Install, DropInfo, Chmod, RemoteStaged, DirCleared, Removed, Swapped, Installed
<1>2. pc' \in {"dropinfo", "chmod", "installed", "cleardir", "staged", "idle"}
  BY DEF Ends, Install, DropInfo, Chmod, RemoteStaged, DirCleared, Swapped, Goto
<1>. QED BY <1>1, <1>2, Elsewhere DEF HeldOn, Downloading

LEMMA WorkSure ==
    ASSUME RInv, RInv', KInv, ~spoilt, Work
    PROVE  SureOK' /\ HeldOn
<1>. USE DEF KInv
<1>1. object' = object /\ SureOK
  BY DEF Work
<1>2. ~SharedRemoved /\ ~ClearShared
  BY <1>1 DEF SureOK, SharedRemoved, Removed, ClearShared
<1>3. CASE Begin \/ TmpRemoved \/ Resync \/ KnownBad \/ Complete
  BY <1>1, <1>3, LeavingSure
<1>4. CASE Stashed \/ LocalStaged \/ Adopting \/ Cleared \/ MkdirAll \/ Load \/ Continue
           \/ Refused \/ Mismatch \/ Afresh \/ Get
  BY <1>1, <1>4, StashedSure, LocalStagedSure, AdoptingSure, ClearedSure, MkdirAllSure, LoadSure,
     ContinueSure, RefusedSure, MismatchSure, AfreshSure, GetSure, StandingHeld
<1>5. CASE Keep \/ Stash \/ RemoveAll \/ Unshare \/ Adopt
  BY <1>1, <1>5, KeepSure, StashSure, RemoveAllSure, UnshareSure, AdoptSure
<1>6. CASE KeepRename
  BY <1>1, <1>6, KeepRenameSure DEF KeepRename
<1>9. CASE MkdirStash
  BY <1>1, <1>9, MkdirStashSure
<1>7. CASE LoadPrev \/ SetAside \/ Create \/ Copy \/ Copied \/ Discard \/ Sidecar \/ Publish
           \/ Open \/ Receive
  BY <1>1, <1>7, LoadPrevSure, SetAsideSure, CreateSure, CopySure, CopiedSure, DiscardSure,
     SidecarSure, PublishSure, OpenSure, ReceiveSure
<1>8. CASE Ends
  BY <1>8, EndsSure
<1>. QED BY <1>2, <1>3, <1>4, <1>5, <1>6, <1>7, <1>8, <1>9
         DEF Work, Trees, Stages, Resumes, Fetches

\* A pull, or an attempt, that begins has lost nothing yet.
LEMMA FreshSure ==
    ASSUME RInv, Begin \/ Resync, object' = object
    PROVE  SureOK' /\ HeldOn
BY LeavingSure

LEMMA TroubleSure ==
    ASSUME RInv, KInv, ~spoilt', Trouble
    PROVE  SureOK' /\ HeldOn
<1>1. object' = object /\ (NetFails \/ OthersFail)
  BY DEF Trouble, KeepFails, StageFails, PrefixFails, DropInfoFails, EndFails, Breaks,
         RangeIgnored, Shrank
<1>. QED BY <1>1, LeavingSure

LEMMA IdleSure ==
    ASSUME RInv, KInv, UNCHANGED vars
    PROVE  KInv' /\ HeldOn
<1>. USE DEF vars, memory, history
<1>1. /\ files' = files /\ object' = object /\ Held' = Held /\ Data' = Data /\ Prev' = Prev
      /\ \A n \in Name : Tmp(n)' = Tmp(n) /\ Settled(n)' = Settled(n)
      /\ Rest(Data)' = Rest(Data) /\ Rest(Prev)' = Rest(Prev)
  BY Standing
<1>2. HeldOn
  BY <1>1, StandingHeld
<1>3. \A n \in Name : Pending(n)' = Pending(n)
  BY DEF Pending
<1>4. ASSUME SureOK PROVE SureOK'
  <2>1. MovedOK'
    BY <1>1, <1>3, <1>4 DEF SureOK, MovedOK, Name, Kept
  <2>2. PrefixOK'
    <3>1. Tmp("prev")' = Tmp("prev") /\ Tmp("data")' = Tmp("data")
      BY <1>1 DEF Name, Kept
    <3>2. Seqs!IsPrefix(Data, Prev)' <=> Seqs!IsPrefix(Data, Prev)
      BY <1>1 DEF Seqs!IsPrefix
    <3>. QED BY <1>1, <1>4, <3>1, <3>2 DEF SureOK, PrefixOK
  <2>3. RestOK'
    BY <1>1, <1>4 DEF SureOK, RestOK
  <2>. QED BY <1>4, <2>1, <2>2, <2>3 DEF SureOK
<1>. QED BY <1>2, <1>4 DEF KInv, StreamOK

LEMMA StreamStep ==
    ASSUME RInv, StreamOK, Next
    PROVE  StreamOK'
<1>. USE DEF StreamOK, Goto, Loop, Respond, Fail, memory
<1>1. CASE Work /\ Trees
  BY <1>1 DEF Trees, Begin, Keep, KeepRename, AfterKeep, MkdirStash, Stash, Stashed, TmpRemoved, Removed,
              RemoveAll, Removing
<1>2. CASE Work /\ Stages
  BY <1>2 DEF Stages, Stage, Recovered, Unshare, SharedRemoved, Removed, Resync, LocalStaged, Adopt,
              Adopting, Cleared, ClearShared
<1>3. CASE Work /\ Resumes
  BY <1>3 DEF Resumes, MkdirAll, LoadPrev, Load, Continue, Refused, SetAside, Create, Stuck,
              Copy, Copied
<1>4. CASE Work /\ Fetches
  BY <1>4 DEF Fetches, Discard, Afresh, KnownBad, Get, Sidecar, Publish, Open, Receive,
              Complete, Mismatch, Receiving, EndOfBody
<1>5. CASE Work /\ Ends
  BY <1>5 DEF Ends, Install, DropInfo, Chmod, RemoteStaged, DirCleared, Removed, Swapped
<1>6. CASE Trouble
  BY <1>6 DEF Trouble, KeepFails, StashFails, StageFails, PrefixFails, Stuck, DropInfoFails, EndFails,
              NetFails, RangeIgnored, Shrank, OthersFail
<1>7. CASE Kill \/ Overwrite \/ LinkKept
  BY <1>7 DEF Kill, Overwrite, LinkKept
<1>. QED BY <1>1, <1>2, <1>3, <1>4, <1>5, <1>6, <1>7 DEF Next, Work

\* Only keepStaged comes to its rename, when there is no partial tree.
LEMMA RenameStep ==
    ASSUME RInv, KInv, Next, pc' = "rename"
    PROVE  "partial" \notin trees'
<1>. USE DEF Goto, Loop, Respond, Fail, memory, KInv
<1>1. ~(Work /\ Trees) \/ Keep
  BY DEF Trees, Begin, KeepRename, AfterKeep, MkdirStash, Stash, Stashed, TmpRemoved, Removed, RemoveAll,
         Removing
<1>2. ~(Work /\ Stages)
  BY DEF Stages, Stage, Recovered, Unshare, SharedRemoved, Removed, Resync, LocalStaged, Adopt,
         Adopting, Cleared, ClearShared
<1>3. ~(Work /\ Resumes)
  BY DEF Resumes, MkdirAll, LoadPrev, Load, Continue, Refused, SetAside, Create, Stuck,
         Copy, Copied
<1>4. ~(Work /\ Fetches)
  BY DEF Fetches, Discard, Afresh, KnownBad, Get, Sidecar, Publish, Open, Receive,
         Complete, Mismatch, Receiving, EndOfBody
<1>5. ~(Work /\ Ends)
  BY DEF Ends, Install, DropInfo, Chmod, RemoteStaged, DirCleared, Removed, Swapped
<1>6. ~Trouble
  BY DEF Trouble, KeepFails, StashFails, StageFails, PrefixFails, Stuck, DropInfoFails, EndFails,
         NetFails, RangeIgnored, Shrank, OthersFail
<1>7. CASE Keep
  BY <1>7 DEF Keep
<1>8. CASE Overwrite \/ LinkKept
  BY <1>8 DEF Overwrite, LinkKept, Put
<1>. QED BY <1>1, <1>2, <1>3, <1>4, <1>5, <1>6, <1>7, <1>8 DEF Next, Work, Kill

\* Once something may have cost a prefix it takes a new attempt to say otherwise.
LEMMA SpoiltStep ==
    ASSUME Next, spoilt, ~spoilt'
    PROVE  Begin \/ Resync
<1>. USE DEF Fine, Stay, history
<1>1. CASE Trees
  BY <1>1 DEF Trees, Keep, KeepRename, AfterKeep, MkdirStash, Stash, Stashed, TmpRemoved, RemoveAll
<1>2. CASE Stages
  BY <1>2 DEF Stages, Unshare, SharedRemoved, LocalStaged, Adopt, Adopting, Cleared, ClearShared
<1>3. CASE Resumes
  BY <1>3 DEF Resumes, MkdirAll, LoadPrev, Load, Continue, Refused, SetAside, Create, Copy, Copied
<1>4. CASE Fetches
  BY <1>4 DEF Fetches, Discard, Afresh, KnownBad, Get, Sidecar, Publish, Open, Receive,
              Complete, Mismatch
<1>5. CASE Ends
  BY <1>5 DEF Ends, Install, DropInfo, Chmod, RemoteStaged, DirCleared, Swapped
<1>6. ~Trouble /\ ~Kill /\ ~Overwrite /\ ~LinkKept
  BY DEF Trouble, KeepFails, StageFails, PrefixFails, DropInfoFails, EndFails, Breaks, Kill,
         NetFails, RangeIgnored, Shrank, OthersFail, Overwrite, LinkKept
<1>. QED BY <1>1, <1>2, <1>3, <1>4, <1>5, <1>6 DEF Next, Work

\* KInv is inductive, and no step it allows gives up a byte that is held.
LEMMA KeepsStep ==
    ASSUME RInv, RInv', KInv, [Next]_vars
    PROVE  KInv' /\ (~spoilt' => HeldOn)
<1>1. CASE UNCHANGED vars
  BY <1>1, IdleSure
<1>2. CASE Next
  <2>1. ASSUME ~spoilt'
        PROVE  SureOK' /\ HeldOn
    <3>1. CASE spoilt
      <4>1. (Begin \/ Resync) /\ object' = object
        BY <1>2, <2>1, <3>1, SpoiltStep DEF Next, Work, Trouble, Kill, Overwrite, LinkKept
      <4>. QED BY <4>1, FreshSure
    <3>2. CASE ~spoilt /\ Work
      BY <3>2, WorkSure
    <3>3. CASE Trouble
      BY <2>1, <3>3, TroubleSure
    <3>4. CASE Kill
      BY <3>4, LeavingSure DEF Kill
    <3>. QED BY <1>2, <2>1, <3>1, <3>2, <3>3, <3>4 DEF Next, Overwrite, LinkKept
  <2>. QED BY <1>2, <2>1, StreamStep, RenameStep DEF KInv
<1>. QED BY <1>1, <1>2

-----------------------------------------------------------------------------
(* The theorems.                                                           *)

\* RInv, which says of every pc which files lie in the staging tree, holds of
\* every run of pulls, kills, faults, overwrites and links, for objects of any
\* size.
THEOREM ResumeInvariance == Spec => []RInv
<1>1. RInv /\ [Next]_vars => RInv'
  BY WorkStep, TroubleStep, KillStep, OverwriteStep, LinkKeptStep, NoStep DEF Next
<1>. QED BY InitStep, <1>1, PTL DEF Spec

\* Every variable keeps its type; a data file outgrows the entry by one byte
\* at most, and the sidecar holds nothing but an ETag.
THEOREM ResumeTypeCorrect == Spec => []ResumeTypeOK
  BY ResumeInvariance, PTL DEF RInv

\* What resume.go stages is the entry's content, byte for byte, whatever the
\* prefix was put together from.
THEOREM StagesRight == Spec => []StagedRight
  BY ResumeInvariance, PTL DEF RInv

\* The plain download of an object whose prefix files are stuck finds its
\* place free.
THEOREM WayClear == Spec => []NeverInItsOwnWay
  BY ResumeInvariance, PTL DEF RInv

\* A pull gives resuming up only where a file operation failed in it.
THEOREM StuckOnlyByFaults == Spec => []OnlyFaultsStick
  BY ResumeInvariance, PTL DEF RInv

\* No single failing operation on a prefix file fails a pull.
THEOREM FaultsAreCheap == Spec => []OneFaultIsCheap
  BY ResumeInvariance, PTL DEF RInv

\* Where a kept prefix is, and what is being read of its rest, at every step
\* of every attempt in which nothing went wrong.
THEOREM PrefixInvariance == Spec => [](RInv /\ KInv)
<1>1. Init => KInv
  BY DEF Init, KInv, StreamOK, SureOK, MovedOK, PrefixOK, RestOK, Downloading
<1>2. RInv /\ RInv' /\ KInv /\ [Next]_vars => KInv'
  BY KeepsStep
<1>. QED BY <1>1, <1>2, ResumeInvariance, PTL DEF Spec

\* No step of a pull gives up a byte of a prefix that the next pull could go on
\* from, however often pulls are cut off, killed or begun again, for objects of
\* any size (KeepsPrefix).
THEOREM PrefixKept == Spec => KeepsPrefix
<1>1. RInv /\ RInv' /\ KInv /\ [Next]_vars =>
         (~spoilt' /\ pc \notin {"install"} \cup Installed => Held' >= Held)
  BY KeepsStep DEF HeldOn
<1>. QED BY <1>1, PrefixInvariance, PTL DEF Spec, KeepsPrefix
=============================================================================
