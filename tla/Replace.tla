------------------------------ MODULE Replace -------------------------------
(***************************************************************************)
(* pull's replacement of a destination directory, one file system          *)
(* operation at a time: recovery of what an earlier pull left, staging of  *)
(* a manifest's files in the tmp sibling from links, copies, leftovers and *)
(* downloads, verification, the swap by two renames, and the keeping of a  *)
(* failed attempt's files in the partial sibling (pkg/pull: recover.go,    *)
(* pull.go, stage.go, swap.go, hash.go, directory.go).                     *)
(*                                                                         *)
(* One process at a time works on the directory.  It can be killed between *)
(* any two operations, and any of its renames, removals, links, creates    *)
(* and downloads can fail.  The staging workers run as one group: a copy   *)
(* or a download is a create and, later, the arrival of the bytes, so any  *)
(* number of them is under way at once.                                    *)
(***************************************************************************)
EXTENDS Siblings

CONSTANTS
    Manifests,      \* the manifests the bucket may hold when asked
    Calls,          \* the entry points used: "pull", "recover", "directory"
    Disks,          \* the disks to begin with, as [fs |-> ..., file |-> ...]
    Attempts,       \* replacement attempts of one pull (3 in the code)
    MaxFsFaults,    \* bound: file system operations that fail
    MaxNetFaults,   \* bound: downloads and callbacks that go wrong
    MaxKills,       \* bound: kills of the process
    MaxEdits        \* bound: writes by others to a file of dest

ASSUME BoundAssumption ==
    /\ Attempts \in Nat \ {0}
    /\ {MaxFsFaults, MaxNetFaults, MaxKills, MaxEdits} \subseteq Nat

ASSUME CallAssumption == Calls \subseteq {"pull", "recover", "directory"}

ASSUME ManifestAssumption ==
    /\ Nil \notin Manifests
    /\ \A m \in Manifests :
          /\ DOMAIN m = Path
          /\ \A p \in Path :
                m[p] # Nil => m[p] \in [data : Content, mode : Mode]

VARIABLES
    fs,         \* the four directories
    file,       \* what each inode holds
    pc,         \* where the process is; "idle" when there is none
    call,       \* the entry point it was started by
    attempt,    \* of PullWithManifest's loop; 0 while recovering
    err,        \* the first error so far: "none", "mismatch" or "other"
    result,     \* how the last call ended
    man,        \* the manifest of the attempt, then the one returned
    live,       \* hashTree(dest) of the attempt
    index,      \* byContent(hashTree(partial)): the leftover of each content
    todo,       \* entries not yet staged
    writing,    \* entries whose staged file is being written
    taken,      \* leftovers already linked into tmp (counters.leftovers)
    had,        \* history: downloaded contents this attempt got hold of
    fsFaults, netFaults, kills, edits       \* how often each has happened

disk == <<fs, file>>
job == <<live, index, todo, writing, taken>>
ctl == <<call, attempt, result>>
faults == <<fsFaults, netFaults, kills, edits>>
vars == <<disk, pc, ctl, err, man, job, had, faults>>

Ended == {"none", "ok", "recovered", "error", "killed"}

Labels == {"idle", "recover", "keep", "discard", "unshare", "dropPartial",
           "fetch", "local", "clear", "clearShared", "remote", "verify",
           "swap", "install", "rollback", "removeOld"}

NoFiles == [p \in Path |-> Nil]

NoLeftovers == [c \in Content |-> Nil]

\* The tree a reader of dest gets, or gets back from recovery.
Live == IF fs["dest"] # Absent THEN fs["dest"] ELSE fs["old"]

M == INSTANCE Mirror WITH
        mirror <- View(Live, file),
        status <- IF pc = "idle" THEN result
                  ELSE IF pc = "removeOld" THEN "replaced"
                  ELSE IF call = "recover" THEN "recovering" ELSE "pulling",
        reported <- IF pc = "removeOld" \/ (pc = "idle" /\ result = "ok")
                    THEN man ELSE Nil

\* A disk the program can find: a dest of separate files, perhaps a partial
\* tree, in which old releases kept second names of live files.
WellFormed(f, g) ==
    /\ f \in [Sibling -> Tree \cup {Absent}]
    /\ g \in [Inode -> File \cup {Nil}]
    /\ \A i \in Inode : g[i] # Nil <=> Named(f, i)
    /\ f["tmp"] = Absent /\ f["old"] = Absent
    /\ Distinct(f["dest"])
    /\ Windows => \A s \in Sibling, p \in Path :
          Holds(f, s, p) /\ g[f[s][p]].mode \in ReadOnly => Sole(f, s, p)

ASSUME DiskAssumption == \A d \in Disks : WellFormed(d.fs, d.file)

Init ==
    /\ \E d \in Disks : fs = d.fs /\ file = d.file
    /\ pc = "idle" /\ call = "none" /\ attempt = 0
    /\ err = "none" /\ result = "none" /\ man = Nil
    /\ live = NoFiles /\ index = NoLeftovers
    /\ todo = {} /\ writing = {} /\ taken = {} /\ had = {}
    /\ fsFaults = 0 /\ netFaults = 0 /\ kills = 0 /\ edits = 0

-----------------------------------------------------------------------------
(* Faults, errors and the end of a call.                                   *)

NoFault == UNCHANGED faults

FsFault ==
    /\ fsFaults < MaxFsFaults
    /\ fsFaults' = fsFaults + 1
    /\ UNCHANGED <<netFaults, kills, edits>>

NetFault ==
    /\ netFaults < MaxNetFaults
    /\ netFaults' = netFaults + 1
    /\ UNCHANGED <<fsFaults, kills, edits>>

\* errgroup: the first error cancels the context the other downloads use, and
\* they then fail for no reason of their own.
DownloadFault == IF err # "none" THEN NoFault ELSE NetFault

\* errgroup.Wait and errors.Join report the first error.
FirstErr(e) == IF err = "none" THEN e ELSE err

\* Leaving stage: its locals are gone.
ForgetJob ==
    /\ live' = NoFiles /\ index' = NoLeftovers
    /\ todo' = {} /\ writing' = {} /\ taken' = {}

End(r) ==
    /\ pc' = "idle"
    /\ result' = r
    /\ call' = "none" /\ attempt' = 0 /\ err' = "none"
    /\ man' = IF r = "ok" THEN man ELSE Nil

\* Mutant of AfterKeep: the loop goes on until an attempt succeeds.
AfterKeepForever(e) ==
    \/ attempt = 0 /\ pc' = "unshare" /\ err' = e /\ UNCHANGED <<ctl, man>>
    \/ /\ attempt > 0 /\ call = "pull"
       /\ pc' = "fetch" /\ attempt' = attempt + 1 /\ err' = "none" /\ man' = Nil
       /\ UNCHANGED <<call, result>>
    \/ attempt > 0 /\ call # "pull" /\ End("error")

\* keepStaged returned e to its caller: recoverInterrupted goes on with the
\* partial tree; replace returns, and only a staged mismatch that left no
\* staging tree behind is tried again.
AfterKeep(e) ==
    \/ /\ attempt = 0
       /\ pc' = "unshare" /\ err' = e
       /\ UNCHANGED <<ctl, man>>
    \/ /\ attempt > 0 /\ e = "mismatch" /\ call = "pull" /\ attempt < Attempts
       /\ pc' = "fetch" /\ attempt' = attempt + 1 /\ err' = "none"
       /\ man' = Nil
       /\ UNCHANGED <<call, result>>
    \/ /\ attempt > 0
       /\ ~(e = "mismatch" /\ call = "pull" /\ attempt < Attempts)
       /\ End("error")

\* recoverInterrupted returned e.
AfterRecovery(e) ==
    \/ e # "none" /\ End("error")
    \/ e = "none" /\ call = "recover" /\ End("recovered")
    \/ /\ e = "none" /\ call # "recover"
       /\ pc' = "fetch" /\ attempt' = 1
       /\ UNCHANGED <<call, result, err, man>>

-----------------------------------------------------------------------------
(* Removals.                                                               *)

\* os.Remove of one name.
Unlink(s, p) ==
    /\ fs' = Unname(fs, s, p)
    /\ \E g \in AfterRemoving(fs[s][p], file) : file' = Reap(fs', g)

\* os.RemoveAll, a name at a time and the directory last.  It can be killed
\* between two names, and what it cannot remove is left behind.
RemoveSome(s) == \E p \in Path : Holds(fs, s, p) /\ Unlink(s, p)

RemoveRoot(s) ==
    /\ fs[s] = EmptyTree
    /\ fs' = [fs EXCEPT ![s] = Absent]
    /\ UNCHANGED file

\* dropShared walks a tree in lexical order and removes each second name.
NextShared(s) == CHOOSE p \in Shared(fs, s) : \A q \in Shared(fs, s) : p <= q

DropShared(s) == Shared(fs, s) # {} /\ Unlink(s, NextShared(s))
-----------------------------------------------------------------------------
(* A call starts: Pull, Recover or ReplaceFromDirectory.                   *)

Start(c) ==
    /\ pc = "idle"
    /\ pc' = "recover" /\ call' = c /\ result' = "none" /\ man' = Nil
    /\ UNCHANGED <<disk, attempt, err, job, had, faults>>

(* recoverInterrupted: what to do with an old tree.                        *)

NothingOld ==
    /\ pc = "recover" /\ fs["old"] = Absent
    /\ pc' = "keep"
    /\ UNCHANGED <<disk, ctl, err, man, job, had, faults>>

RestoreOld ==
    /\ pc = "recover" /\ fs["old"] # Absent /\ fs["dest"] = Absent
    /\ \/ fs' = Move(fs, "old", "dest") /\ UNCHANGED err /\ NoFault
       \/ UNCHANGED fs /\ err' = "other" /\ FsFault
    /\ pc' = "keep"
    /\ UNCHANGED <<file, ctl, man, job, had>>

\* Mutants of RemoveStaleOld: an old tree is stale whether or not there is a
\* dest; an old tree in the way is an error.
RemoveAnyOld ==
    /\ pc = "recover" /\ fs["old"] # Absent
    /\ \/ RemoveSome("old") /\ UNCHANGED <<pc, err>> /\ NoFault
       \/ RemoveRoot("old") /\ pc' = "keep" /\ UNCHANGED err /\ NoFault
       \/ UNCHANGED disk /\ pc' = "keep" /\ err' = "other" /\ FsFault
    /\ UNCHANGED <<ctl, man, job, had>>

RefuseStaleOld ==
    /\ pc = "recover" /\ fs["old"] # Absent /\ fs["dest"] # Absent
    /\ UNCHANGED disk /\ pc' = "keep" /\ err' = "other" /\ NoFault
    /\ UNCHANGED <<ctl, man, job, had>>

RemoveStaleOld ==
    /\ pc = "recover" /\ fs["old"] # Absent /\ fs["dest"] # Absent
    /\ \/ RemoveSome("old") /\ UNCHANGED <<pc, err>> /\ NoFault
       \/ RemoveRoot("old") /\ pc' = "keep" /\ UNCHANGED err /\ NoFault
       \/ UNCHANGED disk /\ pc' = "keep" /\ err' = "other" /\ FsFault
    /\ UNCHANGED <<ctl, man, job, had>>

-----------------------------------------------------------------------------
(* keepStaged: tmp becomes the partial tree, or goes.                      *)

NothingStaged ==
    /\ pc = "keep" /\ fs["tmp"] = Absent
    /\ AfterKeep(err)
    /\ UNCHANGED <<disk, job, had, faults>>

DropStagedShared ==
    /\ pc = "keep" /\ fs["tmp"] # Absent
    /\ \/ DropShared("tmp") /\ UNCHANGED pc /\ NoFault
       \/ UNCHANGED disk /\ pc' = "discard" /\ FsFault
    /\ UNCHANGED <<ctl, err, man, job, had>>

Keep ==
    /\ pc = "keep" /\ fs["tmp"] # Absent /\ Shared(fs, "tmp") = {}
    /\ fs["partial"] = Absent
    /\ fs' = Move(fs, "tmp", "partial")
    /\ AfterKeep(err)
    /\ UNCHANGED <<file, job, had, faults>>

\* Saving the resume directory of a tmp that cannot be renamed creates a
\* partial tree that holds nothing else.
KeepFails ==
    /\ pc = "keep" /\ fs["tmp"] # Absent /\ Shared(fs, "tmp") = {}
    /\ fs["partial"] = Absent
    /\ fs' \in {fs, [fs EXCEPT !["partial"] = EmptyTree]}
    /\ pc' = "discard"
    /\ FsFault
    /\ UNCHANGED <<file, ctl, err, man, job, had>>

\* Mutants of KeepRefused: a tmp is discarded even with nothing in its way; or
\* left where it is.
KeepNever ==
    /\ pc = "keep" /\ fs["tmp"] # Absent /\ Shared(fs, "tmp") = {}
    /\ pc' = "discard"
    /\ UNCHANGED <<disk, ctl, err, man, job, had, faults>>

KeepLeaves ==
    /\ pc = "keep" /\ fs["tmp"] # Absent /\ Shared(fs, "tmp") = {}
    /\ fs["partial"] # Absent
    /\ AfterKeep(err)
    /\ UNCHANGED <<disk, job, had, faults>>

\* A partial tree is in the way.
KeepRefused ==
    /\ pc = "keep" /\ fs["tmp"] # Absent /\ Shared(fs, "tmp") = {}
    /\ fs["partial"] # Absent
    /\ pc' = "discard"
    /\ UNCHANGED <<disk, ctl, err, man, job, had, faults>>

DiscardStaged ==
    /\ pc = "discard"
    /\ \/ RemoveSome("tmp") /\ UNCHANGED <<pc, ctl, err, man>>
       \/ RemoveRoot("tmp") /\ AfterKeep(err)
    /\ UNCHANGED <<job, had, faults>>

\* With tmp still there recovery goes on, and a pull gives up without a retry.
DiscardFails ==
    /\ pc = "discard"
    /\ FsFault
    /\ IF attempt = 0 THEN AfterKeep("other") ELSE End("error")
    /\ UNCHANGED <<disk, job, had>>

-----------------------------------------------------------------------------
(* unsharePartial: no kept file is a live file under a second name.        *)

Unshare ==
    /\ pc = "unshare" /\ fs["partial"] # Absent
    /\ \/ DropShared("partial") /\ UNCHANGED pc /\ NoFault
       \/ UNCHANGED disk /\ pc' = "dropPartial" /\ FsFault
    /\ UNCHANGED <<ctl, err, man, job, had>>

\* Mutant of Unshared: the links of the kept files are not looked at.
UnsharedUnseen ==
    /\ pc = "unshare"
    /\ AfterRecovery(err)
    /\ UNCHANGED <<disk, job, had, faults>>

Unshared ==
    /\ pc = "unshare"
    /\ fs["partial"] = Absent \/ Shared(fs, "partial") = {}
    /\ AfterRecovery(err)
    /\ UNCHANGED <<disk, job, had, faults>>

DropPartial ==
    /\ pc = "dropPartial"
    /\ \/ RemoveSome("partial") /\ UNCHANGED <<pc, ctl, err, man>> /\ NoFault
       \/ RemoveRoot("partial") /\ AfterRecovery(err) /\ NoFault
       \/ UNCHANGED disk /\ AfterRecovery("other") /\ FsFault
    /\ UNCHANGED <<job, had>>
-----------------------------------------------------------------------------
(* replace and stage: classification of the manifest's entries.            *)

\* Mutant of ReadOnlyOnWindows: read-only files are linked there as elsewhere.
ReadOnlyAnywhere(mode) == mode \notin Mode

ReadOnlyOnWindows(mode) == Windows /\ mode \in ReadOnly

\* classify: what becomes of the entry f at p, from the hashes l of dest and the
\* leftovers x.  DryRun asks it too.
Decision(l, x, f, p) ==
    IF l[p] = Nil \/ l[p].data # f.data
    THEN IF x[f.data] # Nil THEN "reuse" ELSE "download"
    ELSE IF ~Windows /\ l[p].mode # f.mode THEN "copy" ELSE "link"

Leftover(p) == index[man[p].data]

Classify(p) == Decision(live, index, man[p], p)

\* job.inLive: a live file has the leftover's content.
InLive(c) == \E p \in Path : live[p] # Nil /\ live[p].data = c

Source(p) == IF Classify(p) = "reuse" THEN fs["partial"][Leftover(p)]
                                      ELSE fs["dest"][p]

\* Mutant of CopyOnly: counters.leftovers is not asked.
CopyOnlyUntaken(p) ==
    CASE Classify(p) = "copy" -> TRUE
      [] Classify(p) = "link" -> ReadOnlyOnWindows(live[p].mode)
      [] OTHER -> LET mode == file[Source(p)].mode IN
                  \/ InLive(man[p].data)
                  \/ ~Windows /\ mode # man[p].mode
                  \/ ReadOnlyOnWindows(mode)

CopyOnly(p) ==
    CASE Classify(p) = "copy" -> TRUE
      [] Classify(p) = "link" -> ReadOnlyOnWindows(live[p].mode)
      [] OTHER -> LET mode == file[Source(p)].mode IN
                  \/ Leftover(p) \in taken
                  \/ InLive(man[p].data)
                  \/ ~Windows /\ mode # man[p].mode
                  \/ ReadOnlyOnWindows(mode)

\* leftovers.LoadOrStore, before the link is tried.
Take(p) == taken' = IF Classify(p) = "reuse" THEN taken \cup {Leftover(p)}
                                             ELSE taken

Local(p) == Classify(p) # "download"

\* hashTree(dest): a dest that is missing has no files.
LiveFiles == IF fs["dest"] = Absent THEN NoFiles ELSE View(fs["dest"], file)

\* byContent: of the leftovers with one content the lexically first.
LeftoverIndex ==
    LET Of(c) == {p \in Path : Holds(fs, "partial", p)
                                 /\ file[fs["partial"][p]].data = c}
    IN  [c \in Content |->
            IF Of(c) = {} THEN Nil
            ELSE CHOOSE p \in Of(c) : \A q \in Of(c) : p <= q]

\* syncOnce up to the first staged entry: the manifest, the hashes of both
\* trees, and the mkdir of tmp, which refuses a tmp that is already there.
\* A partial tree that cannot be read is treated as empty.
BeginStage(m) ==
    /\ pc = "fetch" /\ fs["tmp"] = Absent
    /\ man' = m
    /\ live' = LiveFiles
    /\ \/ index' = LeftoverIndex /\ NoFault
       \/ fs["partial"] # Absent /\ index' = NoLeftovers /\ FsFault
    /\ todo' = {p \in Path : m[p] # Nil}
    /\ writing' = {} /\ taken' = {}
    /\ had' = {m[p].data : p \in {q \in Path :
                    m[q] # Nil /\ index'[m[q].data] # Nil
                    /\ \A r \in Path : live'[r] # Nil => live'[r].data # m[q].data}}
    /\ fs' = [fs EXCEPT !["tmp"] = EmptyTree]
    /\ pc' = "local"
    /\ UNCHANGED <<file, ctl, err>>

\* The manifest cannot be fetched or is not valid, its content is too large,
\* dest cannot be hashed: nothing was staged and keepStaged is not called.
BeginFails ==
    /\ pc = "fetch"
    /\ NetFault
    /\ End("error")
    /\ UNCHANGED <<disk, job, had>>

-----------------------------------------------------------------------------
(* stageEntry: the workers of stageAll, first the local entries, then, when *)
(* the partial tree is gone, the downloads.                                *)

Ready(p) == p \in todo /\ pc = (IF Local(p) THEN "local" ELSE "remote")

StageLink(p) ==
    /\ Ready(p) /\ Local(p) /\ ~CopyOnly(p)
    /\ fs' = Name(fs, "tmp", p, Source(p))
    /\ todo' = todo \ {p} /\ Take(p)
    /\ UNCHANGED <<file, pc, ctl, err, man, live, index, writing, had, faults>>

\* writeVerified creates the file: for a copy, for a link that failed, for a
\* download.
StageOpen(p) ==
    /\ Ready(p)
    /\ fs["tmp"][p] = Nil
    /\ IF Local(p) /\ ~CopyOnly(p) THEN FsFault ELSE NoFault
    /\ \E i \in FreeInodes(file) :
          /\ fs' = Name(fs, "tmp", p, i)
          /\ file' = [file EXCEPT ![i] = [data |-> Torn, mode |-> man[p].mode]]
    /\ todo' = todo \ {p} /\ writing' = writing \cup {p} /\ Take(p)
    /\ UNCHANGED <<pc, ctl, err, man, live, index, had>>

Received(p, d) ==
    /\ file' = [file EXCEPT ![fs["tmp"][p]].data = d]
    /\ writing' = writing \ {p}
    /\ err' = IF d = man[p].data THEN err ELSE FirstErr("mismatch")
    /\ UNCHANGED <<fs, pc, ctl, man, live, index, todo, taken>>

\* The bytes of a copy are those its source has by now.
StageCopied(p) ==
    /\ p \in writing /\ Local(p)
    /\ Received(p, file[Source(p)].data)
    /\ UNCHANGED <<had, faults>>

StageDownloaded(p) ==
    /\ p \in writing /\ ~Local(p)
    /\ Received(p, man[p].data)
    /\ had' = had \cup {man[p].data}
    /\ NoFault

\* The object was overwritten, or ends early or late.
StageMismatch(p, d) ==
    /\ p \in writing /\ ~Local(p)
    /\ d # man[p].data
    /\ Received(p, d)
    /\ NetFault
    /\ UNCHANGED had

\* The bytes stop: the file stays as far as it was written.
StageCut(p) ==
    /\ p \in writing
    /\ IF Local(p) THEN FsFault ELSE DownloadFault
    /\ writing' = writing \ {p}
    /\ err' = FirstErr("other")
    /\ UNCHANGED <<disk, pc, ctl, man, live, index, todo, taken, had>>

\* No file comes to be at p: the GET fails, a resumable download leaves only
\* its prefix, the source or the staged file cannot be opened.
StageFails(p) ==
    /\ Ready(p)
    /\ IF Local(p) THEN FsFault ELSE DownloadFault
    /\ todo' = todo \ {p} /\ Take(p)
    /\ err' = FirstErr("other")
    /\ UNCHANGED <<disk, pc, ctl, man, live, index, writing, had>>

LocalDone ==
    /\ pc = "local" /\ writing = {}
    /\ \A p \in todo : ~Local(p)
    /\ \/ err = "none" /\ pc' = "clear" /\ UNCHANGED job
       \/ err # "none" /\ pc' = "keep" /\ ForgetJob
    /\ UNCHANGED <<disk, ctl, err, man, had, faults>>

\* stage removes the partial tree, all of whose use has been made.
Clear ==
    /\ pc = "clear"
    /\ \/ fs["partial"] = Absent /\ UNCHANGED disk /\ pc' = "remote" /\ NoFault
       \/ fs["partial"] # Absent /\ RemoveSome("partial") /\ UNCHANGED pc /\ NoFault
       \/ RemoveRoot("partial") /\ pc' = "remote" /\ NoFault
       \/ fs["partial"] # Absent /\ UNCHANGED disk /\ pc' = "clearShared" /\ FsFault
    /\ UNCHANGED <<ctl, err, man, job, had>>

\* What cannot be removed must at least not be a file of tmp.
ClearShared ==
    /\ pc = "clearShared"
    /\ \/ DropShared("partial") /\ UNCHANGED <<pc, err, job>> /\ NoFault
       \/ /\ Shared(fs, "partial") = {}
          /\ UNCHANGED <<disk, err, job>> /\ pc' = "remote" /\ NoFault
       \/ UNCHANGED disk /\ pc' = "keep" /\ err' = "other" /\ ForgetJob /\ FsFault
    /\ UNCHANGED <<ctl, man, had>>

RemoteDone ==
    /\ pc = "remote" /\ todo = {} /\ writing = {}
    /\ pc' = IF err = "none" THEN "verify" ELSE "keep"
    /\ ForgetJob
    /\ UNCHANGED <<disk, ctl, err, man, had, faults>>

\* clearResumeDir: a prefix that cannot be removed is moved aside, which
\* creates a partial tree, or fails the pull.
ResumeDirStuck ==
    /\ pc = "remote" /\ todo = {} /\ writing = {} /\ err = "none"
    /\ call = "pull"
    /\ FsFault
    /\ fs' \in {fs, [fs EXCEPT !["partial"] =
                        IF fs["partial"] = Absent THEN EmptyTree ELSE fs["partial"]]}
    /\ \/ pc' = "verify" /\ UNCHANGED err
       \/ pc' = "keep" /\ err' = "other"
    /\ ForgetJob
    /\ UNCHANGED <<file, ctl, man, had>>

-----------------------------------------------------------------------------
(* VerifyTree and BeforeReplace, then swap.                                *)

\* Mutant of Verified: the staged tree is taken to be what was staged.
VerifiedBlindly ==
    /\ pc = "verify"
    /\ pc' = "swap"
    /\ UNCHANGED <<disk, ctl, err, man, job, had, faults>>

Verified ==
    /\ pc = "verify"
    /\ M!Matches(View(fs["tmp"], file), man)
    /\ pc' = "swap"
    /\ UNCHANGED <<disk, ctl, err, man, job, had, faults>>

Refused ==
    /\ pc = "verify"
    /\ \/ ~M!Matches(View(fs["tmp"], file), man) /\ NoFault
       \/ NetFault      \* a read failed, the caller's BeforeReplace objects
    /\ pc' = "keep" /\ err' = "other"
    /\ UNCHANGED <<disk, ctl, man, job, had>>

\* renameRetry succeeds, or its last attempt fails, as every one does when an
\* old tree is in the way.
SetAside ==
    /\ pc = "swap" /\ fs["dest"] # Absent
    /\ \/ /\ fs["old"] = Absent
          /\ fs' = Move(fs, "dest", "old") /\ pc' = "install"
          /\ UNCHANGED err /\ NoFault
       \/ /\ UNCHANGED fs /\ pc' = "keep" /\ err' = "other"
          /\ IF fs["old"] = Absent THEN FsFault ELSE NoFault
    /\ UNCHANGED <<file, ctl, man, job, had>>

AtInstall == pc = "install" \/ (pc = "swap" /\ fs["dest"] = Absent)

Install ==
    /\ AtInstall
    /\ fs' = Move(fs, "tmp", "dest")
    /\ pc' = "removeOld"
    /\ UNCHANGED <<file, ctl, err, man, job, had, faults>>

\* Mutant of InstallFails: no rollback.
InstallFailsUndone ==
    /\ AtInstall
    /\ FsFault
    /\ pc' = "keep"
    /\ err' = "other"
    /\ UNCHANGED <<disk, ctl, man, job, had>>

InstallFails ==
    /\ AtInstall
    /\ FsFault
    /\ pc' = IF pc = "install" THEN "rollback" ELSE "keep"
    /\ err' = "other"
    /\ UNCHANGED <<disk, ctl, man, job, had>>

Rollback ==
    /\ pc = "rollback"
    /\ \/ fs' = Move(fs, "old", "dest") /\ NoFault
       \/ UNCHANGED fs /\ FsFault
    /\ pc' = "keep"
    /\ UNCHANGED <<file, ctl, err, man, job, had>>

\* The swap has succeeded whether or not the old tree can be removed.
RemoveOld ==
    /\ pc = "removeOld"
    /\ \/ fs["old"] = Absent /\ UNCHANGED disk /\ End("ok") /\ NoFault
       \/ /\ fs["old"] # Absent
          /\ RemoveSome("old") /\ UNCHANGED <<pc, ctl, err, man>> /\ NoFault
       \/ RemoveRoot("old") /\ End("ok") /\ NoFault
       \/ fs["old"] # Absent /\ UNCHANGED disk /\ End("ok") /\ FsFault
    /\ had' = IF pc' = "idle" THEN {} ELSE had
    /\ UNCHANGED job

-----------------------------------------------------------------------------
(* The rest of the world.                                                  *)

Kill ==
    /\ pc # "idle" /\ kills < MaxKills
    /\ kills' = kills + 1
    /\ End("killed") /\ ForgetJob
    /\ UNCHANGED <<disk, had, fsFaults, netFaults, edits>>

\* Another program writes into a file of dest while the tree is staged; what
\* it wrote before is in the hashes, and from the verification to the swap
\* the caller must keep others away.
OutsideWrite(p, d) ==
    /\ pc \in {"local", "clear", "clearShared", "remote", "verify"}
    /\ edits < MaxEdits
    /\ Holds(fs, "dest", p)
    /\ d # file[fs["dest"][p]].data
    /\ edits' = edits + 1
    /\ file' = [file EXCEPT ![fs["dest"][p]].data = d]
    /\ UNCHANGED <<fs, pc, ctl, err, man, job, had, fsFaults, netFaults, kills>>

Recover == NothingOld \/ RestoreOld \/ RemoveStaleOld

KeepStaged ==
    \/ NothingStaged \/ DropStagedShared \/ Keep \/ KeepFails \/ KeepRefused
    \/ DiscardStaged \/ DiscardFails

UnsharePartial == Unshare \/ Unshared \/ DropPartial

Stage ==
    \/ \E m \in Manifests : BeginStage(m)
    \/ BeginFails
    \/ \E p \in Path :
          \/ StageLink(p) \/ StageOpen(p) \/ StageCopied(p) \/ StageDownloaded(p)
          \/ \E d \in Data : StageMismatch(p, d)
          \/ StageCut(p) \/ StageFails(p)
    \/ LocalDone \/ Clear \/ ClearShared \/ RemoteDone \/ ResumeDirStuck

Swap ==
    Verified \/ Refused \/ SetAside \/ Install \/ InstallFails \/ Rollback \/ RemoveOld

Step == Recover \/ KeepStaged \/ UnsharePartial \/ Stage \/ Swap

Next ==
    \/ \E c \in Calls : Start(c)
    \/ Step
    \/ Kill
    \/ \E p \in Path, d \in Data : OutsideWrite(p, d)

Spec == Init /\ [][Next]_vars

\* cron or launchd starts a pull again and again, and a process that is not
\* killed goes on.
Fairness == WF_vars(Step) /\ SF_vars(Start("pull"))

FairSpec == Spec /\ Fairness

-----------------------------------------------------------------------------
\* Every variable stays within its type.
TypeOK ==
    /\ fs \in [Sibling -> Tree \cup {Absent}]
    /\ file \in [Inode -> File \cup {Nil}]
    /\ pc \in Labels
    /\ call \in Calls \cup {"none"}
    /\ attempt \in 0..Attempts
    /\ err \in {"none", "mismatch", "other"}
    /\ result \in Ended
    /\ man \in Manifests \cup {Nil}
    /\ live \in [Path -> File \cup {Nil}]
    /\ index \in [Content -> Path \cup {Nil}]
    /\ todo \in SUBSET Path /\ writing \in SUBSET Path /\ taken \in SUBSET Path
    /\ had \in SUBSET Content
    /\ fsFaults \in 0..MaxFsFaults /\ netFaults \in 0..MaxNetFaults
    /\ kills \in 0..MaxKills /\ edits \in 0..MaxEdits

\* The destination moves from one whole tree to another, and only then does a
\* call succeed: see Mirror.
Implements == M!Spec
\* "No two paths in dest share a file: a caller may reject a file with a second
\* link" (stageEntry): leftovers with one content and two entries that want it,
\* or a leftover that is also a live file, never end up as one inode.
SeparateFiles == Distinct(fs["dest"])

\* When a call has succeeded no live file has a second name in a tree that is
\* kept beside it, whatever earlier calls left there (unsharePartial).
NoSecondNames ==
    pc = "idle" /\ result \in {"ok", "recovered"} =>
        \A s \in {"tmp", "partial"} :
            Inodes(fs["dest"]) \cap Inodes(fs[s]) = {}

\* "Afterwards only the partial tree may remain beside it" (Recover): and the
\* destination itself is in place again.
RecoveryCleans ==
    pc = "idle" /\ result = "recovered" =>
        fs["tmp"] = Absent /\ fs["old"] = Absent

\* swap's rollback: one failed operation, with no kill, never leaves a caller
\* without the directory.
RollsBack ==
    pc = "idle" /\ kills = 0 /\ fsFaults < 2 =>
        fs["dest"] # Absent \/ fs["old"] = Absent

\* A failed attempt keeps every content it downloaded or took over from earlier
\* attempts for the next one, as long as the file system does what it is asked
\* (stage: "a failure can keep s.tmp in its place without losing anything") and
\* nothing is killed (TmpIsExpendable says what a kill costs).
Contents(tree) == {file[i].data : i \in Inodes(tree)}

CleanedUp == pc \in {"unshare", "dropPartial"} \/
             (pc \in {"keep", "discard"} /\ attempt > 0)

KeepsDownloads ==
    [][CleanedUp /\ pc' \in {"idle", "fetch"} /\ fsFaults' = 0 /\ kills' = 0
        => had \subseteq Contents(fs["partial"])' \cup Contents(Live)']_vars

\* What the comment on keepStaged says of a tmp it deletes beside a partial
\* tree: "staging either never got past reusing it or could not remove it; tmp
\* is deleted instead, costing at most the downloads since" -- where nothing
\* failed to be removed, the partial tree still has what the attempt reused.
TmpIsExpendable ==
    pc = "discard" /\ fsFaults = 0 =>
        had \subseteq Contents(fs["partial"]) \cup Contents(Live)

\* No leftover wedges pull: once nothing fails any more a pull succeeds, and so
\* does every later one (Recover's promise that the next pull recovers).
Converges == []<>(pc = "idle" /\ result = "ok")
=============================================================================
