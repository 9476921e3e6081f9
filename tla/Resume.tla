------------------------------- MODULE Resume -------------------------------
(***************************************************************************)
(* Resumable downloads (pkg/pull/resume.go): one large object, fetched     *)
(* through the prefix files of the resume directory by pull after pull.    *)
(* A cut-off download leaves a data file and a sidecar with the object's   *)
(* ETag; the trees they lie in are renamed, emptied and merged by          *)
(* keepStaged, adoptPrefixes and clearResumeDir; the next pull continues   *)
(* the data with a ranged GET conditional on the ETag.                     *)
(*                                                                         *)
(* One manifest entry, of at least minResumeSize and the first with its    *)
(* content, that neither the live nor the partial tree has.  A tag stands  *)
(* for ETag and VersionId.  A whole file kept for reuse is Replace's.      *)
(***************************************************************************)
EXTENDS Integers, Sequences

CONSTANTS
    Byte,
    Tag,
    Nil,        \* no such file, no ETag, no response
    Want,       \* the entry's content
    Objects,    \* what the key may hold
    MaxTroubles \* faults, kills, overwrites, links and ignored ranges, in all

VARIABLES
    files,      \* of each tree: its prefix files, and "dst", the staged path
    trees,      \* the trees that exist
    object,     \* what the key holds
    pc,         \* where the pull is; "idle": none runs
    stream,     \* the response being read: what is left of it, and its tag
    todo,       \* the names a loop has still to handle
    why,        \* why the attempt failed, or ""
    hurt,       \* history: file operations that failed in this attempt
    spoilt,     \* history: something in this attempt may cost a prefix
    spent       \* how many troubles came

memory  == <<pc, stream, todo, why>>
history == <<hurt, spoilt, spent>>
vars    == <<files, trees, object, memory, history>>

Size == Len(Want)

ASSUME WantAssumption == Want \in Seq(Byte) /\ Size > 0
ASSUME ObjectsAssumption == Objects \subseteq [body : Seq(Byte), tag : Tag \cup {Nil}]
ASSUME MaxTroublesAssumption == MaxTroubles \in Nat
ASSUME NilAssumption ==
    Nil \notin Tag \cup [bytes : Seq(Byte), sole : BOOLEAN] \cup [body : Seq(Byte), tag : Tag \cup {Nil}]
ASSUME TagAssumption == \A e \in Tag : e \notin [bytes : Seq(Byte), sole : BOOLEAN]

Tree == {"tmp", "partial"}
Kept == {"data", "prev", "info", "draft"}       \* prefixFilesIn
Name == Kept \cup {"dst"}
Bare == [n \in Name |-> Nil]

\* The orders in which the code goes through the names.
Adopted   == <<"data", "prev", "info">>
Discarded == <<"data", "prev", "info", "draft">>
Listed    == <<"data", "info", "draft", "prev">>

Labels ==
    { "idle", "keep", "rename", "stash", "rmtmp", "again", "unshare", "rmshared",
      "local", "adopt", "clear", "drop", "mkdir", "load", "range",
      "extend", "create", "copy", "extending", "discard", "known bad",
      "get", "sidecar", "publish", "createnew", "fetching",
      "plain", "open", "writing", "install", "dropinfo", "chmod",
      "installed", "cleardir", "aside", "cleardir again", "staged" }

Init ==
    /\ files = [t \in Tree |-> Bare]
    /\ trees = {}
    /\ object \in Objects
    /\ pc = "idle" /\ stream = Nil /\ todo = <<>> /\ why = ""
    /\ hurt = 0 /\ spoilt = FALSE
    /\ spent = 0

-----------------------------------------------------------------------------
(* What the steps are made of.                                             *)

Goto(l) == pc' = l /\ UNCHANGED <<stream, todo, why>>

\* A loop over the names of s.
Loop(l, s) == pc' = l /\ todo' = s /\ UNCHANGED <<stream, why>>

\* A response to read.
Respond(l, r) == pc' = l /\ stream' = r /\ UNCHANGED <<todo, why>>

\* The attempt fails; replace goes on to keep what it staged.
Fail(w) == pc' = "keep" /\ why' = w /\ stream' = Nil /\ todo' = <<>>

\* Mutant of Stuck: a prefix file that cannot be used fails the pull.
StuckFails == Fail("fs")

\* errPrefixStuck: the object is downloaded whole, straight to dst.
Stuck == pc' = "plain" /\ stream' = Nil /\ todo' = <<>> /\ UNCHANGED why

Put(t, n, x) == files' = [files EXCEPT ![t][n] = x] /\ UNCHANGED trees

Rename(t, n, u, m) ==
    files' = [[files EXCEPT ![t][n] = Nil] EXCEPT ![u][m] = files[t][n]]

IsFile(x) == x # Nil /\ x \notin Tag
Shared(t) == {n \in Name : IsFile(files[t][n]) /\ ~files[t][n].sole}

\* dropShared.
DropShared(t) ==
    files' = [files EXCEPT ![t] = [n \in Name |-> IF n \in Shared(t) THEN Nil ELSE @[n]]]

Fine == UNCHANGED history
Stay == Fine /\ UNCHANGED <<files, trees>>

Spend == spent < MaxTroubles /\ spent' = spent + 1

\* A file operation fails.
Breaks ==
    /\ Spend
    /\ hurt' = hurt + 1 /\ spoilt' = TRUE
    /\ UNCHANGED <<files, trees>>

\* os.RemoveAll, a name at a time: of a tree, or of the resume directory.
Removing == {"rmtmp", "rmshared", "clear", "cleardir", "cleardir again"}
Root     == IF pc \in {"rmshared", "clear"} THEN "partial" ELSE "tmp"
Doomed   == IF pc \in {"cleardir", "cleardir again"} THEN Kept ELSE Name

RemoveAll ==
    /\ pc \in Removing
    /\ \E n \in Doomed : files[Root][n] # Nil /\ Put(Root, n, Nil)
    /\ UNCHANGED memory /\ Fine

Removed(l) == pc = l /\ UNCHANGED files /\ \A n \in Doomed : files[Root][n] = Nil

-----------------------------------------------------------------------------
(* A pull begins, and an attempt ends: recoverInterrupted, keepStaged.     *)

Fresh == hurt' = 0 /\ spoilt' = FALSE /\ UNCHANGED spent

Begin ==
    /\ pc = "idle"
    /\ pc' = IF "tmp" \in trees THEN "keep" ELSE "unshare"
    /\ why' = "" /\ Fresh /\ UNCHANGED <<stream, todo, files, trees>>

\* keepStaged returns: to recovery, or to replace, whose caller syncs again
\* after a mismatch, a few times.
AfterKeep ==
    \/ why = "" /\ Goto("unshare")
    \/ why # "" /\ Goto("idle")
    \/ why \in {"mismatch", "others"} /\ Goto("again")

Keep ==
    /\ pc = "keep"
    /\ DropShared("tmp") /\ UNCHANGED trees
    /\ IF "partial" \in trees THEN Loop("stash", Listed) ELSE Goto("rename")
    /\ Fine

\* Mutant of KeepRename: the staging tree is deleted instead.
KeepNothing == pc = "rename" /\ Goto("rmtmp") /\ Stay

\* What lies at the staged path is an ordinary leftover from now on.
KeepRename ==
    /\ pc = "rename"
    /\ files' = [files EXCEPT !["tmp"] = Bare, !["partial"] = [files["tmp"] EXCEPT !["dst"] = Nil]]
    /\ trees' = {"partial"}
    /\ AfterKeep /\ Fine

\* stashPrefixes: in keepStaged, and ("aside") in clearResumeDir.
Stashes(n) == files["tmp"][n] # Nil /\ files["partial"][n] = Nil

\* Its MkdirAll makes a partial tree for what there is to move.
MkdirStash ==
    /\ pc \in {"stash", "aside"} /\ todo # <<>>
    /\ Stashes(Head(todo)) /\ "partial" \notin trees
    /\ trees' = trees \cup {"partial"}
    /\ UNCHANGED <<files, memory>> /\ Fine

Stash ==
    /\ pc \in {"stash", "aside"} /\ todo # <<>>
    /\ \/ /\ Stashes(Head(todo)) /\ "partial" \in trees
          /\ Rename("tmp", Head(todo), "partial", Head(todo))
       \/ ~Stashes(Head(todo)) /\ UNCHANGED files
    /\ Loop(pc, Tail(todo)) /\ Fine /\ UNCHANGED trees

\* A file is left where it is; without a directory to move them to, all are.
StashFails ==
    /\ todo # <<>> /\ Stashes(Head(todo))
    /\ Loop(pc, <<>>) \/ ("partial" \in trees /\ Loop(pc, Tail(todo)))

Stashed ==
    /\ pc \in {"stash", "aside"} /\ todo = <<>>
    /\ Goto(IF pc = "stash" THEN "rmtmp" ELSE "cleardir again") /\ Stay

TmpRemoved == Removed("rmtmp") /\ trees' = trees \ {"tmp"} /\ AfterKeep /\ Fine

\* With tmp still there recovery goes on, to fail in the end.
KeepFails ==
    /\ \/ pc = "keep" /\ Goto("rmtmp")
       \/ pc = "rename" /\ Loop("stash", Listed)
       \/ pc = "stash" /\ StashFails
       \/ pc = "rmtmp" /\ why # "" /\ Goto("idle")
       \/ /\ pc = "rmtmp" /\ why = ""
          /\ pc' = "unshare" /\ why' = "tmp" /\ UNCHANGED <<stream, todo>>
    /\ Breaks

-----------------------------------------------------------------------------
(* unsharePartial; stage: adoptPrefixes, and the partial tree is removed.  *)

Stage(kept) ==
    /\ trees' = kept \cup {"tmp"}
    /\ pc' = "local" /\ why' = "" /\ UNCHANGED <<stream, todo>>

\* recoverInterrupted returns: without an error the first attempt begins.
Recovered(kept) ==
    \/ why = "" /\ Stage(kept)
    \/ why # "" /\ trees' = kept /\ Goto("idle")

Unshare == pc = "unshare" /\ DropShared("partial") /\ Recovered(trees) /\ Fine

SharedRemoved == Removed("rmshared") /\ Recovered(trees \ {"partial"}) /\ Fine

Resync == pc = "again" /\ Stage(trees) /\ Fresh /\ UNCHANGED files

LocalStaged == pc = "local" /\ Loop("adopt", Adopted) /\ Stay

Adopt ==
    /\ pc = "adopt" /\ todo # <<>>
    /\ IF files["partial"][Head(todo)] # Nil
       THEN Rename("partial", Head(todo), "tmp", Head(todo))
       ELSE UNCHANGED files
    /\ Loop("adopt", Tail(todo)) /\ Fine /\ UNCHANGED trees

Adopting == pc = "adopt" /\ todo = <<>> /\ Goto("clear") /\ Stay

Cleared == Removed("clear") /\ trees' = trees \ {"partial"} /\ Goto("mkdir") /\ Fine

ClearShared ==
    /\ pc = "drop"
    /\ DropShared("partial") /\ UNCHANGED trees
    /\ Goto("mkdir") /\ Fine

StageFails ==
    /\ \/ pc = "unshare" /\ "partial" \in trees /\ Goto("rmshared")
       \/ pc = "rmshared" /\ Goto("idle")
       \/ /\ pc = "adopt" /\ todo # <<>> /\ files["partial"][Head(todo)] # Nil
          /\ Loop(pc, Tail(todo))
       \/ pc = "clear" /\ Goto("drop")
       \/ pc = "drop" /\ Fail("fs")
    /\ Breaks

-----------------------------------------------------------------------------
(* resumeOrFetch, continuePrefix: a GET for what follows the kept prefix,  *)
(* if the ETag still is the sidecar's.                                     *)

Tmp(n) == files["tmp"][n]
Data   == Tmp("data").bytes
Prev   == Tmp("prev").bytes

MkdirAll == pc = "mkdir" /\ Goto("load") /\ Stay

\* Mutant of LoadPrev: data is taken although prev is there.
LoadData ==
    /\ pc = "load" /\ Tmp("prev") # Nil
    /\ Put("tmp", "prev", Nil) /\ Goto("load") /\ Fine

\* A pull was killed while it copied forward.
LoadPrev ==
    /\ pc = "load" /\ Tmp("prev") # Nil
    /\ Rename("tmp", "prev", "tmp", "data") /\ UNCHANGED trees
    /\ Goto("load") /\ Fine

\* inspect.
Usable == Tmp("info") # Nil /\ Tmp("data") # Nil /\ Len(Data) \in 1 .. Size

\* A prefix of the whole size is only checked: "nothing left to GET".
Load ==
    /\ pc = "load" /\ Tmp("prev") = Nil
    /\ \/ Usable /\ Len(Data) < Size /\ Goto("range")
       \/ Usable /\ Len(Data) = Size /\ Respond("extend", [body |-> <<>>, tag |-> Tmp("info")])
       \/ ~Usable /\ Loop("discard", Discarded)
    /\ Stay

Continues == object.tag = Tmp("info") /\ Len(object.body) = Size

Continue ==
    /\ pc = "range" /\ Continues
    /\ Respond("extend", [object EXCEPT !.body = SubSeq(@, Len(Data) + 1, Size)])
    /\ Stay

\* 412, 416, or a response that is not the rest of this object.
Refused == pc = "range" /\ ~Continues /\ Loop("discard", Discarded) /\ Stay

\* The server sends the whole object, whatever was asked.
RangeIgnored ==
    /\ pc = "range" /\ Len(object.body) = Size
    /\ Spend
    /\ pc' = "discard" /\ todo' = Discarded /\ stream' = object
    /\ spoilt' = TRUE /\ UNCHANGED <<files, trees, why, hurt>>

-----------------------------------------------------------------------------
(* extend: the prefix is copied forward, then the rest received.           *)

\* Mutant of SetAside: the rest is written behind the prefix where it lies.
WriteInPlace == pc = "extend" /\ Goto("extending") /\ Stay

SetAside ==
    /\ pc = "extend"
    /\ Rename("tmp", "data", "tmp", "prev") /\ UNCHANGED trees
    /\ Goto("create") /\ Fine

NewFile == [bytes |-> <<>>, sole |-> TRUE]

\* createData, in extend and in fetchWhole: never an existing file.
Create ==
    /\ pc \in {"create", "createnew"}
    /\ IF Tmp("data") = Nil
       THEN Put("tmp", "data", NewFile) /\ Goto(IF pc = "create" THEN "copy" ELSE "fetching")
       ELSE Stuck /\ UNCHANGED <<files, trees>>
    /\ Fine

Extended(file, byte) == [file EXCEPT !.bytes = Append(@, byte)]

\* copyPrefix.
Copy ==
    /\ pc = "copy" /\ Len(Data) < Len(Prev)
    /\ Put("tmp", "data", Extended(Tmp("data"), Prev[Len(Data) + 1]))
    /\ UNCHANGED memory /\ Fine

\* Another program has cut prev off, at what is copied by now.
Shrank ==
    /\ pc = "copy" /\ Len(Data) < Len(Prev)
    /\ Spend
    /\ Put("tmp", "prev", [Tmp("prev") EXCEPT !.bytes = Data])
    /\ pc' = "discard" /\ todo' = Discarded /\ stream' = Nil /\ UNCHANGED why
    /\ spoilt' = TRUE /\ UNCHANGED hurt

\* "From here a cut-off leaves p.data as the one, longer, prefix."
Copied ==
    /\ pc = "copy" /\ Len(Data) = Len(Prev)
    /\ Put("tmp", "prev", Nil) /\ Goto("extending") /\ Fine

-----------------------------------------------------------------------------
(* Receiving: into the data file, or ("writing") straight to dst.          *)

Receiving == pc \in {"extending", "fetching", "writing"}
Sink      == IF pc = "writing" THEN "dst" ELSE "data"
Received  == Tmp(Sink).bytes

\* Mutant of Room: the body is read to its end.
Unbounded == TRUE

\* io.LimitReader: one byte more than the entry has.
Room == Len(Received) <= Size

Receive ==
    /\ Receiving /\ stream.body # <<>> /\ Room
    /\ Put("tmp", Sink, Extended(Tmp(Sink), Head(stream.body)))
    /\ Respond(pc, [stream EXCEPT !.body = Tail(@)]) /\ Fine

EndOfBody == Receiving /\ (stream.body = <<>> \/ ~Room)

\* checkStaged: the length, and the hash of every byte.
Verified == Received = Want

Complete ==
    /\ EndOfBody /\ Verified
    /\ Respond(IF pc = "writing" THEN "chmod" ELSE "install", Nil) /\ Stay

\* A continued prefix that is not the content is discarded, and the object
\* downloaded whole in the same call; a whole object that is not fails the
\* attempt.
Mismatch ==
    /\ EndOfBody /\ ~Verified
    /\ IF pc = "writing" THEN Fail("mismatch")
       ELSE /\ pc' = (IF pc = "extending" THEN "discard" ELSE "known bad")
            /\ todo' = Discarded /\ stream' = Nil /\ UNCHANGED why
    /\ Stay

\* The connection is cut, or none is made, or the disk is full; what arrived
\* stays where it is.
NetFails ==
    /\ \/ pc \in {"range", "get", "plain"}
       \/ Receiving /\ stream.body # <<>> /\ Room
    /\ Fail("net") /\ Stay

-----------------------------------------------------------------------------
(* discard, then fetchWhole.                                               *)

\* Mutant of Discard: the data file is passed over.
DiscardButData ==
    /\ pc \in {"discard", "known bad"} /\ todo # <<>>
    /\ IF Head(todo) = "data" THEN UNCHANGED <<files, trees>> ELSE Put("tmp", Head(todo), Nil)
    /\ Loop(pc, Tail(todo)) /\ Fine

Discard ==
    /\ pc \in {"discard", "known bad"} /\ todo # <<>>
    /\ Put("tmp", Head(todo), Nil)
    /\ Loop(pc, Tail(todo)) /\ Fine

Afresh ==
    /\ pc = "discard" /\ todo = <<>>
    /\ Goto(IF stream = Nil THEN "get" ELSE "sidecar") /\ Stay

KnownBad == pc = "known bad" /\ todo = <<>> /\ Fail("mismatch") /\ Stay

\* The GET of fetchWhole, and of downloadWhole ("plain").
Get ==
    /\ pc \in {"get", "plain"}
    /\ Respond(IF pc = "get" THEN "sidecar" ELSE "open", object) /\ Stay

\* writeInfo: the draft, then its rename.  Without an ETag there is nothing to
\* make the next GET conditional on: the object goes straight to dst.
Sidecar ==
    /\ pc = "sidecar"
    /\ IF stream.tag = Nil
       THEN Goto("open") /\ UNCHANGED <<files, trees>>
       ELSE Put("tmp", "draft", stream.tag) /\ Goto("publish")
    /\ Fine

Publish ==
    /\ pc = "publish"
    /\ Rename("tmp", "draft", "tmp", "info") /\ UNCHANGED trees
    /\ Goto("createnew") /\ Fine

\* writeVerified: never an existing file either.
Open ==
    /\ pc = "open"
    /\ IF Tmp("dst") = Nil
       THEN Put("tmp", "dst", NewFile) /\ Goto("writing")
       ELSE Fail("exists") /\ UNCHANGED <<files, trees>>
    /\ Fine

\* A prefix file cannot be renamed, created, read or removed.  Known-bad bytes
\* that cannot be removed stay, for the next pull to refuse.
PrefixFails ==
    /\ \/ pc = "load" /\ Loop("discard", Discarded)
       \/ pc = "known bad" /\ todo # <<>> /\ Fail("mismatch")
       \/ /\ pc \in {"mkdir", "extend", "create", "copy", "discard",
                     "sidecar", "publish", "createnew", "install"}
          /\ Stuck
    /\ Breaks

-----------------------------------------------------------------------------
(* install, then clearResumeDir; the rest of the pull.                     *)

Install ==
    /\ pc = "install"
    /\ Rename("tmp", "data", "tmp", "dst") /\ UNCHANGED trees
    /\ Goto("dropinfo") /\ Fine

DropInfo == pc = "dropinfo" /\ Put("tmp", "info", Nil) /\ Goto("chmod") /\ Fine

\* Mutant of DropInfoFails: the sidecar is a prefix file that is stuck.
DropInfoSticks == pc = "dropinfo" /\ Stuck /\ Breaks

\* "A sidecar that cannot be removed is left".
DropInfoFails == pc = "dropinfo" /\ Goto("chmod") /\ Breaks

Chmod == pc = "chmod" /\ Goto("installed") /\ Stay

RemoteStaged == pc = "installed" /\ Goto("cleardir") /\ Stay

DirCleared ==
    /\ Removed("cleardir") \/ Removed("cleardir again")
    /\ Goto("staged") /\ Fine /\ UNCHANGED trees

\* What cannot be removed from the resume directory is moved aside into the
\* partial tree.
EndFails ==
    /\ \/ pc = "chmod" /\ Fail("chmod")
       \/ pc = "cleardir" /\ Loop("aside", Listed)
       \/ pc = "aside" /\ StashFails
       \/ pc = "cleardir again" /\ Fail("fs")
    /\ Breaks

\* The staging tree becomes the live tree, whose file the next pull may find
\* gone again.
Swapped ==
    /\ pc = "staged"
    /\ files' = [files EXCEPT !["tmp"] = Bare] /\ trees' = trees \ {"tmp"}
    /\ Goto("idle") /\ Fine

\* Another entry cannot be staged, or the tree not verified or swapped in.
OthersFail == pc \in {"local", "installed", "staged"} /\ Fail("others") /\ Stay

-----------------------------------------------------------------------------
(* What happens around a pull.                                             *)

\* SIGKILL, at any point.
Kill ==
    /\ pc # "idle" /\ Spend
    /\ pc' = "idle" /\ stream' = Nil /\ todo' = <<>> /\ why' = ""
    /\ UNCHANGED <<files, trees, object, hurt, spoilt>>

\* The object is overwritten; a response under way goes on with the old one.
Overwrite ==
    /\ Spend
    /\ object' \in Objects \ {object}
    /\ spoilt' = TRUE
    /\ UNCHANGED <<files, trees, memory, hurt>>

\* Another program gives a kept data file a second name.
LinkKept ==
    /\ Spend
    /\ \E n \in {"data", "prev"} :
          /\ files["partial"][n] # Nil
          /\ Put("partial", n, [files["partial"][n] EXCEPT !.sole = FALSE])
    /\ spoilt' = TRUE
    /\ UNCHANGED <<object, memory, hurt>>

Trees ==
    \/ Begin \/ Keep \/ KeepRename \/ MkdirStash \/ Stash \/ Stashed
    \/ TmpRemoved \/ RemoveAll

Stages ==
    \/ Unshare \/ SharedRemoved \/ Resync
    \/ LocalStaged \/ Adopt \/ Adopting \/ Cleared \/ ClearShared

Resumes ==
    MkdirAll \/ LoadPrev \/ Load \/ Continue \/ Refused \/ SetAside \/ Create \/ Copy \/ Copied

Fetches ==
    \/ Discard \/ Afresh \/ KnownBad \/ Get \/ Sidecar \/ Publish \/ Open
    \/ Receive \/ Complete \/ Mismatch

Ends == Install \/ DropInfo \/ Chmod \/ RemoteStaged \/ DirCleared \/ Swapped

\* The steps of a pull that nothing disturbs.
Work == (Trees \/ Stages \/ Resumes \/ Fetches \/ Ends) /\ UNCHANGED object

Trouble ==
    /\ \/ KeepFails \/ StageFails \/ PrefixFails \/ DropInfoFails \/ EndFails
       \/ NetFails \/ RangeIgnored \/ Shrank \/ OthersFail
    /\ UNCHANGED object

Next == Work \/ Trouble \/ Kill \/ Overwrite \/ LinkKept

Spec == Init /\ [][Next]_vars
=============================================================================
