----------------------------- MODULE ResumeInv ------------------------------
(* What must hold of Resume.                                               *)
EXTENDS Resume

Seqs == INSTANCE SequencesExt

DataFile == [bytes : Seq(Byte), sole : BOOLEAN]

Response == [body : Seq(Byte), tag : Tag \cup {Nil}]
Reasons  == {"", "net", "mismatch", "others", "exists", "chmod", "fs", "tmp"}

\* What may have name n: a data file outgrows what MaxContentBytes counted by
\* no more than the byte that shows it too long.
Fits(n, x) ==
    \/ x = Nil
    \/ n \in {"info", "draft"} /\ x \in Tag
    \/ n \in {"dst", "data", "prev"} /\ x \in DataFile /\ Len(x.bytes) <= Size + 1

FilesOK ==
    /\ files \in [Tree -> [Name -> DataFile \cup Tag \cup {Nil}]]
    /\ \A t \in Tree, n \in Name : Fits(n, files[t][n])
    /\ trees \subseteq Tree
    /\ \A t \in Tree : t \notin trees => files[t] = Bare

\* Every variable keeps its type.
ResumeTypeOK ==
    /\ FilesOK
    /\ object \in Objects
    /\ pc \in Labels /\ why \in Reasons
    /\ stream \in Response \cup {Nil}
    /\ todo \in Seq(Kept)
    /\ hurt \in Nat /\ spent \in 0 .. MaxTroubles /\ spoilt \in BOOLEAN

\* install has given the staged path its file.
Installed == {"dropinfo", "chmod", "installed", "cleardir", "aside", "cleardir again", "staged"}

\* extend, install: whatever cut-offs, kills and overwritten objects the data
\* file was put together over, and whichever sidecar was left beside it, what
\* is staged is exactly the entry's content, in a file with no other name.
StagedRight ==
    pc \in Installed
    => files["tmp"]["dst"] = [bytes |-> Want, sole |-> TRUE]

\* "An error wrapping errPrefixStuck leaves dst absent": the plain download
\* never finds a file in its way.
NeverInItsOwnWay == why # "exists"

\* resumeOrFetch: prefix files are unusable only if an operation on them
\* failed, never because an earlier pull, however it ended, left one behind.
OnlyFaultsStick == pc = "plain" => hurt > 0

\* errPrefixStuck: "the stuck file costs its resume, not the pull"; clearResumeDir:
\* "Only a file that can be neither removed nor moved fails the pull".
OneFaultIsCheap == why = "fs" => hurt > 1

-----------------------------------------------------------------------------
(* A prefix is kept from pull to pull.                                     *)

\* The file a later pull will find under this name: stashPrefixes never
\* replaces one in the partial tree.
Found(n) == IF files["partial"][n] # Nil THEN files["partial"][n] ELSE files["tmp"][n]

FoundData == IF Found("prev") # Nil THEN Found("prev") ELSE Found("data")

\* How many bytes of the object need not be fetched again.
Held ==
    IF /\ object.body = Want /\ object.tag # Nil /\ Found("info") = object.tag
       /\ FoundData # Nil /\ FoundData.sole /\ Seqs!IsPrefix(FoundData.bytes, Want)
    THEN Len(FoundData.bytes) ELSE 0

\* downloadResumable: "a kept prefix is continued".  Until the object is
\* installed no step of a pull, no cut-off and no kill gives up a byte of it,
\* unless a file operation failed in this attempt, the object was replaced or
\* the prefix linked meanwhile, or the server ignored the range.
KeepsPrefix ==
    [][ ~spoilt' /\ pc \notin {"install"} \cup Installed => Held' >= Held ]_vars

-----------------------------------------------------------------------------
(* The inductive invariant: what each pc says of the files in tmp.         *)

TmpThere ==
    /\ pc \in {"unshare", "rmshared", "again"} /\ why # "tmp" => "tmp" \notin trees
    /\ pc \notin {"idle", "unshare", "rmshared", "again"} => "tmp" \in trees
    /\ why = "tmp" => pc \in {"idle", "unshare", "rmshared"}

\* A response is being read, or about to be.
Answered ==
    pc \in {"extend", "create", "copy", "extending", "sidecar", "publish",
            "createnew", "fetching", "open", "writing"} => stream \in Response

\* The staged path is free until the object is written or installed there.
DstFree ==
    pc \in {"local", "adopt", "clear", "drop", "mkdir", "load", "range", "extend",
            "create", "copy", "extending", "discard", "known bad", "get", "sidecar",
            "publish", "createnew", "fetching", "plain", "open", "install"}
    => Tmp("dst") = Nil

\* createData finds no file.
DataFree ==
    /\ pc \in {"create", "get", "sidecar", "publish", "createnew"} => Tmp("data") = Nil
    /\ pc = "discard" /\ todo # Discarded => Tmp("data") = Nil

Own(n) == Tmp(n) # Nil /\ Tmp(n).sole

\* What is written to is the pull's own.
Written ==
    /\ pc \in {"range", "extend"} => Tmp("data") # Nil
    /\ pc \in {"create", "copy"} => Tmp("prev") # Nil
    /\ pc \in {"copy", "extending", "fetching"} => Own("data")
    /\ pc = "copy" => Len(Data) <= Len(Prev)
    /\ pc = "writing" => Own("dst")
    /\ pc = "install" => Tmp("data") = [bytes |-> Want, sole |-> TRUE]

Hurting ==
    /\ pc \in {"drop", "aside", "cleardir again"} => hurt > 0
    /\ why = "tmp" => spoilt \/ pc = "idle"

RInv ==
    /\ ResumeTypeOK
    /\ TmpThere /\ Answered
    /\ DstFree /\ DataFree /\ Written /\ Hurting
    /\ StagedRight /\ NeverInItsOwnWay /\ OnlyFaultsStick /\ OneFaultIsCheap

-----------------------------------------------------------------------------
(* The inductive invariant behind KeepsPrefix: where a kept prefix is as   *)
(* the pull goes on, and that what is being read is the rest of it.        *)

\* The loop has yet to come to n.
Pending(n) == \E i \in 1 .. Len(todo) : todo[i] = n

\* Nothing is lost with the file of tmp.
Settled(n) == Tmp(n) = Nil \/ files["partial"][n] # Nil

\* From the clearing of the partial tree to the end of the download.
Downloading ==
    { "mkdir", "load", "range", "extend", "create", "copy", "extending", "discard",
      "known bad", "get", "sidecar", "publish", "createnew", "fetching", "open", "writing" }

\* A response is held only while it is read.
StreamOK ==
    pc \notin { "extend", "create", "copy", "extending", "discard", "sidecar", "publish",
                "createnew", "fetching", "open", "writing" } => stream = Nil

\* A tree is removed once it has nothing that does not lie in the other.
MovedOK ==
    /\ pc = "stash" => \A n \in Kept : Pending(n) \/ Settled(n)
    /\ pc = "rmtmp" => \A n \in Kept : Settled(n)
    /\ pc = "adopt" => \A n \in {"data", "prev", "info"} :
                          Pending(n) \/ files["partial"][n] = Nil
    /\ pc = "clear" => \A n \in {"data", "prev", "info"} : files["partial"][n] = Nil
    /\ pc \in Downloading => files["partial"] = Bare

\* What the prefix files are, step by step.
PrefixOK ==
    /\ pc \in Downloading \ {"mkdir", "load", "create", "copy"} => Tmp("prev") = Nil
    /\ pc \in {"open", "writing"} => Tmp("data") = Nil
    /\ pc = "copy" => Seqs!IsPrefix(Data, Prev)
    /\ pc \in {"discard", "known bad"} => Held = 0

Rest(bytes) == SubSeq(Want, Len(bytes) + 1, Size)

\* What a response still has to bring is what the file lacks.
RestOK ==
    /\ pc = "discard" => stream = Nil
    /\ pc \in {"sidecar", "publish", "createnew"} => stream = object
    /\ object.body = Want =>
          /\ pc \in {"extend", "extending", "fetching"} => stream.body = Rest(Data)
          /\ pc \in {"create", "copy"} => stream.body = Rest(Prev)

\* Where nothing in this attempt may cost a prefix.
SureOK == pc \notin {"rmshared", "drop", "plain"} /\ MovedOK /\ PrefixOK /\ RestOK

KInv ==
    /\ StreamOK
    /\ pc = "rename" => "partial" \notin trees
    /\ ~spoilt => SureOK

-----------------------------------------------------------------------------
(* Liveness.                                                               *)

\* Pulls are run again and again (README.md: a cut-off download is resumed by
\* the next run), and connections, cut off as often as they may be, are made
\* and bring a byte time and again; nor do the entries that are staged before
\* always fail the pull first.
Fairness ==
    /\ WF_vars(Work)
    /\ SF_vars(LocalStaged /\ UNCHANGED object)
    /\ SF_vars((Continue \/ Refused) /\ UNCHANGED object)
    /\ SF_vars(Get /\ UNCHANGED object)
    /\ SF_vars(Receive /\ UNCHANGED object)

FairSpec == Spec /\ Fairness

\* minResumeSize: an object smaller than it "that cannot arrive within one run
\* never arrives"; a larger one does, once the bucket holds the content under
\* an ETag, although every single connection may be cut.
Arrives == <>[](object.body = Want /\ object.tag # Nil) => []<>(pc = "installed")
=============================================================================
