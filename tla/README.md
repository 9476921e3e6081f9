# A formal model of pinsync

pinsync publishes a directory tree to S3 as content objects plus one manifest
(`push`), and makes a local directory an exact copy of a published manifest
(`pull`); `prune` deletes the objects no manifest lists. This directory holds
TLA+ modules that model it, TLC configurations that check them on small
instances, and TLAPS proofs that hold for every instance.

    tlc -config MCReplace.cfg MCReplace      # a run
    tlapm ReplaceProofs.tla                  # the proofs of a module

## 1. Inventory of the system

| Part | State it keeps | Operations | Works with |
|---|---|---|---|
| pull, replacement (`pkg/pull/pull.go`, `stage.go`, `swap.go`, `recover.go`, `hash.go`, `directory.go`) | four directories: `dest`, and beside it `tmp` (staging), `old` (previous tree during the swap), `partial` (files kept from a failed attempt); hardlinks between them | `Pull`, `PullWithManifest`, `Recover`, `ReplaceFromDirectory` | reads the bucket push writes; `manifest.VerifyTree`; itself, after a kill |
| pull, resume (`resume.go`) | `.pinsync-resume/` in `tmp` and `partial`: for each large object a data prefix and a JSON sidecar with its ETag | adopt, inspect, continue by ranged GET, extend, install, discard | the replacement moves its directory around (`adoptPrefixes`, `stashPrefixes`) |
| pull, dry run (`dryrun.go`) | none | `DryRun` | `classify`, shared with staging |
| manifest (`pkg/manifest`) | none | `Build`, `Validate`, `Decode`, `VerifyTree` | push builds, pull decodes and verifies |
| push (`pkg/push`) | the objects of a bucket prefix and its manifest key | `Push`, `DryRun`: diff against the remote manifest, HEAD what seems unchanged, upload, put the manifest last | pull and prune read what it writes |
| prune (`pkg/prune`) | none; deletes objects | `Prune`, `DryRun`: list, keep what the manifest names and what is younger than `-min-age`, delete in batches | races with push and with pulls of old snapshots |
| `cmd/pinsync` | none beyond one process | parse the command line, load credentials, run one operation, report | calls the packages |
| `pkg/awsclient` | a credentials cache with an expiry window | `Load`, `NewS3` | every request asks the cache |
| `pkg/rolesanywhere` | handles of the certificate store and its identities, while a retrieval runs | `FindIdentity`, `Fetch`, `Provider.Retrieve` | called by the cache whenever credentials near their end |
| `pkg/s3test` | an in-memory S3 for tests | | says what the code expects of S3 |

What is hard about it, by part (the full list, by line, is `hazards` in
`PROJECT.json`):

* **replacement** -- no directory can be replaced atomically by portable means,
  so the swap is two renames with a recovery for what lies between; any of some
  twenty operations can fail or be the last before a kill; files travel between
  four trees as hardlinks, so removing or writing "another" file may touch a live
  one; sixteen workers stage entries that may want one and the same leftover;
  hashes are taken long before they are relied on. Correct means: `dest` is at
  every moment the tree it was or a whole verified manifest, an error changes
  nothing, no two live names share a file, downloads are not lost, nothing wedges.
* **resume** -- two files per prefix that a kill can separate, an object that can
  change under the prefix, files that cannot be removed. Correct means: what is
  installed hashes right whatever the prefix held, and a stuck prefix costs no
  more than itself.
* **push** -- many objects and one manifest without a transaction, repair of
  objects that were damaged, concurrent readers and writers. Correct means: once
  the manifest is put every object it names is there with its bytes.
* **prune** -- reads the manifest, lists and deletes at three different times.
  Correct means: no object a published manifest names is deleted.
* **pull beside the others** -- takes the manifest at one moment and the objects
  at many later ones, while pushes overwrite and prunes delete them. Correct means:
  it installs the snapshot or fails; what it finds missing was no longer published;
  and in the end every machine that pulls has the tree that was pushed.
* **one process** -- credentials lapse while transfers run, many requests share
  one renewal, every failure path holds other handles, and limits are compared in
  integers that wrap. Correct means: no handle leaks, no request is signed as
  somebody else or with credentials about to lapse, a manifest is refused exactly
  when it is over the limits.

## 2. What is modelled

### Siblings

The directories and the system calls. A tree is a function from manifest paths
to inodes, a file is content plus permission bits, and two names may be one
inode; rename of a directory, link, unlink, create, the loss of an inode with its
last name, and the Windows rule that removing a read-only file can clear the
attribute for all its names are operators. Contents stand for SHA256 and size;
`Torn` is the content of any file no manifest lists.

### Mirror -- what pull promises

Three variables: `mirror` (the tree a reader of `dest` gets, or gets back from
recovery), `status` and `reported` (the manifest returned). The only step that
changes the tree puts in a whole manifest (`Replace`); success follows only such
a step and returns its manifest; `Fail`, `Recovered` and `Killed` change nothing.
The source is the contract of `Pull` ("converges dest to exactly the manifest's
tree, or returns a non-nil error leaving dest untouched") and of `Recover`.

### Replace -- what pull does

One action per file system operation or verdict, `pc` saying where the process
is. `fs` and `file` are the disk; everything else dies with the process, except
the counters that bound faults and the history variable `had`.

| `pc` | code | actions |
|---|---|---|
| `idle` | no process | `Start` |
| `recover` | `recoverInterrupted`, the old tree | `NothingOld`, `RestoreOld`, `RemoveStaleOld` |
| `keep`, `discard` | `keepStaged`, from recovery (`attempt = 0`) and from `replace` | `NothingStaged`, `DropStagedShared`, `Keep`, `KeepFails`, `KeepRefused`, `DiscardStaged`, `DiscardFails` |
| `unshare`, `dropPartial` | `unsharePartial` | `Unshare`, `Unshared`, `DropPartial` |
| `fetch` | `syncOnce`: manifest, hashes, mkdir | `BeginStage`, `BeginFails` |
| `local`, `remote` | `stageAll`, twice | `StageLink`, `StageOpen`, `StageCopied`, `StageDownloaded`, `StageMismatch`, `StageCut`, `StageFails`, `LocalDone`, `RemoteDone` |
| `clear`, `clearShared` | removal of the partial tree between the two | `Clear`, `ClearShared` |
| `remote` | `clearResumeDir` | `ResumeDirStuck` |
| `verify` | `VerifyTree`, `BeforeReplace` | `Verified`, `Refused` |
| `swap`, `install`, `rollback`, `removeOld` | `swap` | `SetAside`, `Install`, `InstallFails`, `Rollback`, `RemoveOld` |
| any | | `Kill`, `OutsideWrite` |

The workers are interleaved: a copy or a download is a create (`StageOpen`) and
later the bytes, so any number is under way at once. `os.RemoveAll` removes one
name per step, in any order, and can be killed or give up half-way. A kill
resets the process's variables and keeps the disk.

Abstractions a reader should know:

* A rename in `renameRetry` succeeds or fails as a whole: the retries have no
  effect of their own.
* The loss of a kill is that of the process. Power loss is not modelled: the code
  syncs one directory, best effort, and promises nothing about it.
* The prefix files of the resume directory are no names of a tree. Where their
  handling changes a tree it is an action (`KeepFails` and `ResumeDirStuck` may
  leave a partial tree that holds nothing else).
* `VerifyTree` is taken at one moment, and others write to `dest` only before it
  (`OutsideWrite`): between verification and swap the code relies on its caller
  to keep others away. Others write into files, they do not rename or remove.
* One process works on a `dest` at a time, as the code assumes (it takes no lock).
* Directories within a tree, non-regular files and the path checks of
  `ReplaceFromDirectory` are left out.

### Bucket -- objects, and what is concluded from them

Keys, objects and manifests. An object is a body, whether a full SHA256 is stored
with it, and whether it was modified within prune's `-min-age`. `Verifies` is
`verifyObject`'s verdict, `Decodes` is what `manifest.Decode` accepts; `Torn` is
the body of an object no push wrote, and does neither.

### Push -- what push does

Any number of processes push trees to one prefix. One action per request, or
per thing that can become of a request:

| `pc` | code | actions |
|---|---|---|
| `idle` | no process, or the last push's `result` | `Start` (`prepare`; `-adopt`, `-full`, or the diff) |
| `fetch` | `remoteManifest`, the comparison in `diffRemote` | `Fetch`, `FetchFails` |
| `head` | `verifyObjects` | `Head`, `HeadForbidden`, `HeadFails`, `HeadsDone` |
| `upload` | `uploadFiles`, `putFile` | `PutFile`, `PutRefused`, `PutUnanswered`, `PutRepeated`, `UploadsDone`, `UploadsFail` |
| `manifest` | `putManifest` | `PutManifest`, `ManifestUnanswered`, `ManifestRepeated` |
| any | | `Kill`, `Edit` (of the tree), `Land`, `Damage` |

HEADs and puts of different files are taken in any order, which is what
any `-parallel` comes to. `wire` holds puts whose sender no longer waits for
them: one that got no answer, one the SDK has repeated, those under way when
a push is cancelled or killed. `Land` carries one out, as late as it likes.

`touched` and `quiet` are history variables, for saying what *others* have done
since a push last looked; no guard of `Push` reads them.

* `Build` is one moment. A tree that changes while it is hashed yields a
  manifest of several moments; the files are hashed one by one and put one by one,
  and what the properties say is about the manifest, not about a moment.
* S3 answers a GET or HEAD with the latest object, and an accepted put is whole:
  the puts carry length and SHA256 and S3 refuses a body that differs.
* A tree with a file at the manifest's key is refused before anything is done
  (`Build`, `resolveManifestKey`), so the key is none of the paths. Two pushes with
  different manifest keys, or overlapping prefixes, are left out.

### Prune -- beside Push

`Prune` extends `Push`: `PushStep` is any step of it, and one prune at a time
reads the manifest (`FetchManifest`), lists the prefix key by key in any order
(`List`, `Listed`), and deletes key by key (`Delete`, `DeleteFails`, `Deleted`),
which is what S3 makes of a batch. `PruneStops` is a page or a request that
fails, or a kill. The deletes it leaves on their way are `late`, as are those the
SDK has repeated (`DeleteRepeated`): `LateDelete` carries one out at any time,
beside later prunes and pushes too, or never. `rewritten`, `lapsed`, `stray` and
`sent` are history variables.

Time is `Age`: an object stops being younger than `-min-age`, but not while the
push that wrote it runs, nor while a listing has its cutoff. This is what the
window is for; a `-min-age` shorter than a push promises nothing.

### Read -- pull beside push and prune

`Read` extends `Prune`: any number of machines pull from the prefix while pushes
and prunes go on. What a pull does on disk is `Replace`; here a destination is
the manifest it was made equal to, and what an attempt keeps is a set of contents.

| `at` | code | actions |
|---|---|---|
| `idle` | no process, or the last pull's `outcome` | `BeginPull` |
| `fetch` | `fetchManifest`, `classify`, reuse, removal of the partial tree | `FetchSnapshot`, `NoSnapshot` |
| `get` | `downloadWhole` entry by entry; the mismatch loop; verify and swap | `Get`, `GetMismatch`, `GetMissing`, `Install` |
| any | a failed request or file operation, a kill | `PullFails`: any part of what was staged is kept |

`PruneNext` and what follows from it for the pulls is `Others`. `adrift` is a
history variable: the paths without an object that no promise of push or prune
covers -- somebody else deleted it, prune took an object written after it was
listed, or a manifest was put by a push that does not know the one it replaces.
`ReadRace` adds one more, `aged`, for the run `reader_race` alone.

### Preview -- the dry run beside Replace

`DryRun` changes nothing, so its answer is a history variable, `plan`, beside the
behaviours of `Replace`. It is taken whenever no process runs, on whatever disk
earlier pulls, failures and kills have left. It and the pull decide by one
operator, `Decision`, as they do by one function, `classify`; what can differ is
the disk it is asked about. The plan is followed through recoveries, failed
attempts and kills, to the moment a pull of the same manifest has classified, and
is forgotten once a pull goes past that or another program has written to `dest`.

`Foretold` says what is left of the plan then. What is linked or copied is what
the plan said, whatever came between, unless `dest` was missing and recovery has
put it back (`plan.lost`). What is taken from the partial tree is, if the dry run
warned of nothing (`Warned`: no `tmp`, no `old`) and nothing has failed since
(`sure`), what the plan said but for the contents that only files with a second
name have (`Own` is the others). Of these the dry run says nothing: a pull gives
such files up and downloads what the plan counted as reused.

### Session -- one process around its transfers

The command line (`Accepts`, `RAMode`), where credentials come from
(`LoadDefault`, `LoadRolesAnywhere`), the certificate store handle by handle
(`OpenStore` to `NoMatch`, in the order `FindIdentity` closes them, deferred
closes included), the exchange (`Sign`, `Fetched`, `FetchFails`), the cache all
requests share (`Send`, `Refresh`), and the limits of a manifest in integers of
bounded width (`NewSyncer`, `FetchManifest`, `CountSize`).

* A handle is a number: 0 the store, n its n-th identity. `misused` records a
  handle closed twice.
* A configuration may not load (`LoadDefault`, `Fetched`), a manifest read whole
  may not decode or not validate (`FetchManifest`). What the bytes of either are
  is left open.
* A staged object that mismatches its entry starts the sync anew (`Mismatch`), at
  most `Attempts` times in all: the requests of the attempt are given up and the
  manifest is fetched and counted again, under the limits already set. A retrieval
  they waited for goes on without them.
* The SDK's cache is external: what it holds is used until `raExpiryWindow`
  before it expires; one retrieval serves all requests that wait, and its error
  is the error of each. A session lives longer than the window.
* A request is signed when the cache answers; how long it is on its way is not
  modelled. What a certificate or a flag says is one of a few kinds.
* The default chain is the SDK's and looks after itself.

### Resume -- the prefix files of one large object

`files` is what each tree's resume directory holds for one content: `data`,
`prev` (the data while it is copied forward), `info` (the sidecar, of which the
ETag is all that matters) and `draft` (the sidecar being written); and `dst`, the
staged path. Bytes are counted out one by one, for a cut-off can come at any.

| `pc` | code | actions |
|---|---|---|
| `idle` | no process | `Begin` |
| `keep`, `rename`, `stash`, `rmtmp` | `keepStaged`, from recovery (`why = ""`) and from `replace` | `Keep`, `KeepRename`, `MkdirStash`, `Stash`, `Stashed`, `TmpRemoved`, `KeepFails` |
| `unshare`, `rmshared` | `unsharePartial` | `Unshare`, `SharedRemoved` |
| `again` | the mismatch loop of `PullWithManifest` | `Resync` |
| `local`, `adopt`, `clear`, `drop` | `stage` up to the downloads, `adoptPrefixes` | `LocalStaged`, `Adopt`, `Adopting`, `Cleared`, `ClearShared`, `StageFails` |
| `mkdir`, `load` | `resumeOrFetch`, `load`, `inspect` | `MkdirAll`, `LoadPrev`, `Load` |
| `range` | `continuePrefix`, `checkContinues` | `Continue`, `Refused`, `RangeIgnored` |
| `extend`, `create`, `copy`, `extending` | `extend` | `SetAside`, `Create`, `Copy`, `Copied`, `Shrank`, `Receive`, `Complete`, `Mismatch` |
| `discard`, `get`, `sidecar`, `publish`, `createnew`, `fetching`, `known bad` | `discard`, `fetchWhole`, `writeInfo` | `Discard`, `Afresh`, `Get`, `Sidecar`, `Publish`, `Create`, `Receive`, `KnownBad` |
| `plain`, `open`, `writing` | `downloadWhole`, `writeVerified` | `Get`, `Open`, `Receive` |
| `install`, `dropinfo`, `chmod` | `install` | `Install`, `DropInfo`, `DropInfoFails`, `Chmod` |
| `installed`, `cleardir`, `aside`, `cleardir again` | `clearResumeDir` | `RemoteStaged`, `DirCleared`, `MkdirStash`, `Stash`, `EndFails` |
| `staged` | the rest of the pull | `Swapped`, `OthersFail` |
| any | | `RemoveAll`, `PrefixFails`, `NetFails`, `Kill`, `Overwrite`, `LinkKept` |

* It is one manifest entry that no local file can stand in for. Contents share no
  prefix file (their names are the SHA256), so several would only interleave.
* A tag stands for ETag and VersionId; a server that has no ETag answers `Nil`.
* A response goes on with the object it began with, whatever is put meanwhile.
* A name at the staged path that a failed attempt keeps is a leftover of
  `Replace` and leaves this model.
* `dropShared` is one step here (`Replace` has it name by name), and what the
  pull does beside this entry is `LocalStaged`, `RemoteStaged` and `OthersFail`.
* A tmp that recovery cannot remove (`why = "tmp"`) fails the pull only after
  `unsharePartial`: `Recovered`.
* A prefix that shrinks while it is copied (`Shrank`) is another program's doing.
* On a platform that cannot count links (`link_other.go`) no prefix is kept.

`hurt` and `spoilt` are history variables: how many file operations failed in
this attempt, and whether anything happened that may cost a prefix.

### MCReplace, MCPreview

Two paths, two contents, six inodes. Four trees of two names need at most eight,
but a reachable disk never has more than six files at once: `FreeInodes` is never
empty when a create comes. The disks to begin with are an empty place, an
outdated `dest` with a partial tree, one where an older release left a second
name of a live file in `partial`; trees whose modes differ, and read-only files in
every tree, for the other runs.

### MCPush, MCPrune, MCRead, MCReadRace

Two paths, two contents, two modes. Trees of one and two files that differ in
content, in mode and in what they lack; buckets that are empty, in sync, or hold
an old object no manifest lists. A bucket to begin with is `Consistent`: what its
manifest lists is there. `MCRead` has the same buckets and one machine that pulls.
Its run `readers` begins with an empty prefix or one with an old file at a key no
manifest lists. The tree either drops the published key and uses that one
(`MCOneTree`), or is this and then has the dropped file back (`MCBack`): both keys
are published, dropped and put again in one behaviour or another, with an old
object under them or a new one.

### MCResume

An object of two bytes, so that a prefix is neither nothing nor all; beside it
another of the same length that shares only its second byte, and one that begins
with it, is two bytes too long, and has no ETag.

### MCSession

Command lines that are wrong in each way there is, and right in each; stores of up
to three identities of three kinds; three requests; sessions of two or three ticks
with a window of one, on a clock of seven; integers up to 3, so that two sizes
overflow, and every limit that fits.

## 3. The runs

| run | instance | shows |
|---|---|---|
| `faults` | 2 failing operations, 1 bad download, 1 kill, 2 attempts; pulls, recoveries and `ReplaceFromDirectory` | `Implements`, `SeparateFiles`, `NoSecondNames`, `RecoveryCleans`, `RollsBack`, `KeepsDownloads`, `TypeOK` |
| `schedule` | another program's write while staging, differing modes, 1 failing operation, 1 kill; fairness | `Implements`, `Converges` |
| `windows` | read-only files in every tree, 1 failing operation, and a bad download or a kill; a dry run at any time | `Implements`, `Foretold` |
| `killed_clearing` | no failing operation, 1 bad download, 1 kill | refutes `TmpIsExpendable` (see 5) |
| `pushers` | 2 pushers by diff, 2 trees, any 2 of: fault, kill, edit, outside change of the manifest | `NothingMissing`, `ContentFirst`, `OkIsPublished`, `NoOp`, `TypeOK` |
| `readers` | 1 pusher by diff, `-full` or `-adopt`, 1 prune at a time, late deletes, 1 machine pulling; a fault, a change of the tree, or a push that is not by diff (`OneTrouble`) | `Present`, `SparesReferenced`, `MissingMeansStale`, `ReadTypeOK`, `PruneTypeOK` |
| `mirrored` | 1 pusher by diff, 1 prune at a time, 1 machine pulling, 1 outside change; fairness | `Mirrored`, `Heals`, `Collects` |
| `prune_race` | 1 pusher, no fault, no kill | refutes `WindowKept` (see 5) |
| `reader_race` | 1 pusher, 1 machine pulling, no fault, no kill | refutes `ShortPullsAreSafe` (see 5) |
| `resume` | 4 troubles of any kind: failing operation, kill, overwrite, link, ignored range; fairness | `StagedRight`, `KeepsPrefix`, `Arrives`, `OnlyFaultsStick`, `OneFaultIsCheap`, `NeverInItsOwnWay`, `ResumeTypeOK` |
| `session` | see MCSession; 2 attempts | `HandlesBalanced`, `SignedAsAsked`, `SizesExact`, `SessionTypeOK` |
| `largest_cap` | the largest limit there is | refutes `CapIsACap` (see 5) |

Calls follow one another without bound in every run; only faults, kills and
edits are bounded (`MaxFsFaults`, `MaxNetFaults`, `MaxKills`, `MaxEdits`). Two
failing operations are what it takes to fail both the swap and its rollback, or
a rename and the removal that is its fallback; a kill can come on top. Two paths
are enough for two entries to want one leftover, for a live file to be wanted
elsewhere and for a tree to be half removed. Two attempts have a first that is
retried and a last that is not, which is all the loop tells apart; `TypeOK` bounds
them, and the theorems are for any number.

For push and prune, two paths and two contents give every relation of a tree to
the remote manifest: a file that is unchanged, changed, new, gone, or of another
mode. One fault can leave several puts on the wire, and pushes follow one another
without bound, so a late put can meet any later push. `pushers` uses symmetry in
the processes (safety only) and stops at two troubles (`TwoTroubles`: a failure
or an edit with a kill or an outside change on top), and to each the other is the outside change its
promises have to live with. One pusher and one machine that pulls are enough for
`readers`: a pull changes nothing another process sees. It stops at one trouble
(`OneTrouble`): what threatens an object there is that the tree drops it and takes
it back, beside a prune that is under way or a delete that comes late. The theorems of section 4
hold for any number of each.

What the properties exempt is what the code does not promise, and no more.
`ContentFirst` and `OkIsPublished` say nothing of a key others have written since
the push last looked at it. `NothingMissing` holds until somebody else writes to
the bucket (`damageCount = 0`), and not for `-adopt`, which takes the remote tree
on trust.
`SparesReferenced` exempts keys rewritten after they were listed (the finding
below) and prunes during which a manifest was put by a push that did not know
the one it replaced: one that raced with another push, `-adopt`, or a late put.
For a late delete both count from the listing it came from to the moment it lands
(`lapsed`).
`Present` and `MissingMeansStale` exempt what is `adrift`, for the same reasons.
`ContentFirst` is stated where it is about bytes: a published manifest can list
an object that another push has since overwritten, and what a pull then does
(fetch the manifest anew, in the end fail) is `GetMismatch`.

Fairness of `schedule`: `WF(Step)` says a process that is not killed goes on;
`SF(Start("pull"))` that pulls are started again and again, whatever else is
called in between, which is what README.md's "cron or launchd can run it as often
as you like" is for. Nothing is assumed about which outcome a step has: it is the
bounds on faults that end them, so `Converges` says that no *leftover* of the
faults keeps later pulls from succeeding.

Fairness of `mirrored`: a push, a prune and a pull that are not killed go on
(`WF`), and all are started again and again (`SF` for a push and a prune, whose
start comes between the others' steps; a prune's needs a manifest that decodes;
`WF` for a pull, which can always begin). `Heals` then says that from some
moment on the published snapshot is the tree for good: whatever an outside change
or a prune has taken is put again, and prunes then only take what no tree lists
(`Collects`: and they do take it). `Mirrored` says it of the machine that pulls.
Both are stated for one pusher whose tree does not change. Objects need never age
and late puts need never happen. The outside change of this instance is to the
object of the second path (that of `pushers` is to the manifest), and pulls see no
fault of their own: `readers` has those.

Cut-off connections are not bounded in `resume`, the other troubles are, by four
in all (`MaxTroubles`): it takes two failing operations to leave prefix files in
both trees, and a kill and an overwritten object can come on top. `KeepsPrefix`
exempts the steps after something in the same attempt cost the prefix (`spoilt`),
and the step that installs it. `OneFaultIsCheap` is about prefix files: a failing
chmod of the staged file and a tree that cannot be removed fail a pull by design.

Fairness of `resume`: a pull goes on (`WF(Work)`) and is run again and again;
connections are made, answered and bring a byte time and again (`SF`), and the
entries staged before this one do not always fail. Nothing more is assumed: every
connection may be cut after one byte. `Arrives` is what the prefix files are for.
It needs the object to have an ETag, and the bucket to hold the content for good.

`session` bounds nothing but the clock, the integers and the attempts, which the
code bounds; the requests are alike (`Alike`), and only safety is checked. Requests, renewals and
retrievals follow one another as long as the clock allows, which is at least two
renewals after the first retrieval; `SessionProofs` is for any number.

## 4. The proofs

All for every `Path`, `Content`, `Inode`, `Manifests`, `Disks` and every bound,
from the named assumptions of the modules: paths are numbered (the lexical order),
`Nil` and `Absent` are no values of the sets they complement, manifests list
contents, the initial disks are `WellFormed`.

* `ReplaceProofs`: `IInv` of `ReplaceInv` is inductive -- `Invariance`, and from
  it `TypeCorrect` and `FilesAreSeparate`. A property such as `SeparateFiles` is
  not inductive: that the tree installed has separate files rests on what staging
  linked (`LinksOK`: tmp is distinct, and shares with dest only at the same
  path), that on which leftovers can still be linked (`PartialOK`: one not taken
  has no other name), that on what recovery left (`Private`), and that holding at
  all on what every removal leaves alone (`ReadOnlyOK`, on Windows). The proof has a
  lemma per group of actions; `UnlinkStep` is the heart of all the removals.
* `ReplaceRefines`: `Refinement`, `Spec => Implements`. Every operation shows a
  reader nothing (`Stutter`, `SameView`), except `Install`, which `VerifiedOK`
  makes Mirror's `Replace`, the ends of a call, and `OutsideWrite`, which changes
  one path because the files are separate.

  The same view proves `PlansComeTrue` (`Foretold`, of `Preview`). Until a pull has
  hashed its trees a step leaves `dest` as it is or puts it back, and what it shows
  a reader is what the plan was made of (`EarlyDest`); so the decisions on its files
  are the plan's. `PlanOK` says this at every place before (`DestKnown`,
  `DestAsPlanned`), and of the partial tree that, after a dry run that warned of
  nothing, recovery does nothing to it but to drop second names
  (`PartialAsPlanned`).
* `ReplaceEnds`: with `KeptOK` and `StrandedOK` on top of `IInv`, the theorems
  `Unlinked` (`NoSecondNames`), `Cleaned` (`RecoveryCleans`) and `RolledBack`
  (`RollsBack`).

  `DownloadsKept` (`KeepsDownloads`) says where what an attempt got hold of (`had`)
  is once it has cleaned up after itself, and that is decided all along the attempt.
  `DownloadsOK` (`DownloadsInvariance`), which holds until an operation fails or the
  process is killed, says where it is on the way: what was got hold of is
  in the partial tree under a name of its own (`SavedAt`), or one of the entries
  will reuse it (`Reused`), or it is in tmp (`StagedAt`), by where the process is
  (`SavedOK`). Both say that the file has no name elsewhere, without which
  `unsharePartial` or `keepStaged` would drop it. `TakenOK` carries it through the
  staging itself, where names move from one tree to the other one by one, and
  `SmoothOK` that the partial tree is gone when tmp takes its place.

* `PushProofs`: `IInv` of `PushInv` is inductive (`PushInvariance`). What makes
  it so is `SettledOK`: a push has dealt with a file once it is neither to be
  HEADed nor to be uploaded, and what it has dealt with verifies except where
  others wrote; the same of the manifest it found or put. From it `PushTypes`,
  `ContentIsFirst` and `OkMeansPublished`. `NoOpPush` adds `QuietOK`.
  `NothingIsMissing` adds `PresentOK`: no push takes an object away, so what one
  push has dealt with is there for every manifest still on its way, also a late
  one. All of it is until the first outside change (`Undamaged`). It
  assumes no `-adopt`.

* `PruneProofs`: `PruneIInv` of `PruneInv` is inductive, and with it
  `ReferencedIsSpared` (`SparesReferenced`), for any number of pushes. The heart
  is `Relied`: beyond what it uploaded itself, which is young, a push that is not
  blind relies only on what the manifest it knows references. So an old object
  outside the keep-set is referenced by no manifest such a push puts
  (`UnkeptOK`, `PushUnkept`), and when the delete comes it still is not. Two
  lemmas divide the work: `Movement` (a step is either a push's own, or leaves it
  alone and lets it hear of a new manifest) and `StaysYoung`. `IInv` is a part of
  `PruneIInv`, so `ContentFirst` holds beside prunes too.

* `ResumeProofs`: `RInv` of `ResumeInv` is inductive (`ResumeInvariance`), for
  objects, bytes and ETags without bound. It says for every `pc` what the code
  there takes for granted of the staging tree: that the staged path is free
  (`DstFree`), that `createData` finds no file (`DataFree`), that what is written
  to is the pull's own and what is installed is the content (`Written`), and that a
  failure came before a place that only failures lead to (`Hurting`). `StagedRight`
  alone is not inductive: it rests on `Written` at `install`, this on the sole
  ownership of a file made by `createData`; the types rest on the bound `Room`
  keeps. From it
  `ResumeTypeCorrect`, `StagesRight`, `WayClear`, `StuckOnlyByFaults` and
  `FaultsAreCheap`. Nothing is assumed of the sidecar: that the content is right
  rests on `checkStaged` only, as the code says.

  `PrefixKept` (`KeepsPrefix`) compares the prefix before a step with the one after
  it. It needs `KInv` (`PrefixInvariance`): while nothing may cost the prefix, a tree
  about to be removed has no file that does not lie in the other (`MovedOK`,
  file by file through the renames), what is renamed away or overwritten is no
  longer needed (`PrefixOK`: the copy is a prefix of what it was copied from), and a
  response that is appended brings just what the file lacks (`RestOK`), so that a
  verdict "mismatch" can only come where the object was another. `Mismatch` would
  otherwise throw a good prefix away.

* `ReadProofs`: `ReadIInv` is inductive (`ReadInvariance`), for any number of
  pushes, machines and attempts, and with it `PublishedIsPresent` (`Present`) and
  `MissingIsStale` (`MissingMeansStale`). `Present` alone is not inductive: that
  a manifest about to be put lists only what is there rests on `HereOK` (what a
  push has put is there, but for what is adrift) and on `PruneIInv` for what it
  relies on beyond that. The two halves are `Gone` (an object that goes and is
  not adrift was deleted as old and unkept, so nobody relied on it) and
  `NewlyListed` (what a new manifest lists that the old one did not). A pull's own
  steps leave the bucket alone (`Unmoved`), so the invariant is the others' work.

* `SessionProofs`: `SessionIInv` is inductive (`SessionInvariance`), for every
  width of integers, store, window, lifetime and number of requests. `RetrievalOK`
  says which handles are open at each step of a retrieval, from which
  `HandlesAreBalanced`; `SourceOK` that what was loaded is what was asked for, from
  which `SignedAsTheyShould`; and `SessionTypes` has that the sum of the sizes
  stays between 0 and the limit: lemma `Wraps` (a number that fits is not changed)
  makes the subtraction exact, and the comparison the addition after it.

  `SizesAreExact` (`SizesExact`) compares that with the sum in the integers, for
  manifests of any length. The sum is a recursive function; that it has the values
  its definition says (`SumsStep`) and grows (`SumsGrow`) is proved by the least
  counterexample: the library's induction theorems take operators, but its theorem
  that a well-founded relation has minimal elements takes a set (`Less`, `Least`).
  `SumOK` then says that the int64 is that sum so far. The other half is `AloneOK`:
  the manifest is asked for alone, so no request and no retrieval is under way
  while its sizes are counted, and no error but the limit ends the count. After a
  mismatch this rests on `StaleOK`: a retrieval that outlives the requests that
  waited for it runs only while nothing fresh is cached, so the request for the
  next manifest waits for it. `CountInvariance` has all three.

Every safety property of a passing run, action properties and the refinement
included, is a theorem. Only model-checked are the liveness properties, `Heals`,
`Collects`, `Mirrored`, `Converges` and `Arrives`: fairness is about `ENABLED`, which
is out of the prover's reach.

## 5. What the work found

`TmpIsExpendable` states what a comment on `keepStaged` says of a tmp it deletes
because a partial tree is in its place: staging "either never got past reusing it
... or could not remove it; tmp is deleted instead, costing at most the downloads
since". There is a third case. `stage` removes the partial tree name by name; a
kill in the middle leaves the rest of it, and the next recovery then deletes tmp,
which held the last names of the files already removed. Files kept from earlier
pulls are downloaded again although no operation failed. Nothing wrong is ever
installed by it.

`WindowKept` states what README.md says of `-min-age`: that it keeps any object
modified inside the window, so that prune never deletes what a push in progress
has uploaded. `prune` looks at the modification time once, in the listing, and
deletes later. A path that was in an earlier tree, left it, and comes back has an
old unreferenced object; if a push uploads it again after prune has listed it,
prune deletes the new object, and the push then publishes a manifest that lists
it. Pulls of that snapshot fail until the next push repairs it (`Heals`). What
does hold, and is `SparesReferenced`, is that nothing old that anybody
references or relies on is deleted.

`ShortPullsAreSafe` states what README.md says of a pull that prune overtakes: that
it can lose objects "once they're older than `-min-age`", so that raising
`-min-age` beyond the slowest pull helps. The window counts from an object's
modification, not from when it stopped being referenced. An object that has been
older than the window for long -- any file that has not changed for a day -- goes
as soon as a push drops it, and a pull of the snapshot before, however short, then
fails. The next one succeeds: what does hold is `MissingMeansStale` and `Mirrored`.

`CapIsACap` states what `Options` says of `MaxManifestBytes`, that every value but
a negative one is a limit. `fetchManifest` reads up to `maxManifest+1` bytes; for
the largest int64 this wraps to the smallest, nothing is read, and every manifest
is refused as malformed. For every smaller limit the property holds. README.md's
words on the caps name no upper end either.

## 6. Not modelled, and why

* Two pulls of one `dest` at once. The code takes no lock and its contract is one
  at a time, so it promises nothing of them that could be stated.
* `push.DryRun` and `prune.DryRun`: they read, decide with the functions `Push`
  and `Prune` decide with, and report. The dry run of a pull is modelled since
  what it foretells is about a disk that recovery changes in between.
* The walk of `manifest.Build` and the path rules of `Validate`, the path checks
  of `ReplaceFromDirectory`, directories inside a tree: string and file type
  checks of sequential functions. A model would repeat them.
* Several contents in one resume directory, and which entries get a slot there:
  contents share no file, so they would only interleave.
* Power loss. The code syncs one directory, best effort, and promises nothing.
* Overlapping prefixes, and pushes with different manifest keys.
* The SigV4-X509 canonical request and its encodings (`sign.go`): a pure encoding,
  without state.
* Logging, help, and the wording of reports.
* `pkg/s3test` and `hack/`: test aids, read for what the code expects of S3.
