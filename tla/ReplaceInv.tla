---------------------------- MODULE ReplaceInv ------------------------------
(***************************************************************************)
(* The inductive invariant behind the theorems of ReplaceProofs: what is   *)
(* true of the four directories at each step of the process, stated by     *)
(* parts.  TLC checks it on the small instances first.                     *)
(***************************************************************************)
EXTENDS Replace

Staging == {"local", "clear", "clearShared", "remote"}

Swapping == {"verify", "swap", "install", "rollback", "removeOld"}

\* A name has a file behind it.
Accounted ==
    \A s \in Sibling, p \in Path : Holds(fs, s, p) => file[fs[s][p]] # Nil

\* The attempt's manifest and the entries not yet staged.  A file that is being
\* written has no other name, and a name that is to come is still free.
JobOK ==
    /\ pc \in Staging \cup Swapping => man \in Manifests
    /\ pc \in Staging \cup {"verify", "swap", "install"} => fs["tmp"] # Absent
    /\ pc \notin Staging => todo = {} /\ writing = {}
    /\ pc \in Staging =>
          \A p \in todo : man[p] # Nil /\ fs["tmp"][p] = Nil
    /\ \A p \in writing : man[p] # Nil /\ fs["tmp"][p] # Nil /\ Sole(fs, "tmp", p)
    /\ pc = "local" => \A p \in writing : Local(p)
    /\ pc \in {"clear", "clearShared"} => writing = {}
    /\ pc \in {"clear", "clearShared", "remote"} =>
          \A p \in todo \cup writing : ~Local(p)

\* What was hashed is still there while the local entries are staged: the
\* names, and the permission bits, which nobody changes.
HashedOK ==
    pc = "local" =>
        /\ \A p \in Path : live[p] # Nil =>
              Holds(fs, "dest", p) /\ live[p].mode = file[fs["dest"][p]].mode
        /\ \A c \in Content : index[c] # Nil => Holds(fs, "partial", index[c])

\* Where the destination is.
DestOK ==
    /\ pc \in Staging \cup {"fetch", "verify", "swap"} => fs["old"] = Absent
    /\ pc \in {"keep", "discard", "unshare", "dropPartial"} /\ err # "other"
          => fs["old"] = Absent
    /\ pc \in {"install", "rollback"} => fs["dest"] = Absent /\ fs["old"] # Absent
    /\ pc = "removeOld" => fs["dest"] # Absent

\* Staging has verified what the swap is about to install.
VerifiedOK ==
    /\ pc \in {"swap", "install"} => M!Matches(View(fs["tmp"], file), man)
    /\ pc = "removeOld" => M!Matches(View(fs["dest"], file), man)

\* Each file of the destination has one name in it, and staging links a live
\* file at its own path only.
LinksOK ==
    /\ Distinct(Live)
    /\ pc \in Staging \cup {"verify", "swap", "install"} => Distinct(fs["tmp"])
    /\ pc \in Staging => \A p, q \in Path :
          Holds(fs, "dest", p) /\ Holds(fs, "tmp", q)
              /\ fs["dest"][p] = fs["tmp"][q] => p = q

\* A kept file has, from the end of recovery to the swap, no second name but
\* the one staging gave it in tmp.
Private ==
    \A l \in Path : Holds(fs, "partial", l) =>
        \A s \in Sibling, q \in Path :
            Holds(fs, s, q) /\ fs[s][q] = fs["partial"][l] =>
                s = "tmp" \/ (s = "partial" /\ q = l)

PartialOK ==
    /\ pc \in Staging \cup {"fetch"} => Private
    /\ pc \in {"keep", "discard"} /\ err = "mismatch" => Private
    /\ pc = "local" => \A l \in Path \ taken :
          Holds(fs, "partial", l) => Sole(fs, "partial", l)

\* On Windows a read-only file is never shared.
ReadOnlyOK ==
    Windows => \A s \in Sibling, p \in Path :
        Holds(fs, s, p) /\ file[fs[s][p]].mode \in ReadOnly => Sole(fs, s, p)

\* Errors and attempts.
ControlOK ==
    /\ pc \in Staging \cup Swapping \cup {"fetch"} => attempt > 0
    /\ pc \in {"idle", "recover", "unshare", "dropPartial"} => attempt = 0
    /\ pc \in {"fetch", "clear", "clearShared", "verify", "swap", "install",
              "removeOld"} => err = "none"
    /\ pc = "rollback" => err = "other"
    /\ pc \in Staging \cup Swapping \cup {"fetch"} => call # "recover"
    /\ pc \in {"unshare", "dropPartial"} => err # "mismatch"
    /\ attempt = 0 => err # "mismatch"
    /\ pc # "idle" => call \in Calls

\* What all the steps below rest on.
IInv ==
    /\ TypeOK /\ Accounted /\ JobOK /\ HashedOK /\ DestOK /\ VerifiedOK
    /\ LinksOK /\ PartialOK /\ ReadOnlyOK /\ ControlOK

-----------------------------------------------------------------------------
(* More parts, about how a call ends; they rest on IInv.                   *)

Apart(s, t) ==
    \A p, q \in Path : Holds(fs, s, p) /\ Holds(fs, t, q) => fs[s][p] # fs[t][q]

\* From the clearing of the partial tree on, what is kept of it is no file of
\* tmp; recovery without an error leaves no tmp.
KeptOK ==
    /\ pc \in {"remote", "verify", "swap", "install"} => Apart("tmp", "partial")
    /\ pc = "removeOld" => fs["tmp"] = Absent /\ Apart("dest", "partial")
    /\ pc \in {"unshare", "dropPartial"} /\ err = "none" => fs["tmp"] = Absent
    /\ pc = "idle" /\ result \in {"ok", "recovered"} =>
          fs["tmp"] = Absent /\ Apart("dest", "partial")
    /\ pc = "idle" /\ result = "recovered" => fs["old"] = Absent

\* The destination is missing only within the swap, or after its rename and
\* the one that was to take it back have both failed.
StrandedOK ==
    fs["dest"] = Absent /\ fs["old"] # Absent =>
        \/ kills > 0 \/ fsFaults > 1
        \/ pc = "install"
        \/ pc = "rollback" /\ fsFaults > 0

\* Content c is in the partial tree at l, in a file that has no name elsewhere
\* but in tmp.
SavedAt(l, c) ==
    /\ Holds(fs, "partial", l) /\ file[fs["partial"][l]].data = c
    /\ \A s \in Sibling, q \in Path :
          Holds(fs, s, q) /\ fs[s][q] = fs["partial"][l] =>
              s = "tmp" \/ (s = "partial" /\ q = l)

Saved(c) == \E l \in Path : SavedAt(l, c)

\* Content c is in tmp at p, in a file that has no name elsewhere but in the
\* partial tree.
StagedAt(p, c) ==
    /\ Holds(fs, "tmp", p) /\ file[fs["tmp"][p]].data = c
    /\ \A s \in Sibling, q \in Path :
          Holds(fs, s, q) /\ fs[s][q] = fs["tmp"][p] =>
              s = "partial" \/ (s = "tmp" /\ q = p)

Staged(c) == \E p \in Path \ writing : StagedAt(p, c)

Reused(p) == man[p] # Nil /\ Classify(p) = "reuse"

\* What an attempt got hold of is in the partial tree until it is taken over,
\* in tmp from then on, and in the partial tree again when the attempt is over.
SavedOK ==
    \A c \in had :
        /\ pc \in {"idle", "recover", "discard", "unshare", "fetch"} => Saved(c)
        /\ pc = "keep" => Saved(c) \/ (fs["partial"] = Absent /\ Staged(c))
        /\ pc = "local" => \E p \in Path : Reused(p) /\ man[p].data = c
        /\ pc \in {"clear", "remote", "verify", "swap", "install"} => Staged(c)

\* An entry whose leftover is taken over has the leftover's content once it is
\* staged.
TakenOK ==
    pc = "local" => \A p \in Path : Reused(p) =>
        /\ file[fs["partial"][Leftover(p)]].data = man[p].data
        /\ p \notin todo \cup writing => StagedAt(p, man[p].data)

\* Without a failing operation the process never comes to where it deals with
\* one, recovery meets no error, and the partial tree is gone when it should be.
SmoothOK ==
    /\ pc \notin {"dropPartial", "clearShared", "rollback"}
    /\ attempt = 0 => err = "none"
    /\ pc \in {"remote", "verify", "swap", "install"} => fs["partial"] = Absent

DownloadsOK == fsFaults = 0 /\ kills = 0 => SmoothOK /\ TakenOK /\ SavedOK
=============================================================================
