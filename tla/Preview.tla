------------------------------ MODULE Preview -------------------------------
(***************************************************************************)
(* pull.DryRun beside Replace (pkg/pull/dryrun.go): what it says a pull    *)
(* would do, remembered until a pull of the directory has gone past its    *)
(* local entries.  It only reads, so the plan is a history variable; the   *)
(* pulls after it decide by the same classify, but on the disk recovery    *)
(* has left them, and that is what can differ.                             *)
(***************************************************************************)
EXTENDS Replace

VARIABLES
    plan,   \* what the last dry run said, and what it was looking at
    sure    \* history: it warned of nothing, and nothing has gone wrong since

NoPlan == [man |-> Nil, act |-> [p \in Path |-> Nil], lost |-> FALSE, own |-> {}]

\* "A previous pull was interrupted; this preview may be inaccurate".
Warned == fs["tmp"] # Absent \/ fs["old"] # Absent

\* The contents of leftovers that are no files of another tree as well.
Own ==
    {file[i].data : i \in Inodes(fs["partial"]) \
        UNION {Inodes(fs[s]) : s \in Sibling \ {"partial"}}}

Foreseen(m) ==
    [p \in Path |-> IF m[p] = Nil THEN Nil
                   ELSE Decision(LiveFiles, LeftoverIndex, m[p], p)]

DryRun(m) ==
    /\ pc = "idle"
    /\ plan' = [man |-> m, act |-> Foreseen(m),
                lost |-> fs["dest"] = Absent /\ fs["old"] # Absent, own |-> Own]
    /\ sure' = ~Warned
    /\ UNCHANGED vars

\* Where a pull is before it has made its decisions and their use.
Early == {"idle", "recover", "keep", "discard", "unshare", "dropPartial",
          "fetch", "local"}

\* Recoveries, failed attempts and kills in between are all part of the tale,
\* other programs are not.
Following == pc' \in Early /\ UNCHANGED edits

\* This is the first attempt, and it has not failed.
Undisturbed ==
    /\ UNCHANGED faults
    /\ attempt' = 0 \/ (attempt' = 1 /\ pc' \in {"fetch", "local"})

PreviewInit == Init /\ plan = NoPlan /\ sure = FALSE

PreviewNext ==
    \/ /\ Next
       /\ plan' = IF Following THEN plan ELSE NoPlan
       /\ sure' = (sure /\ Following /\ Undisturbed)
    \/ \E m \in Manifests : DryRun(m)

PreviewSpec == PreviewInit /\ [][PreviewNext]_<<vars, plan, sure>>

\* DryRun "classifies every entry with the same decision real staging uses",
\* long before recovery and staging change the disk it looked at.  Whatever
\* recoveries, failed attempts and kills come between, a pull of the manifest
\* links and copies exactly the entries the plan says, unless dest was missing
\* and recovery has put it back.  And if the dry run warned of nothing and
\* nothing failed since, what the pull takes from the partial tree is what the
\* plan says but for the files that unsharePartial gives up.
Foretold ==
    pc = "local" /\ plan.man = man =>
        \A p \in Path : man[p] # Nil =>
            /\ ~plan.lost /\ {Classify(p), plan.act[p]} \cap {"link", "copy"} # {}
               => Classify(p) = plan.act[p]
            /\ sure => (Classify(p) = "reuse" <=>
                           plan.act[p] = "reuse" /\ man[p].data \in plan.own)

-----------------------------------------------------------------------------
(* The invariant behind it.                                                *)

\* dest is missing only if it was missing when the plan was made, and has not
\* been put back.
DestKnown == ~plan.lost /\ fs["dest"] = Absent => fs["old"] = Absent

\* What dest has, as far as a decision depends on it.
InPlace(m, p) ==
    IF LiveFiles[p] = Nil \/ LiveFiles[p].data # m[p].data THEN "no"
    ELSE IF ~Windows /\ LiveFiles[p].mode # m[p].mode THEN "copy" ELSE "link"

\* Until the pull has hashed its trees, the disk is as the plan says.
DestAsPlanned ==
    ~plan.lost => \A p \in Path : plan.man[p] # Nil =>
        IF InPlace(plan.man, p) = "no" THEN plan.act[p] \in {"reuse", "download"}
        ELSE plan.act[p] = InPlace(plan.man, p)

\* A dry run that warned of nothing is followed by a recovery with nothing to
\* do but to give up second names.
PartialAsPlanned ==
    sure =>
        /\ fs["old"] = Absent /\ (pc # "local" => fs["tmp"] = Absent)
        /\ ~plan.lost
        /\ pc \in {"keep", "discard", "unshare", "dropPartial"} => attempt = 0
        /\ pc \notin {"discard", "dropPartial"}
        /\ pc # "local" => Own = plan.own
        /\ \A p \in Path : plan.man[p] # Nil /\ plan.man[p].data \in plan.own =>
              plan.act[p] # "download"

PlanOK ==
    plan.man # Nil =>
        /\ pc \in Early
        /\ plan.man \in Manifests
        /\ DestKnown /\ DestAsPlanned /\ PartialAsPlanned
        /\ Foretold
=============================================================================
