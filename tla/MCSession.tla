----------------------------- MODULE MCSession ------------------------------
(* Small instances of Session for TLC.                                     *)
EXTENDS SessionInv, SequencesExt, TLC

\* Command lines of every kind: what each flag and operand can do wrong.
MCLines ==
    [sub : {"push", "pull"}, given : SUBSET {"bucket", "adopt", "full", "dry-run"},
     bad : {{}, {"bucket"}}, operands : {1}, late : BOOLEAN]
    \cup
    [sub : {"prune", "pull", "status"}, given : {{"bucket"}, {"bucket", "apply"}},
     bad : {{}}, operands : 0..2, late : {FALSE}]
    \cup
    [sub : {"pull", "push"},
     given : {{"bucket", "region"} \cup f :
                 f \in {Required, Required \ {"ra-role-arn"}, {"ra-cert-field"}}}
             \cup {{"bucket"} \cup RAFlags},
     bad : {{}, {"ra-cert-field"}}, operands : {1}, late : {FALSE}]

\* The requests are alike.
Alike == Permutations(Request)

MCShelves == SeqOf(Cert, 3)

MCDefault == [manifest |-> 2, content |-> 2]

MCOptions ==
    [manifest : {0}, content : -1..MaxInt] \cup [manifest : {-1, 1}, content : {0}]

\* Any manifest will do.
MCLargest == {[manifest |-> MaxInt, content |-> MaxInt]}

MCManifests == [length : 1..3, sizes : SeqOf(0..MaxInt, 3)]
=============================================================================
