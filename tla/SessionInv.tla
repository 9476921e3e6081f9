----------------------------- MODULE SessionInv -----------------------------
(***************************************************************************)
(* What must hold of a pinsync process around its transfers.               *)
(***************************************************************************)
EXTENDS Session

ProcessTyped ==
    /\ clock \in Nat /\ cached \in Nat
    /\ line \in Lines /\ phase \in Phases /\ verdict \in Verdicts
    /\ source \in {"none", "default", "rolesanywhere"}
    /\ at \in [Request -> {"idle", "waiting", "sent"}]

HandlesTyped ==
    /\ step \in Steps /\ idents \in Seq(Cert)
    /\ next \in 0..Len(idents) + 1 /\ open \subseteq 0..Len(idents)
    /\ misused \in BOOLEAN

LimitsTyped ==
    /\ limits \in [manifest : 1..MaxInt, content : 1..MaxInt]
    /\ manifest \in [length : 0..MaxInt, sizes : Seq(0..MaxInt)]
    /\ counted \in 0..Len(manifest.sizes) /\ total \in 0..limits.content
    /\ attempt \in 1..Attempts

\* Every variable keeps its type, a handle that is open is the store's or that
\* of an identity that was listed, and the sum of the sizes never overflows.
SessionTypeOK == ProcessTyped /\ HandlesTyped /\ LimitsTyped

\* "The caller owns the returned Identity and must Close() it; every other
\* identity is closed here": whatever fails, a retrieval leaves no handle of the
\* certificate store or of an identity open and closes none twice; what it
\* exchanges is the first certificate that matches, still open, and alone so.
HandlesBalanced ==
    /\ ~misused
    /\ step = "none" => open = {}
    /\ step \in {"identity", "create"} =>
          /\ open = {next} /\ idents[next] = "match"
          /\ \A i \in 1..(next - 1) : idents[i] # "match"

\* A command line that names Roles Anywhere never falls back on the default
\* chain, and no request is signed with credentials about to lapse
\* (raExpiryWindow), however long the process runs.
SignedAsAsked ==
    [][ \A r \in Request :
          at[r] # "sent" /\ at'[r] = "sent" =>
             /\ source = "rolesanywhere" <=> line.given \cap RAFlags # {}
             /\ source = "rolesanywhere" => cached' > clock + Window ]_svars

\* The sums of the first n sizes, as integers, for every n.
Sums(s) ==
    LET f[n \in 0..Len(s)] == IF n = 0 THEN 0 ELSE f[n - 1] + s[n]
    IN  f

Sum(s) == Sums(s)[Len(s)]

\* MaxContentBytes caps "the total size the manifest declares": a pull goes on
\* exactly when the true sum is within it, also where the sum is no int64.
SizesExact ==
    [][ phase = "sizes" /\ phase' # "sizes" =>
          (phase' = "transfer" <=> Sum(manifest.sizes) <= limits.content) ]_svars

\* "MaxManifestBytes caps the manifest read", "0 means DefaultMaxManifestBytes,
\* negative is an error": any other limit lets a manifest pass that is no longer.
CapIsACap ==
    verdict \in {"manifest limit", "not a manifest"} =>
        manifest.length > limits.manifest
-----------------------------------------------------------------------------
(* The inductive invariant.                                                *)

\* Which handles are open at each step of a retrieval.
RetrievalOK ==
    /\ ~misused
    /\ step \in {"none", "open"} => open = {}
    /\ step = "list" => open = {0}
    /\ step = "scan" =>
          /\ next >= 1 /\ open = {0} \cup next..Len(idents)
          /\ \A i \in 1..(next - 1) : idents[i] # "match"
    /\ step \in {"identity", "create"} =>
          /\ next \in 1..Len(idents) /\ open = {next} /\ idents[next] = "match"
          /\ \A i \in 1..(next - 1) : idents[i] # "match"

\* What has been loaded is what was asked for, and only then requests are sent.
SourceOK ==
    /\ source = "rolesanywhere" => RAMode(line)
    /\ source = "default" => ~RAMode(line)
    /\ phase \in {"options", "manifest", "sizes", "transfer"} => source # "none"
    /\ phase = "parse" => step = "none"
    /\ phase = "load" /\ step # "none" => source = "rolesanywhere"
    /\ phase \in {"parse", "load", "options"} => \A r \in Request : at[r] # "waiting"
    /\ phase \in {"parse", "load", "options", "manifest", "transfer"} => counted = 0 /\ total = 0

SessionIInv == SessionTypeOK /\ RetrievalOK /\ SourceOK

\* A pull asks for its manifest alone, and for nothing while it counts.
AloneOK ==
    /\ phase \in {"parse", "load", "options", "sizes"} => \A r \in Request : at[r] = "idle"
    /\ phase \in {"options", "sizes"} => step = "none"
    /\ phase = "manifest" =>
          /\ \A r, s \in Request : at[r] # "idle" /\ at[s] # "idle" => r = s
          /\ step # "none" => \A r \in Request : at[r] # "sent"

\* A retrieval runs, or is waited for, only while there is nothing fresh: none
\* starts before the credentials lapse, and its own end the wait.
StaleOK ==
    /\ source = "none" => cached = 0
    /\ step # "none" \/ (\E r \in Request : at[r] = "waiting") => ~Fresh

\* The int64 is the integer so far.
SumOK == phase = "sizes" => total = Sums(manifest.sizes)[counted]

CountIInv == SessionIInv /\ AloneOK /\ StaleOK /\ SumOK
=============================================================================
