------------------------------ MODULE Session -------------------------------
(***************************************************************************)
(* One pinsync process around its transfers: the command line              *)
(* (cmd/pinsync/main.go), where credentials come from and how they stay    *)
(* fresh (pkg/awsclient, pkg/rolesanywhere), and the limits a manifest has *)
(* to keep (pkg/pull/pull.go).                                             *)
(*                                                                         *)
(* Handles are numbered: 0 is the certificate store, n its n-th identity.  *)
(***************************************************************************)
EXTENDS Integers, Sequences

CONSTANTS
    Lines,      \* command lines: [sub, given, bad, operands, late]
    Shelves,    \* what a certificate store may hold: sequences of Cert
    Lifetimes,  \* for how long a session can be granted
    Window,     \* raExpiryWindow
    Request,    \* the goroutines that send requests
    Options,    \* limits a caller may ask for: [manifest, content]
    Default,    \* DefaultMaxManifestBytes, DefaultMaxContentBytes
    Manifests,  \* what is published: [length, sizes]
    Attempts,   \* mismatchRetries
    MaxInt,     \* the largest int64
    MaxTime     \* bound on the clock

\* An identity whose leaf does not parse, or whose name matches or does not.
Cert == {"broken", "other", "match"}

ASSUME SessionAssumption ==
    /\ Shelves \subseteq Seq(Cert)
    /\ Window \in Nat /\ Lifetimes \subseteq Nat
    /\ \A t \in Lifetimes : t > Window
    /\ Attempts \in Nat \ {0}
    /\ MaxTime \in Nat /\ MaxInt \in Nat \ {0}
    /\ Options \subseteq [manifest : Int, content : Int]
    /\ \A o \in Options : o.manifest <= MaxInt /\ o.content <= MaxInt
    /\ Default \in [manifest : 1..MaxInt, content : 1..MaxInt]
    /\ Manifests \subseteq [length : 1..MaxInt, sizes : Seq(0..MaxInt)]

VARIABLES
    clock,
    line,       \* the command line
    phase,      \* how far the process is
    verdict,    \* why it ended
    source,     \* where its credentials come from
    cached,     \* when those of the CredentialsCache expire; 0 if it has none
    at,         \* each request: "idle", "waiting" for credentials or "sent"
    step,       \* where Provider.Retrieve is
    idents,     \* the identities FindIdentity goes through
    next,       \* which of them is its turn, and then the selected one
    open,       \* handles that are open
    misused,    \* history: a handle was closed that was not open
    limits,     \* the limits of the pull
    manifest,   \* the manifest it fetched
    counted,    \* how many of its sizes are added up
    total,      \* to what
    attempt     \* which sync of the pull it is

process == <<line, phase, verdict, source>>
creds == <<cached, at>>
retrieval == <<step, idents, next, open, misused>>
sizes == <<limits, manifest, counted, total, attempt>>
svars == <<clock, process, creds, retrieval, sizes>>

Phases == {"parse", "load", "options", "manifest", "sizes", "transfer", "ended"}

Steps == {"none", "open", "list", "scan", "identity", "create"}

Verdicts == {"none", "usage", "config", "region", "credentials", "options", "manifest limit",
             "not a manifest", "invalid manifest", "content limit", "mismatch", "request", "done"}

NoManifest == [length |-> 0, sizes |-> << >>]

SessionInit ==
    /\ clock = 0
    /\ line \in Lines /\ phase = "parse" /\ verdict = "none" /\ source = "none"
    /\ cached = 0 /\ at = [r \in Request |-> "idle"]
    /\ step = "none" /\ idents = << >> /\ next = 0 /\ open = {} /\ misused = FALSE
    /\ limits = Default /\ manifest = NoManifest /\ counted = 0 /\ total = 0
    /\ attempt = 1

End(v) == phase' = "ended" /\ verdict' = v /\ UNCHANGED <<line, source>>

-----------------------------------------------------------------------------
(* parseArgs: all of it before any store or AWS work.                      *)

Required == {"ra-trust-anchor-arn", "ra-profile-arn", "ra-role-arn", "ra-cert-pattern"}

RAFlags == Required \cup {"ra-cert-field", "ra-cert-store"}

FlagsOf(sub) ==
    {"bucket", "prefix", "manifest-key", "parallel", "region", "endpoint-url",
     "log-level", "log-format"}
        \cup CASE sub = "push"  -> {"dry-run", "full", "adopt"}
               [] sub = "pull"  -> {"dry-run"} \cup RAFlags
               [] sub = "prune" -> {"min-age", "apply"}

\* "any -ra-* flag explicitly passed (even the defaulted ones)"
RAMode(l) == l.given \cap RAFlags # {}

\* One operand (none for prune), no flag after it, every value well formed.
Accepts(l) ==
    /\ l.sub \in {"push", "pull", "prune"}
    /\ l.given \subseteq FlagsOf(l.sub) /\ l.bad = {}
    /\ ~l.late /\ "bucket" \in l.given
    /\ l.operands = IF l.sub = "prune" THEN 0 ELSE 1
    /\ ~({"adopt", "full"} \subseteq l.given)
    /\ RAMode(l) => Required \subseteq l.given

Parse ==
    /\ phase = "parse"
    /\ IF Accepts(line) THEN phase' = "load" /\ UNCHANGED <<line, verdict, source>>
       ELSE End("usage")
    /\ UNCHANGED <<clock, creds, retrieval, sizes>>

-----------------------------------------------------------------------------
(* Load: the default chain, or Roles Anywhere.                             *)

\* execute: only a pull has limits.
Loaded == IF line.sub = "pull" THEN "options" ELSE "transfer"

LoadDefault ==
    /\ phase = "load" /\ ~RAMode(line)
    /\ \/ source' = "default" /\ phase' = Loaded /\ UNCHANGED <<line, verdict>>
       \/ End("config")
    /\ UNCHANGED <<clock, creds, retrieval, sizes>>

\* raRegion: -region, or else the trust anchor's, which may carry none.
LoadRefused ==
    /\ phase = "load" /\ source = "none" /\ RAMode(line) /\ "region" \notin line.given
    /\ End("region")
    /\ UNCHANGED <<clock, creds, retrieval, sizes>>

\* The first Retrieve of the cache, "before any transfer starts".
LoadRolesAnywhere ==
    /\ phase = "load" /\ source = "none" /\ RAMode(line)
    /\ source' = "rolesanywhere"
    /\ step' = "open"
    /\ UNCHANGED <<clock, line, phase, verdict, creds, idents, next, open, misused, sizes>>

-----------------------------------------------------------------------------
(* FindIdentity.                                                           *)

Close(handles) ==
    /\ open' = open \ handles
    /\ misused' = (misused \/ ~(handles \subseteq open))

\* The error of a retrieval is the error of the process, at once or through
\* the requests that wait for it; none may, when an attempt was given up.
RetrievalFails ==
    /\ step' = "none" /\ idents' = << >> /\ next' = 0
    /\ IF phase = "load" \/ \E r \in Request : at[r] = "waiting"
       THEN End("credentials")
       ELSE UNCHANGED process
    /\ UNCHANGED <<clock, creds, sizes>>

OpenStore ==
    /\ step = "open"
    /\ step' = "list" /\ open' = open \cup {0}
    /\ UNCHANGED <<clock, process, creds, idents, next, misused, sizes>>

OpenFails ==
    /\ step = "open"
    /\ RetrievalFails /\ UNCHANGED <<open, misused>>

Identities ==
    /\ step = "list"
    /\ \E s \in Shelves : idents' = s /\ open' = open \cup 1..Len(s)
    /\ step' = "scan" /\ next' = 1
    /\ UNCHANGED <<clock, process, creds, misused, sizes>>

\* defer store.Close()
IdentitiesFail ==
    /\ step = "list"
    /\ Close({0}) /\ RetrievalFails

\* Mutant of Reject: the identity whose leaf does not parse stays open.
RejectUnclosed ==
    /\ step = "scan" /\ next <= Len(idents) /\ idents[next] # "match"
    /\ Close(IF idents[next] = "broken" THEN {} ELSE {next})
    /\ next' = next + 1
    /\ UNCHANGED <<clock, process, creds, step, idents, sizes>>

Reject ==
    /\ step = "scan" /\ next <= Len(idents) /\ idents[next] # "match"
    /\ Close({next}) /\ next' = next + 1
    /\ UNCHANGED <<clock, process, creds, step, idents, sizes>>

\* "Hand this identity to the caller; close the ones we rejected."
Select ==
    /\ step = "scan" /\ next <= Len(idents) /\ idents[next] = "match"
    /\ Close({0} \cup (next + 1)..Len(idents))
    /\ step' = "identity"
    /\ UNCHANGED <<clock, process, creds, idents, next, sizes>>

NoMatch ==
    /\ step = "scan" /\ next > Len(idents)
    /\ Close({0}) /\ RetrievalFails

-----------------------------------------------------------------------------
(* Fetch, and the cache around it.                                         *)

\* Leaf, chain and signer of the identity; RSA and ECDSA keys can sign.
Sign ==
    /\ step = "identity"
    /\ step' = "create"
    /\ UNCHANGED <<clock, process, creds, idents, next, open, misused, sizes>>

\* Any of them, CreateSession, or an answer without usable credentials.
FetchFails ==
    /\ step \in {"identity", "create"}
    /\ Close({next}) /\ RetrievalFails

\* toCredentials: the session, for all who wait.  The first one still has to go
\* into a configuration that loads.
Fetched ==
    /\ step = "create"
    /\ \E t \in Lifetimes : cached' = clock + t
    /\ at' = [r \in Request |-> IF at[r] = "waiting" THEN "sent" ELSE at[r]]
    /\ \/ phase' = (IF phase = "load" THEN Loaded ELSE phase) /\ UNCHANGED <<line, verdict, source>>
       \/ phase = "load" /\ End("config")
    /\ Close({next})
    /\ step' = "none" /\ idents' = << >> /\ next' = 0
    /\ UNCHANGED <<clock, sizes>>

\* Mutant of Fresh: credentials are used to the end.
FreshToTheEnd == source = "default" \/ cached > clock

\* What the cache holds does not expire within raExpiryWindow.  The default
\* chain looks after itself.
Fresh == source = "default" \/ cached > clock + Window

\* pull asks for the manifest first, then for many objects at once.
MaySend(r) ==
    /\ at[r] = "idle"
    /\ \/ phase = "transfer"
       \/ phase = "manifest" /\ \A s \in Request : at[s] = "idle"

Send(r) ==
    /\ MaySend(r)
    /\ at' = [at EXCEPT ![r] = IF Fresh THEN "sent" ELSE "waiting"]
    /\ UNCHANGED <<clock, process, cached, retrieval, sizes>>

\* One retrieval for all requests that miss.
Refresh ==
    /\ step = "none" /\ phase # "ended"
    /\ \E r \in Request : at[r] = "waiting"
    /\ step' = "open"
    /\ UNCHANGED <<clock, process, creds, idents, next, open, misused, sizes>>

\* An object, or an error that ends the process.
Answered(r) ==
    /\ phase = "transfer" /\ at[r] = "sent"
    /\ at' = [at EXCEPT ![r] = "idle"]
    /\ UNCHANGED <<clock, process, cached, retrieval, sizes>>

RequestFails(r) ==
    /\ phase \in {"manifest", "transfer"} /\ at[r] = "sent"
    /\ End("request")
    /\ UNCHANGED <<clock, creds, retrieval, sizes>>

-----------------------------------------------------------------------------
(* The limits.                                                             *)

Wrap(n) == ((n + MaxInt + 1) % (2 * (MaxInt + 1))) - (MaxInt + 1)

\* io.LimitReader: how much of a body is read; nothing under a limit below 1.
ReadUpTo(n, length) == IF n < 1 THEN 0 ELSE IF length < n THEN length ELSE n

Effective(asked, default) == IF asked = 0 THEN default ELSE asked

NewSyncer ==
    /\ phase = "options"
    /\ \E o \in Options :
          IF o.manifest < 0 \/ o.content < 0
          THEN End("options") /\ UNCHANGED limits
          ELSE /\ limits' = [manifest |-> Effective(o.manifest, Default.manifest),
                             content |-> Effective(o.content, Default.content)]
               /\ phase' = "manifest" /\ UNCHANGED <<line, verdict, source>>
    /\ UNCHANGED <<clock, creds, retrieval, manifest, counted, total, attempt>>

\* Part of a manifest does not decode; nor may what was published.  A dry run
\* ends with its plan.
FetchManifest(r) ==
    /\ phase = "manifest" /\ at[r] = "sent"
    /\ at' = [at EXCEPT ![r] = "idle"]
    /\ \E m \in Manifests :
          LET read == ReadUpTo(Wrap(limits.manifest + 1), m.length)
          IN  /\ manifest' = m
              /\ \/ read > limits.manifest /\ End("manifest limit")
                 \/ read <= limits.manifest /\ read # m.length /\ End("not a manifest")
                 \/ /\ read <= limits.manifest /\ read = m.length
                    /\ \/ End("invalid manifest")
                       \/ "dry-run" \in line.given /\ End("done")
                       \/ /\ "dry-run" \notin line.given
                          /\ phase' = "sizes" /\ UNCHANGED <<line, verdict, source>>
    /\ UNCHANGED <<clock, cached, retrieval, limits, counted, total, attempt>>

\* Mutants of Exceeds: the sum is compared after the addition; the limit itself
\* is too much.
ExceedsAfter(size) == Wrap(total + size) > limits.content

ExceedsAtLimit(size) == size >= Wrap(limits.content - total)

\* "comparing before adding keeps the sum from overflowing"
Exceeds(size) == size > Wrap(limits.content - total)

\* checkContentSize
CountSize ==
    /\ phase = "sizes" /\ counted < Len(manifest.sizes)
    /\ LET size == manifest.sizes[counted + 1]
       IN  IF Exceeds(size)
           THEN End("content limit") /\ UNCHANGED <<counted, total>>
           ELSE /\ counted' = counted + 1 /\ total' = Wrap(total + size)
                /\ UNCHANGED process
    /\ UNCHANGED <<clock, creds, retrieval, limits, manifest, attempt>>

SizesCounted ==
    /\ phase = "sizes" /\ counted = Len(manifest.sizes)
    /\ phase' = "transfer"
    /\ manifest' = NoManifest /\ counted' = 0 /\ total' = 0
    /\ UNCHANGED <<clock, line, verdict, source, creds, retrieval, limits, attempt>>

\* Something staged is not what the manifest says.  The other requests of the
\* attempt are given up, not a retrieval they waited for; the manifest is
\* fetched anew, and its sizes counted anew, under the same limits.
Mismatch ==
    /\ phase = "transfer" /\ line.sub = "pull"
    /\ IF attempt < Attempts
       THEN /\ attempt' = attempt + 1 /\ at' = [r \in Request |-> "idle"]
            /\ phase' = "manifest" /\ UNCHANGED <<line, verdict, source>>
       ELSE End("mismatch") /\ UNCHANGED <<attempt, at>>
    /\ UNCHANGED <<clock, cached, retrieval, limits, manifest, counted, total>>

-----------------------------------------------------------------------------
(* The process.                                                            *)

Done ==
    /\ phase = "transfer" /\ step = "none" /\ \A r \in Request : at[r] = "idle"
    /\ End("done")
    /\ UNCHANGED <<clock, creds, retrieval, sizes>>

Tick ==
    /\ phase # "ended" /\ clock < MaxTime
    /\ clock' = clock + 1
    /\ UNCHANGED <<process, creds, retrieval, sizes>>

FindIdentity ==
    \/ OpenStore \/ OpenFails \/ Identities \/ IdentitiesFail
    \/ Reject \/ Select \/ NoMatch

Retrieve ==
    /\ phase # "ended"
    /\ FindIdentity \/ Sign \/ FetchFails \/ Fetched

SessionNext ==
    \/ Parse \/ LoadDefault \/ LoadRefused \/ LoadRolesAnywhere
    \/ Retrieve \/ Refresh
    \/ \E r \in Request : Send(r) \/ Answered(r) \/ RequestFails(r) \/ FetchManifest(r)
    \/ NewSyncer \/ CountSize \/ SizesCounted \/ Mismatch
    \/ Done \/ Tick

SessionSpec == SessionInit /\ [][SessionNext]_svars
=============================================================================
