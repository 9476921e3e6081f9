---------------------------- MODULE SessionProofs ----------------------------
(***************************************************************************)
(* Proofs about a pinsync process around its transfers: handles, sources   *)
(* of credentials, lapses and the sum of the sizes, for certificate stores *)
(* of any size, any number of requests and any limits.                     *)
(***************************************************************************)
EXTENDS SessionInv, WellFoundedInduction, TLAPS

\* An integer an int64 can hold is not changed.
LEMMA Wraps ==
    ASSUME NEW n \in (-(MaxInt + 1))..MaxInt
    PROVE  Wrap(n) = n
<1>1. MaxInt \in Nat
  BY SessionAssumption
<1>2. \A a, b \in Nat : a < b => a % b = a
  OBVIOUS
<1>3. n + MaxInt + 1 \in Nat /\ n + MaxInt + 1 < 2 * (MaxInt + 1)
  BY <1>1
<1>. QED BY <1>1, <1>2, <1>3 DEF Wrap

-----------------------------------------------------------------------------
(* Sums.  The recursive definition is shown to have a solution by looking  *)
(* at the least length that has none: for that, the order of the naturals  *)
(* has to be a relation, and a well-founded one.                           *)

LEMMA Less ==
    \E R : IsWellFoundedOn(R, Nat) /\ \A x, y \in Nat : <<x, y>> \in R <=> x < y
<1>. DEFINE R == OpToRel(<, Nat)
<1>1. IsWellFoundedOn(R, Nat)
  BY NatLessThanWellFounded, Zenon
<1>2. \A x, y \in Nat : <<x, y>> \in R <=> x < y
  BY DEF OpToRel
<1>. HIDE DEF R
<1>. QED BY <1>1, <1>2

\* A set of naturals that is not empty has a least member.
LEMMA Least ==
    ASSUME NEW T, T \subseteq Nat, T # {}
    PROVE  \E x \in T : \A y \in T : x <= y
<1>1. PICK R : IsWellFoundedOn(R, Nat) /\ \A x, y \in Nat : <<x, y>> \in R <=> x < y
  BY Less
<1>2. PICK x \in T : \A y \in T : <<y, x>> \notin R
  <2>1. IsWellFoundedOn(R, Nat)
    BY <1>1
  <2>. QED BY <2>1, WFMin, Zenon
<1>3. ASSUME NEW y \in T PROVE x <= y
  <2>1. ~(y < x) /\ x \in Nat /\ y \in Nat
    BY <1>1, <1>2
  <2>. QED BY <2>1
<1>. QED BY <1>3

\* The sums of the first 0, 1, ..., k members exist.
LEMMA SumsExist ==
    ASSUME NEW s \in Seq(Nat)
    PROVE  \A k \in 0..Len(s) :
              \E g \in [0..k -> Nat] :
                 g[0] = 0 /\ \A n \in 1..k : g[n] = g[n - 1] + s[n]
<1>. DEFINE Has(k) == \E g \in [0..k -> Nat] :
                         g[0] = 0 /\ \A n \in 1..k : g[n] = g[n - 1] + s[n]
            T == {k \in 0..Len(s) : ~Has(k)}
<1>1. SUFFICES ASSUME T # {} PROVE FALSE
  OBVIOUS
<1>2. Len(s) \in Nat
  OBVIOUS
<1>3. PICK k \in T : \A j \in T : k <= j
  <2>1. T \subseteq Nat
    BY <1>2
  <2>. HIDE DEF T
  <2>. QED BY <1>1, <2>1, Least
<1>4. k \in 0..Len(s) /\ ~Has(k)
  OBVIOUS
<1>5. CASE k = 0
  <2>. DEFINE g == [n \in 0..0 |-> 0]
  <2>1. g \in [0..0 -> Nat] /\ g[0] = 0 /\ 1..0 = {}
    OBVIOUS
  <2>2. Has(0)
    BY <2>1
  <2>. QED BY <1>4, <1>5, <2>2
<1>6. CASE k # 0
  <2>1. k - 1 \in 0..Len(s) /\ k \in 1..Len(s) /\ ~(k <= k - 1)
    BY <1>2, <1>4, <1>6
  <2>2. Has(k - 1)
    BY <1>3, <2>1
  <2>3. PICK h \in [0..(k - 1) -> Nat] :
           h[0] = 0 /\ \A n \in 1..(k - 1) : h[n] = h[n - 1] + s[n]
    BY <2>2
  <2>. DEFINE g == [n \in 0..k |-> IF n = k THEN h[k - 1] + s[k] ELSE h[n]]
  <2>4. s[k] \in Nat /\ h[k - 1] \in Nat
    BY <2>1
  <2>5. \A n \in 0..k : n # k => n \in 0..(k - 1)
    BY <2>1
  <2>6. g \in [0..k -> Nat]
    BY <2>4, <2>5
  <2>7. g[0] = 0
    BY <2>1, <2>3
  <2>8. ASSUME NEW n \in 1..k PROVE g[n] = g[n - 1] + s[n]
    <3>1. n \in 0..k /\ n - 1 \in 0..k /\ n - 1 # k
      BY <2>1
    <3>2. g[n - 1] = h[n - 1]
      BY <3>1
    <3>3. CASE n = k
      BY <3>1, <3>2, <3>3
    <3>4. CASE n # k
      <4>1. n \in 1..(k - 1) /\ g[n] = h[n]
        BY <2>1, <3>1, <3>4
      <4>. QED BY <2>3, <3>2, <4>1
    <3>. QED BY <3>3, <3>4
  <2>9. Has(k)
    <3>. HIDE DEF g
    <3>. QED BY <2>6, <2>7, <2>8
  <2>. QED BY <1>4, <2>9
<1>. QED BY <1>5, <1>6

\* What the recursive definition says.
LEMMA SumsStep ==
    ASSUME NEW s \in Seq(Nat)
    PROVE  /\ Sums(s) \in [0..Len(s) -> Nat]
           /\ Sums(s)[0] = 0
           /\ \A n \in 1..Len(s) : Sums(s)[n] = Sums(s)[n - 1] + s[n]
<1>. DEFINE Of(f) == [n \in 0..Len(s) |-> IF n = 0 THEN 0 ELSE f[n - 1] + s[n]]
<1>1. Len(s) \in Nat
  OBVIOUS
<1>2. PICK g \in [0..Len(s) -> Nat] :
         g[0] = 0 /\ \A n \in 1..Len(s) : g[n] = g[n - 1] + s[n]
  <2>1. Len(s) \in 0..Len(s)
    BY <1>1
  <2>. QED BY <2>1, SumsExist, Zenon
<1>3. g = Of(g)
  <2>1. \A n \in 0..Len(s) : n # 0 => n \in 1..Len(s)
    BY <1>1
  <2>2. \A n \in 0..Len(s) : g[n] = Of(g)[n]
    BY <1>2, <2>1
  <2>. QED BY <2>2
<1>4. Sums(s) = CHOOSE f : f = Of(f)
  BY DEF Sums
<1>5. Sums(s) = Of(Sums(s))
  <2>. HIDE DEF Of
  <2>. QED BY <1>3, <1>4
<1>6. ASSUME NEW n \in 0..Len(s) PROVE Sums(s)[n] = g[n]
  <2>. DEFINE T == {k \in 0..Len(s) : Sums(s)[k] # g[k]}
  <2>1. SUFFICES ASSUME T # {} PROVE FALSE
    OBVIOUS
  <2>2. PICK k \in T : \A j \in T : k <= j
    <3>1. T \subseteq Nat
      BY <1>1
    <3>. HIDE DEF T
    <3>. QED BY <2>1, <3>1, Least
  <2>3. Sums(s)[k] = IF k = 0 THEN 0 ELSE Sums(s)[k - 1] + s[k]
    BY <1>5
  <2>4. CASE k = 0
    BY <1>2, <2>3, <2>4
  <2>5. CASE k # 0
    <3>1. k \in 1..Len(s) /\ k - 1 \in 0..Len(s) /\ ~(k <= k - 1)
      BY <1>1, <2>5
    <3>2. Sums(s)[k - 1] = g[k - 1]
      BY <2>2, <3>1
    <3>. QED BY <1>2, <2>3, <3>1, <3>2
  <2>. QED BY <2>4, <2>5
<1>7. Sums(s) = g
  <2>1. DOMAIN Sums(s) = 0..Len(s) /\ Sums(s) = [n \in 0..Len(s) |-> Sums(s)[n]]
    BY <1>5
  <2>. QED BY <1>6, <2>1
<1>. QED BY <1>2, <1>7

\* A longer sum is no smaller.
LEMMA SumsGrow ==
    ASSUME NEW s \in Seq(Nat), NEW n \in 0..Len(s)
    PROVE  Sums(s)[n] <= Sum(s)
<1>. DEFINE T == {m \in n..Len(s) : ~(Sums(s)[n] <= Sums(s)[m])}
<1>1. Len(s) \in Nat /\ n \in Nat
  OBVIOUS
<1>2. SUFFICES ASSUME T # {} PROVE FALSE
  BY <1>1 DEF Sum
<1>3. PICK m \in T : \A j \in T : m <= j
  <2>1. T \subseteq Nat
    BY <1>1
  <2>. HIDE DEF T
  <2>. QED BY <1>2, <2>1, Least
<1>4. Sums(s) \in [0..Len(s) -> Nat]
  BY SumsStep
<1>5. m # n
  BY <1>1, <1>4
<1>6. m \in 1..Len(s) /\ m - 1 \in n..Len(s) /\ ~(m <= m - 1)
  BY <1>1, <1>5
<1>7. Sums(s)[n] <= Sums(s)[m - 1]
  BY <1>3, <1>6
<1>8. Sums(s)[m] = Sums(s)[m - 1] + s[m] /\ s[m] \in Nat
  BY <1>6, SumsStep
<1>9. Sums(s)[m - 1] \in Nat /\ Sums(s)[n] \in Nat
  <2>1. m - 1 \in 0..Len(s)
    BY <1>1, <1>6
  <2>. QED BY <1>4, <2>1
<1>. QED BY <1>7, <1>8, <1>9

-----------------------------------------------------------------------------
(* The start.                                                              *)

LEMMA InitHolds == SessionInit => SessionIInv
<1>. SUFFICES ASSUME SessionInit PROVE SessionIInv
  OBVIOUS
<1>1. ProcessTyped
  BY DEF SessionInit, ProcessTyped, Phases, Verdicts
<1>2. HandlesTyped
  <2>1. idents \in Seq(Cert) /\ Len(idents) = 0
    BY DEF SessionInit
  <2>2. misused \in BOOLEAN
    BY DEF SessionInit
  <2>3. next \in 0..Len(idents) + 1 /\ open \subseteq 0..Len(idents) /\ step \in Steps
    BY <2>1 DEF SessionInit, Steps
  <2>. QED BY <2>1, <2>2, <2>3 DEF HandlesTyped
<1>3. LimitsTyped
  <2>1. NoManifest \in [length : 0..MaxInt, sizes : Seq(0..MaxInt)]
    BY SessionAssumption DEF NoManifest
  <2>2. Len(NoManifest.sizes) = 0
    BY DEF NoManifest
  <2>3. Default \in [manifest : 1..MaxInt, content : 1..MaxInt] /\ MaxInt \in Nat
    BY SessionAssumption
  <2>4. attempt \in 1..Attempts
    BY SessionAssumption DEF SessionInit
  <2>. QED BY <2>1, <2>2, <2>3, <2>4 DEF SessionInit, LimitsTyped
<1>4. RetrievalOK
  BY DEF SessionInit, RetrievalOK
<1>5. SourceOK
  BY DEF SessionInit, SourceOK
<1>. QED BY <1>1, <1>2, <1>3, <1>4, <1>5 DEF SessionIInv, SessionTypeOK

-----------------------------------------------------------------------------
(* A retrieval.                                                            *)

\* A step of FindIdentity or of Fetch, seen from the handles.
LEMMA HandlesKept ==
    ASSUME HandlesTyped, RetrievalOK, FindIdentity \/ Sign \/ FetchFails \/ Fetched
    PROVE  HandlesTyped' /\ RetrievalOK'
<1>. USE DEF HandlesTyped, RetrievalOK, Steps
<1>1. Len(idents) \in Nat /\ next \in Nat
  OBVIOUS
<1>2. CASE OpenStore
  <2>1. open' = {0} /\ step' = "list" /\ UNCHANGED <<idents, next, misused>> /\ ~misused
    BY <1>2 DEF OpenStore
  <2>2. HandlesTyped'
    BY <1>1, <2>1
  <2>. QED BY <2>1, <2>2
<1>3. CASE Identities
  <2>1. PICK s \in Shelves : idents' = s /\ open' = open \cup 1..Len(s)
    BY <1>3 DEF Identities
  <2>2. s \in Seq(Cert) /\ Len(s) \in Nat
    BY SessionAssumption
  <2>3. open = {0} /\ ~misused' /\ next' = 1 /\ step' = "scan"
    BY <1>3 DEF Identities
  <2>4. open' = {0} \cup 1..Len(s) /\ 1..(1 - 1) = {}
    BY <2>1, <2>2, <2>3
  <2>5. HandlesTyped'
    <3>1. next' \in 0..Len(s) + 1 /\ open' \subseteq 0..Len(s)
      BY <2>2, <2>3, <2>4
    <3>2. misused' \in BOOLEAN
      BY <1>3 DEF Identities
    <3>. QED BY <2>1, <2>2, <2>3, <3>1, <3>2
  <2>6. next' >= 1 /\ open' = {0} \cup next'..Len(idents') /\ 1..(next' - 1) = {}
    BY <2>1, <2>3, <2>4
  <2>. QED BY <2>3, <2>5, <2>6
<1>4. CASE Reject
  <2>1. next \in 1..Len(idents) /\ open = {0} \cup next..Len(idents) /\ ~misused
    BY <1>1, <1>4 DEF Reject
  <2>2. open' = {0} \cup (next + 1)..Len(idents) /\ ~misused'
    BY <1>1, <1>4, <2>1 DEF Reject, Close
  <2>3. \A i \in 1..(next' - 1) : idents[i] # "match"
    BY <1>1, <1>4, <2>1 DEF Reject
  <2>4. step' = "scan" /\ next' = next + 1 /\ UNCHANGED idents
    BY <1>4 DEF Reject
  <2>5. HandlesTyped'
    <3>1. next + 1 \in 0..Len(idents) + 1 /\ open' \subseteq 0..Len(idents)
      BY <1>1, <2>1, <2>2
    <3>2. misused' \in BOOLEAN
      BY <1>4 DEF Reject, Close
    <3>. QED BY <2>2, <2>4, <3>1, <3>2
  <2>6. next' >= 1 /\ open' = {0} \cup next'..Len(idents')
    BY <1>1, <2>2, <2>4
  <2>. QED BY <2>2, <2>3, <2>4, <2>5, <2>6
<1>5. CASE Select
  <2>1. next \in 1..Len(idents) /\ open = {0} \cup next..Len(idents) /\ ~misused
    BY <1>1, <1>5 DEF Select
  <2>2. open' = {next} /\ ~misused'
    BY <1>1, <1>5, <2>1 DEF Select, Close
  <2>3. step' = "identity" /\ UNCHANGED <<idents, next>> /\ idents[next] = "match"
    BY <1>5 DEF Select
  <2>4. \A i \in 1..(next - 1) : idents[i] # "match"
    BY <1>5 DEF Select
  <2>5. HandlesTyped'
    <3>1. open' \subseteq 0..Len(idents)
      BY <1>1, <2>1, <2>2
    <3>2. misused' \in BOOLEAN
      BY <1>5 DEF Select, Close
    <3>. QED BY <2>2, <2>3, <3>1, <3>2
  <2>. QED BY <2>1, <2>2, <2>3, <2>4, <2>5
<1>6. CASE Sign
  BY <1>6 DEF Sign
<1>7. CASE OpenFails \/ IdentitiesFail \/ NoMatch \/ FetchFails \/ Fetched
  <2>1. step' = "none" /\ idents' = << >> /\ next' = 0
    BY <1>7 DEF OpenFails, IdentitiesFail, NoMatch, FetchFails, Fetched, RetrievalFails
  <2>2. CASE OpenFails
    BY <2>1, <2>2 DEF OpenFails
  <2>3. CASE IdentitiesFail
    BY <2>1, <2>3 DEF IdentitiesFail, Close
  <2>4. CASE NoMatch
    <3>1. open = {0} /\ ~misused
      BY <1>1, <2>4 DEF NoMatch
    <3>. QED BY <2>1, <2>4, <3>1 DEF NoMatch, Close
  <2>5. CASE FetchFails \/ Fetched
    <3>1. open = {next} /\ ~misused
      BY <2>5 DEF FetchFails, Fetched
    <3>. QED BY <2>1, <2>5, <3>1 DEF FetchFails, Fetched, Close
  <2>. QED BY <1>7, <2>2, <2>3, <2>4, <2>5
<1>. QED BY <1>2, <1>3, <1>4, <1>5, <1>6, <1>7 DEF FindIdentity

LEMMA RetrieveStep ==
    ASSUME SessionIInv, Retrieve
    PROVE  SessionIInv'
<1>. USE DEF SessionIInv, SessionTypeOK
<1>1. HandlesTyped' /\ RetrievalOK'
  BY HandlesKept DEF Retrieve
<1>2. LimitsTyped'
  BY DEF Retrieve, FindIdentity, OpenStore, OpenFails, Identities, IdentitiesFail,
         Reject, Select, NoMatch, Sign, FetchFails, Fetched, RetrievalFails,
         LimitsTyped, sizes
<1>3. CASE Fetched
  <2>1. cached' \in Nat
    <3>1. PICK t \in Lifetimes : cached' = clock + t
      BY <1>3 DEF Fetched
    <3>. QED BY <3>1, SessionAssumption DEF ProcessTyped
  <2>2. ProcessTyped'
    BY <1>3, <2>1 DEF ProcessTyped, Fetched, End, Loaded, Phases, Verdicts
  <2>3. SourceOK'
    <3>1. /\ phase # "ended" /\ step = "create" /\ step' = "none"
          /\ phase' \in {IF phase = "load" THEN Loaded ELSE phase, "ended"}
          /\ UNCHANGED <<line, source, counted, total>>
          /\ \A r \in Request : at'[r] # "waiting"
      BY <1>3 DEF Fetched, End, Retrieve, sizes, ProcessTyped
    <3>2. Loaded \in {"options", "transfer"}
      BY DEF Loaded
    <3>. QED BY <3>1, <3>2 DEF SourceOK
  <2>. QED BY <1>1, <1>2, <2>2, <2>3
<1>4. CASE OpenFails \/ IdentitiesFail \/ NoMatch \/ FetchFails
  <2>1. RetrievalFails
    BY <1>4 DEF OpenFails, IdentitiesFail, NoMatch, FetchFails
  <2>2. /\ UNCHANGED <<clock, line, source, creds, sizes>> /\ step' = "none"
        /\ \/ phase' = "ended" /\ verdict' = "credentials"
           \/ phase' = phase /\ verdict' = verdict /\ phase # "load"
    BY <2>1 DEF RetrievalFails, End, process
  <2>3. ProcessTyped'
    BY <2>2 DEF ProcessTyped, creds, Phases, Verdicts
  <2>4. SourceOK'
    BY <2>2 DEF SourceOK, creds, sizes
  <2>. QED BY <1>1, <1>2, <2>3, <2>4
<1>5. CASE OpenStore \/ Identities \/ Reject \/ Select \/ Sign
  <2>1. UNCHANGED <<clock, process, creds>> /\ step # "none"
    BY <1>5 DEF OpenStore, Identities, Reject, Select, Sign
  <2>2. ProcessTyped'
    BY <2>1 DEF ProcessTyped, process, creds
  <2>3. SourceOK'
    BY <1>5, <2>1 DEF SourceOK, process, creds, OpenStore, Identities, Reject, Select,
                      Sign, sizes
  <2>. QED BY <1>1, <1>2, <2>2, <2>3
<1>. QED
  BY <1>3, <1>4, <1>5 DEF Retrieve, FindIdentity

-----------------------------------------------------------------------------
(* The process around it.                                                  *)

LEMMA SameHandles ==
    ASSUME SessionIInv, UNCHANGED retrieval
    PROVE  HandlesTyped' /\ RetrievalOK'
BY DEF SessionIInv, SessionTypeOK, HandlesTyped, RetrievalOK, retrieval

LEMMA SameSizes ==
    ASSUME SessionIInv, UNCHANGED sizes
    PROVE  LimitsTyped'
BY DEF SessionIInv, SessionTypeOK, LimitsTyped, sizes

LEMMA LoadStep ==
    ASSUME SessionIInv,
           Parse \/ LoadDefault \/ LoadRefused \/ LoadRolesAnywhere \/ Refresh
    PROVE  SessionIInv'
<1>. USE DEF SessionIInv, SessionTypeOK
<1>1. HandlesTyped' /\ RetrievalOK'
  <2>1. CASE LoadRolesAnywhere \/ Refresh
    <3>1. step = "none" /\ step' = "open" /\ UNCHANGED <<idents, next, open, misused>>
      BY <2>1 DEF LoadRolesAnywhere, Refresh, SourceOK
    <3>. QED BY <3>1 DEF HandlesTyped, RetrievalOK, Steps
  <2>. QED BY <2>1, SameHandles DEF Parse, LoadDefault, LoadRefused
<1>2. LimitsTyped'
  BY SameSizes DEF Parse, LoadDefault, LoadRefused, LoadRolesAnywhere, Refresh
<1>3. ProcessTyped'
  BY DEF Parse, LoadDefault, LoadRefused, LoadRolesAnywhere, Refresh, End, Loaded,
         ProcessTyped, process, creds, Phases, Verdicts
<1>4. SourceOK'
  <2>1. UNCHANGED <<line, at, counted, total>>
    BY DEF Parse, LoadDefault, LoadRefused, LoadRolesAnywhere, Refresh, End, process,
           creds, sizes
  <2>2. Loaded \in {"options", "transfer"}
    BY DEF Loaded
  <2>3. CASE Parse \/ LoadRefused
    BY <2>1, <2>3 DEF Parse, LoadRefused, End, SourceOK, retrieval
  <2>4. CASE LoadDefault
    <3>1. phase = "load" /\ ~RAMode(line) /\ step = "none" /\ step' = "none"
      BY <2>4 DEF LoadDefault, SourceOK, retrieval
    <3>2. \/ phase' = "ended" /\ UNCHANGED source
          \/ phase' = Loaded /\ source' = "default"
      BY <2>4 DEF LoadDefault, End
    <3>. QED BY <2>1, <2>2, <3>1, <3>2 DEF SourceOK, RAMode
  <2>5. CASE LoadRolesAnywhere
    BY <2>1, <2>5 DEF LoadRolesAnywhere, SourceOK
  <2>6. CASE Refresh
    BY <2>1, <2>6 DEF Refresh, SourceOK, process
  <2>. QED BY <2>3, <2>4, <2>5, <2>6
<1>. QED BY <1>1, <1>2, <1>3, <1>4

LEMMA RequestStep ==
    ASSUME SessionIInv, NEW r \in Request,
           Send(r) \/ Answered(r) \/ RequestFails(r) \/ FetchManifest(r)
    PROVE  SessionIInv'
<1>. USE DEF SessionIInv, SessionTypeOK
<1>1. HandlesTyped' /\ RetrievalOK'
  BY SameHandles DEF Send, Answered, RequestFails, FetchManifest
<1>2. LimitsTyped'
  <2>1. CASE FetchManifest(r)
    <3>1. PICK m \in Manifests : manifest' = m /\ UNCHANGED <<limits, counted, total, attempt>>
      BY <2>1 DEF FetchManifest
    <3>2. m \in [length : 0..MaxInt, sizes : Seq(0..MaxInt)] /\ Len(m.sizes) \in Nat
      BY SessionAssumption
    <3>3. counted = 0
      BY <2>1 DEF FetchManifest, SourceOK
    <3>. QED BY <3>1, <3>2, <3>3 DEF LimitsTyped
  <2>. QED BY <2>1, SameSizes DEF Send, Answered, RequestFails
<1>3. ProcessTyped'
  BY DEF Send, Answered, RequestFails, FetchManifest, End, ProcessTyped,
         process, creds, Phases, Verdicts
<1>4. SourceOK'
  <2>1. /\ UNCHANGED <<line, source, retrieval, counted, total>>
        /\ phase \in {"manifest", "transfer"}
        /\ phase' \in {phase, "sizes", "ended"}
    BY DEF Send, MaySend, Answered, RequestFails, FetchManifest, End, process, sizes
  <2>. QED BY <2>1 DEF SourceOK, retrieval
<1>. QED BY <1>1, <1>2, <1>3, <1>4

LEMMA LimitStep ==
    ASSUME SessionIInv, NewSyncer \/ CountSize \/ SizesCounted
    PROVE  SessionIInv'
<1>. USE DEF SessionIInv, SessionTypeOK
<1>1. HandlesTyped' /\ RetrievalOK'
  BY SameHandles DEF NewSyncer, CountSize, SizesCounted
<1>2. LimitsTyped'
  <2>1. CASE NewSyncer
    <3>1. counted = 0 /\ total = 0
      BY <2>1 DEF NewSyncer, SourceOK
    <3>2. PICK o \in Options :
             \/ UNCHANGED limits
             \/ /\ o.manifest >= 0 /\ o.content >= 0
                /\ limits' = [manifest |-> Effective(o.manifest, Default.manifest),
                              content |-> Effective(o.content, Default.content)]
      BY <2>1, SessionAssumption DEF NewSyncer
    <3>3. limits' \in [manifest : 1..MaxInt, content : 1..MaxInt]
      BY <3>2, SessionAssumption DEF Effective, LimitsTyped
    <3>. QED BY <2>1, <3>1, <3>3, SessionAssumption DEF NewSyncer, LimitsTyped
  <2>2. CASE CountSize
    <3>. DEFINE size == manifest.sizes[counted + 1]
    <3>1. size \in 0..MaxInt /\ MaxInt \in Nat
      <4>1. manifest.sizes \in Seq(0..MaxInt) /\ Len(manifest.sizes) \in Nat
        BY DEF LimitsTyped
      <4>2. counted \in 0..Len(manifest.sizes) /\ counted < Len(manifest.sizes)
        BY <2>2 DEF CountSize, LimitsTyped
      <4>3. counted + 1 \in 1..Len(manifest.sizes)
        BY <4>1, <4>2
      <4>. QED BY <4>1, <4>3, SessionAssumption
    <3>2. Wrap(limits.content - total) = limits.content - total
      BY <3>1, Wraps DEF LimitsTyped
    <3>3. CASE Exceeds(size)
      BY <2>2, <3>3 DEF CountSize, LimitsTyped
    <3>4. CASE ~Exceeds(size)
      <4>1. total + size \in 0..limits.content
        <5>1. total \in 0..limits.content /\ limits.content \in 1..MaxInt
          BY DEF LimitsTyped
        <5>2. ~(size > limits.content - total)
          BY <3>2, <3>4 DEF Exceeds
        <5>. HIDE DEF size
        <5>. QED BY <3>1, <5>1, <5>2
      <4>2. Wrap(total + size) = total + size
        BY <3>1, <4>1, Wraps DEF LimitsTyped
      <4>. QED BY <2>2, <3>4, <4>1, <4>2 DEF CountSize, LimitsTyped
    <3>. QED BY <3>3, <3>4
  <2>3. CASE SizesCounted
    <3>1. NoManifest \in [length : 0..MaxInt, sizes : Seq(0..MaxInt)]
      BY SessionAssumption DEF NoManifest
    <3>2. Len(NoManifest.sizes) = 0
      BY DEF NoManifest
    <3>. QED BY <2>3, <3>1, <3>2, SessionAssumption DEF SizesCounted, LimitsTyped
  <2>. QED BY <2>1, <2>2, <2>3
<1>3. ProcessTyped'
  <2>1. /\ UNCHANGED <<clock, line, source, creds>>
        /\ phase' \in {phase, "manifest", "transfer", "ended"}
        /\ verdict' \in {verdict, "options", "content limit"}
    BY DEF NewSyncer, CountSize, SizesCounted, End, process
  <2>2. ProcessTyped
    OBVIOUS
  <2>3. phase' \in Phases
    BY <2>1, <2>2 DEF ProcessTyped, Phases
  <2>4. verdict' \in Verdicts
    BY <2>1, <2>2 DEF ProcessTyped, Verdicts
  <2>. QED BY <2>1, <2>2, <2>3, <2>4 DEF ProcessTyped, creds
<1>4. SourceOK'
  BY DEF NewSyncer, CountSize, SizesCounted, End, SourceOK, process, creds, retrieval
<1>. QED BY <1>1, <1>2, <1>3, <1>4

LEMMA MismatchStep ==
    ASSUME SessionIInv, Mismatch
    PROVE  SessionIInv'
<1>. USE DEF SessionIInv, SessionTypeOK
<1>1. HandlesTyped' /\ RetrievalOK'
  BY SameHandles DEF Mismatch
<1>2. LimitsTyped'
  <2>1. attempt' \in 1..Attempts
    BY SessionAssumption DEF Mismatch, LimitsTyped
  <2>. QED BY <2>1 DEF Mismatch, LimitsTyped
<1>3. /\ phase = "transfer" /\ UNCHANGED <<line, source, step, counted, total>>
      /\ \/ phase' = "manifest" /\ verdict' = verdict /\ at' = [r \in Request |-> "idle"]
         \/ phase' = "ended" /\ verdict' = "mismatch" /\ at' = at
  BY DEF Mismatch, End, retrieval
<1>4. ProcessTyped'
  BY <1>3 DEF Mismatch, ProcessTyped, Phases, Verdicts
<1>5. SourceOK'
  BY <1>3 DEF SourceOK
<1>. QED BY <1>1, <1>2, <1>4, <1>5

-----------------------------------------------------------------------------
(* The invariant, and what follows from it.                                *)

LEMMA SessionStep == SessionIInv /\ [SessionNext]_svars => SessionIInv'
<1>. SUFFICES ASSUME SessionIInv, [SessionNext]_svars PROVE SessionIInv'
  OBVIOUS
<1>1. CASE Done \/ Tick \/ UNCHANGED svars
  <2>1. UNCHANGED <<retrieval, sizes, creds>>
    BY <1>1 DEF Done, Tick, svars
  <2>2. HandlesTyped' /\ RetrievalOK' /\ LimitsTyped'
    BY <2>1, SameHandles, SameSizes
  <2>3. /\ UNCHANGED <<line, source>> /\ phase' \in {phase, "ended"}
        /\ verdict' \in {verdict, "done"} /\ clock' \in {clock, clock + 1}
    BY <1>1 DEF Done, Tick, End, svars, process
  <2>4. ProcessTyped'
    <3>1. ProcessTyped
      BY DEF SessionIInv, SessionTypeOK
    <3>2. clock' \in Nat
      BY <2>3, <3>1 DEF ProcessTyped
    <3>3. verdict' \in Verdicts
      BY <2>3, <3>1 DEF ProcessTyped, Verdicts
    <3>4. phase' \in Phases
      BY <2>3, <3>1 DEF ProcessTyped, Phases
    <3>. QED BY <2>1, <2>3, <3>1, <3>2, <3>3, <3>4 DEF ProcessTyped, creds
  <2>5. SourceOK'
    BY <2>1, <2>3 DEF SessionIInv, SourceOK, creds, retrieval, sizes
  <2>. QED BY <2>2, <2>4, <2>5 DEF SessionIInv, SessionTypeOK
<1>. QED
  BY <1>1, LoadStep, RetrieveStep, RequestStep, LimitStep, MismatchStep DEF SessionNext

\* The inductive invariant of a process.
THEOREM SessionInvariance == SessionSpec => []SessionIInv
BY InitHolds, SessionStep, PTL DEF SessionSpec

\* Every variable keeps its type; the sum of the sizes stays within the limit.
THEOREM SessionTypes == SessionSpec => []SessionTypeOK
<1>1. SessionIInv => SessionTypeOK
  BY DEF SessionIInv
<1>. QED BY <1>1, SessionInvariance, PTL

\* FindIdentity and Retrieve close every handle once, on every path.
THEOREM HandlesAreBalanced == SessionSpec => []HandlesBalanced
<1>1. SessionIInv => HandlesBalanced
  BY DEF SessionIInv, RetrievalOK, HandlesBalanced
<1>. QED BY <1>1, SessionInvariance, PTL

\* Requests are signed with the credentials that were asked for, while they
\* have more than raExpiryWindow left.
THEOREM SignedAsTheyShould == SessionSpec => SignedAsAsked
<1>. DEFINE A == \A r \in Request :
          at[r] # "sent" /\ at'[r] = "sent" =>
             /\ source = "rolesanywhere" <=> line.given \cap RAFlags # {}
             /\ source = "rolesanywhere" => cached' > clock + Window
<1>1. ASSUME SessionIInv, SessionNext PROVE A
  <2>. SUFFICES ASSUME NEW r \in Request, at[r] # "sent", at'[r] = "sent"
                PROVE  /\ source = "rolesanywhere" <=> line.given \cap RAFlags # {}
                       /\ source = "rolesanywhere" => cached' > clock + Window
    OBVIOUS
  <2>1. /\ at \in [Request -> {"idle", "waiting", "sent"}] /\ clock \in Nat
        /\ source \in {"none", "default", "rolesanywhere"} /\ SourceOK
    BY <1>1 DEF SessionIInv, SessionTypeOK, ProcessTyped
  <2>2. CASE \E s \in Request : Send(s)
    <3>1. Send(r)
      BY <2>1, <2>2 DEF Send
    <3>2. Fresh /\ phase \in {"manifest", "transfer"} /\ UNCHANGED cached
      BY <2>1, <3>1 DEF Send, MaySend
    <3>. QED BY <2>1, <3>2 DEF Fresh, SourceOK, RAMode
  <2>3. CASE Fetched /\ phase # "ended"
    <3>1. PICK t \in Lifetimes : cached' = clock + t
      BY <2>3 DEF Fetched
    <3>2. cached' > clock + Window
      BY <2>1, <3>1, SessionAssumption
    <3>3. at[r] = "waiting"
      BY <2>1, <2>3 DEF Fetched
    <3>4. phase \in {"manifest", "sizes", "transfer"}
      BY <1>1, <2>1, <2>3, <3>3
         DEF SourceOK, SessionIInv, SessionTypeOK, ProcessTyped, Phases
    <3>. QED BY <2>1, <3>2, <3>4, <1>1
             DEF SourceOK, RAMode, SessionIInv, SessionTypeOK, ProcessTyped
  <2>4. CASE ~(\E s \in Request : Send(s)) /\ ~(Fetched /\ phase # "ended")
    <3>1. at'[r] = at[r] \/ at'[r] = "idle"
      BY <1>1, <2>1, <2>4
         DEF SessionNext, Parse, LoadDefault, LoadRefused, LoadRolesAnywhere, Retrieve,
             FindIdentity, OpenStore, OpenFails, Identities, IdentitiesFail, Reject,
             Select, NoMatch, Sign, FetchFails, RetrievalFails, Refresh, Answered,
             RequestFails, FetchManifest, NewSyncer, CountSize, SizesCounted, Mismatch,
             Done, Tick, creds
    <3>. QED BY <3>1
  <2>. QED BY <2>2, <2>3, <2>4
<1>2. SessionIInv /\ [SessionNext]_svars => [A]_svars
  BY <1>1
<1>. QED BY <1>2, SessionInvariance, PTL DEF SessionSpec, SignedAsAsked

-----------------------------------------------------------------------------
(* The sum of the sizes, and who runs while it is taken.                   *)

\* The sizes of a manifest are naturals.
LEMMA SizesAreNaturals ==
    ASSUME SessionIInv
    PROVE  /\ manifest.sizes \in Seq(Nat) /\ Len(manifest.sizes) \in Nat
           /\ limits.content \in Nat /\ total \in Nat
           /\ counted \in 0..Len(manifest.sizes)
<1>1. LimitsTyped
  BY DEF SessionIInv, SessionTypeOK
<1>2. manifest.sizes \in Seq(0..MaxInt) /\ MaxInt \in Nat
  BY <1>1, SessionAssumption DEF LimitsTyped
<1>3. \A i \in 1..Len(manifest.sizes) : manifest.sizes[i] \in Nat
  BY <1>2
<1>. QED BY <1>1, <1>2, <1>3 DEF LimitsTyped

\* Comparing before adding finds out whether the next sum is within the limit.
LEMMA Compares ==
    ASSUME SessionIInv, SumOK, phase = "sizes", counted < Len(manifest.sizes)
    PROVE  LET size == manifest.sizes[counted + 1]
           IN  /\ Exceeds(size) <=> Sums(manifest.sizes)[counted + 1] > limits.content
               /\ ~Exceeds(size) =>
                     Wrap(total + size) = Sums(manifest.sizes)[counted + 1]
<1>. DEFINE size == manifest.sizes[counted + 1]
            upTo == Sums(manifest.sizes)[counted + 1]
<1>1. counted + 1 \in 1..Len(manifest.sizes) /\ (counted + 1) - 1 = counted
  BY SizesAreNaturals
<1>2. upTo = total + size /\ size \in Nat
  BY <1>1, SizesAreNaturals, SumsStep DEF SumOK
<1>3. /\ total \in 0..limits.content /\ limits.content \in 1..MaxInt
      /\ MaxInt \in Nat
  BY SessionAssumption DEF SessionIInv, SessionTypeOK, LimitsTyped
<1>4. Wrap(limits.content - total) = limits.content - total
  BY <1>3, Wraps
<1>. HIDE DEF size, upTo
<1>5. Exceeds(size) <=> upTo > limits.content
  BY <1>2, <1>3, <1>4 DEF Exceeds
<1>6. ASSUME ~Exceeds(size) PROVE Wrap(total + size) = upTo
  <2>1. total + size \in (-(MaxInt + 1))..MaxInt
    BY <1>2, <1>3, <1>5, <1>6
  <2>. QED BY <1>2, <2>1, Wraps
<1>. QED BY <1>5, <1>6 DEF size, upTo

LEMMA AloneKept ==
    ASSUME SessionIInv, AloneOK, StaleOK, [SessionNext]_svars
    PROVE  AloneOK'
<1>. USE DEF AloneOK
<1>0. /\ SourceOK /\ phase \in Phases
      /\ at \in [Request -> {"idle", "waiting", "sent"}]
  BY DEF SessionIInv, SessionTypeOK, ProcessTyped
<1>1. CASE Parse \/ LoadDefault \/ LoadRefused \/ LoadRolesAnywhere
  <2>1. UNCHANGED at /\ (phase' \in {"load", "ended"} \/ (phase' = Loaded /\ step' = "none"))
    BY <1>0, <1>1 DEF Parse, LoadDefault, LoadRefused, LoadRolesAnywhere, End, creds,
                      retrieval, SourceOK
  <2>2. Loaded \in {"options", "transfer"} /\ phase \in {"parse", "load"}
    BY <1>1 DEF Loaded, Parse, LoadDefault, LoadRefused, LoadRolesAnywhere
  <2>. QED BY <2>1, <2>2
<1>2. CASE Retrieve
  <2>1. CASE Fetched
    <3>1. /\ phase # "ended" /\ step = "create" /\ step' = "none"
          /\ phase' \in {IF phase = "load" THEN Loaded ELSE phase, "ended"}
          /\ \A r \in Request : at'[r] = IF at[r] = "waiting" THEN "sent" ELSE at[r]
      BY <1>2, <2>1, <1>0 DEF Fetched, End, Retrieve
    <3>2. Loaded \in {"options", "transfer"}
      BY DEF Loaded
    <3>. QED BY <3>1, <3>2
  <2>2. CASE OpenFails \/ IdentitiesFail \/ NoMatch \/ FetchFails
    <3>1. UNCHANGED at /\ step' = "none" /\ phase' \in {phase, "ended"}
      BY <2>2 DEF OpenFails, IdentitiesFail, NoMatch, FetchFails, RetrievalFails, End,
                  process, creds
    <3>. QED BY <3>1
  <2>3. CASE OpenStore \/ Identities \/ Reject \/ Select \/ Sign
    BY <2>3 DEF OpenStore, Identities, Reject, Select, Sign, process, creds
  <2>. QED BY <1>2, <2>1, <2>2, <2>3 DEF Retrieve, FindIdentity
<1>3. CASE Refresh
  BY <1>3 DEF Refresh, process, creds
<1>4. ASSUME NEW r \in Request, Send(r) PROVE AloneOK'
  <2>1. /\ UNCHANGED <<phase, step>> /\ phase \in {"manifest", "transfer"}
        /\ \A q \in Request : q # r => at'[q] = at[q]
        /\ phase = "manifest" => \A q \in Request : at[q] = "idle"
    BY <1>0, <1>4 DEF Send, MaySend, process, retrieval
  <2>2. step # "none" => at'[r] = "waiting"
    BY <1>0, <1>4 DEF Send, StaleOK
  <2>. QED BY <2>1, <2>2
<1>5. ASSUME NEW r \in Request, Answered(r) \/ RequestFails(r) PROVE AloneOK'
  BY <1>5 DEF Answered, RequestFails, End, process
<1>6. ASSUME NEW r \in Request, FetchManifest(r) PROVE AloneOK'
  <2>1. phase = "manifest" /\ at[r] = "sent" /\ UNCHANGED step
    BY <1>6 DEF FetchManifest, retrieval
  <2>2. \A q \in Request : q # r => at[q] = "idle"
    BY <2>1
  <2>3. step = "none"
    BY <2>1, <2>2
  <2>4. phase' \in {"ended", "sizes"}
    BY <1>6 DEF FetchManifest, End
  <2>5. \A q \in Request : at'[q] = "idle"
    BY <1>0, <1>6, <2>2 DEF FetchManifest
  <2>. QED BY <2>1, <2>3, <2>4, <2>5
<1>7. CASE NewSyncer \/ CountSize \/ SizesCounted
  BY <1>7 DEF NewSyncer, CountSize, SizesCounted, End, process, creds, retrieval
<1>8. CASE Done \/ Tick \/ UNCHANGED svars
  BY <1>8 DEF Done, Tick, End, svars, process, creds, retrieval
<1>9. CASE Mismatch
  BY <1>9 DEF Mismatch, End
<1>. QED BY <1>1, <1>2, <1>3, <1>4, <1>5, <1>6, <1>7, <1>8, <1>9 DEF SessionNext

\* What is not fresh does not become so.
LEMMA Later ==
    ASSUME NEW c \in Nat, NEW t \in Nat, NEW u \in Nat, t <= u, c > u + Window
    PROVE  c > t + Window
<1>1. Window \in Nat
  BY SessionAssumption
<1>. QED BY <1>1

LEMMA StaleKept ==
    ASSUME SessionIInv, StaleOK, [SessionNext]_svars
    PROVE  StaleOK'
<1>1. /\ at \in [Request -> {"idle", "waiting", "sent"}] /\ clock \in Nat /\ cached \in Nat
      /\ SourceOK /\ Window \in Nat
  BY SessionAssumption DEF SessionIInv, SessionTypeOK, ProcessTyped
<1>. USE DEF StaleOK, Fresh
\* Waiting and the steps of a retrieval begin stale, and stay so: time passes.
<1>2. ASSUME UNCHANGED <<source, cached>>, clock' \in {clock, clock + 1},
             \A r \in Request : at'[r] = "waiting" => at[r] = "waiting",
             step' # "none" => step # "none" \/ \E r \in Request : at[r] = "waiting"
      PROVE  StaleOK'
  <2>1. Fresh' => Fresh
    <3>1. source' = source /\ cached' = cached /\ clock' \in {clock, clock + 1}
      BY <1>2
    <3>2. clock' \in Nat /\ clock <= clock'
      BY <1>1, <3>1
    <3>3. cached > clock' + Window => cached > clock + Window
      BY <1>1, <3>2, Later
    <3>. QED BY <3>1, <3>3
  <2>2. step' # "none" \/ (\E r \in Request : at'[r] = "waiting") => ~Fresh
    BY <1>2
  <2>. QED BY <1>2, <2>1, <2>2
<1>3. CASE Parse \/ LoadDefault \/ LoadRefused
  <2>1. /\ step = "none" /\ step' = "none" /\ UNCHANGED <<at, cached>>
        /\ \A r \in Request : at[r] # "waiting"
        /\ source' \in {source, "default"}
    BY <1>1, <1>3 DEF Parse, LoadDefault, LoadRefused, End, SourceOK, retrieval, creds
  <2>. QED BY <2>1
<1>4. CASE LoadRolesAnywhere
  <2>1. cached' = 0 /\ clock' = clock /\ source' = "rolesanywhere"
    BY <1>4 DEF LoadRolesAnywhere, creds
  <2>. QED BY <1>1, <2>1
<1>5. CASE Refresh
  BY <1>2, <1>5 DEF Refresh, process, creds
<1>6. CASE Retrieve
  <2>1. CASE Fetched
    <3>1. source # "none"
      BY <1>1, <1>6, <2>1 DEF Fetched, Retrieve, SourceOK, SessionIInv, SessionTypeOK,
                              ProcessTyped, Phases
    <3>2. /\ step' = "none" /\ source' = source
          /\ \A r \in Request : at'[r] # "waiting"
      BY <1>1, <2>1 DEF Fetched, End
    <3>. QED BY <3>1, <3>2
  <2>2. CASE ~Fetched
    <3>1. UNCHANGED <<clock, source, cached, at>> /\ step # "none"
      BY <1>6, <2>2
         DEF Retrieve, FindIdentity, OpenStore, OpenFails, Identities, IdentitiesFail,
             Reject, Select, NoMatch, Sign, FetchFails, RetrievalFails, End, process, creds
    <3>. QED BY <1>2, <3>1
  <2>. QED BY <2>1, <2>2
<1>7. ASSUME NEW r \in Request, Send(r) PROVE StaleOK'
  <2>1. /\ UNCHANGED <<clock, source, cached, step>>
        /\ \A q \in Request : at'[q] = "waiting" => at[q] = "waiting" \/ ~Fresh
    BY <1>1, <1>7 DEF Send, process, retrieval
  <2>. QED BY <1>1, <2>1
<1>8. ASSUME NEW r \in Request, Answered(r) \/ RequestFails(r) \/ FetchManifest(r)
      PROVE  StaleOK'
  <2>1. /\ UNCHANGED <<clock, source, cached, step>>
        /\ \A q \in Request : at'[q] = "waiting" => at[q] = "waiting"
    BY <1>1, <1>8 DEF Answered, RequestFails, FetchManifest, End, process, creds, retrieval
  <2>. QED BY <1>2, <2>1
<1>9. CASE NewSyncer \/ CountSize \/ SizesCounted \/ Mismatch
  <2>1. /\ UNCHANGED <<clock, source, cached, step>>
        /\ \A q \in Request : at'[q] = "waiting" => at[q] = "waiting"
    BY <1>1, <1>9 DEF NewSyncer, CountSize, SizesCounted, Mismatch, End, process, creds,
                      retrieval
  <2>. QED BY <1>2, <2>1
<1>10. CASE Done \/ Tick \/ UNCHANGED svars
  <2>1. UNCHANGED <<source, cached, at, step>> /\ clock' \in {clock, clock + 1}
    BY <1>10 DEF Done, Tick, End, svars, process, creds, retrieval
  <2>. QED BY <1>2, <2>1
<1>. QED
  BY <1>3, <1>4, <1>5, <1>6, <1>7, <1>8, <1>9, <1>10 DEF SessionNext

LEMMA SumKept ==
    ASSUME SessionIInv, SumOK, [SessionNext]_svars
    PROVE  SumOK'
<1>1. CASE \E r \in Request : FetchManifest(r)
  <2>1. PICK r \in Request : FetchManifest(r)
    BY <1>1
  <2>2. PICK m \in Manifests : manifest' = m /\ UNCHANGED <<counted, total>>
    BY <2>1 DEF FetchManifest
  <2>3. counted = 0 /\ total = 0
    BY <2>1 DEF FetchManifest, SessionIInv, SourceOK
  <2>4. m.sizes \in Seq(0..MaxInt) /\ MaxInt \in Nat
    BY SessionAssumption
  <2>5. m.sizes \in Seq(Nat)
    BY <2>4
  <2>. QED BY <2>2, <2>3, <2>5, SumsStep DEF SumOK
<1>2. CASE CountSize
  <2>1. phase = "sizes" /\ counted < Len(manifest.sizes) /\ UNCHANGED manifest
    BY <1>2 DEF CountSize
  <2>2. CASE Exceeds(manifest.sizes[counted + 1])
    BY <1>2, <2>2 DEF CountSize, End, SumOK
  <2>3. CASE ~Exceeds(manifest.sizes[counted + 1])
    <3>1. counted' = counted + 1
      BY <1>2, <2>3 DEF CountSize
    <3>2. total' = Wrap(total + manifest.sizes[counted + 1])
      BY <1>2, <2>3 DEF CountSize
    <3>3. total' = Sums(manifest.sizes)[counted + 1]
      BY <2>1, <2>3, <3>2, Compares
    <3>. QED BY <2>1, <3>1, <3>3 DEF SumOK
  <2>. QED BY <2>2, <2>3
<1>3. CASE SizesCounted
  BY <1>3 DEF SizesCounted, SumOK
<1>4. CASE NewSyncer \/ Mismatch
  BY <1>4 DEF NewSyncer, Mismatch, End, SumOK
<1>5. CASE Retrieve
  <2>1. UNCHANGED sizes /\ (phase' = "sizes" => phase = "sizes")
    <3>1. Loaded # "sizes"
      BY DEF Loaded
    <3>. QED BY <1>5, <3>1
         DEF Retrieve, FindIdentity, OpenStore, OpenFails, Identities, IdentitiesFail,
             Reject, Select, NoMatch, Sign, FetchFails, Fetched, RetrievalFails, End,
             process
  <2>. QED BY <2>1 DEF SumOK, sizes
<1>6. CASE \/ Parse \/ LoadDefault \/ LoadRefused \/ LoadRolesAnywhere \/ Refresh
           \/ Done \/ Tick \/ UNCHANGED svars
           \/ \E r \in Request : Send(r) \/ Answered(r) \/ RequestFails(r)
  <2>1. UNCHANGED sizes /\ (phase' = "sizes" => phase = "sizes")
    <3>1. Loaded # "sizes"
      BY DEF Loaded
    <3>. QED BY <1>6, <3>1
         DEF Parse, LoadDefault, LoadRefused, LoadRolesAnywhere, Refresh, Done, Tick,
             Send, Answered, RequestFails, End, svars, process
  <2>. QED BY <2>1 DEF SumOK, sizes
<1>. QED BY <1>1, <1>2, <1>3, <1>4, <1>5, <1>6 DEF SessionNext

\* While the sizes are counted nothing else runs, and the int64 is the true sum.
THEOREM CountInvariance == SessionSpec => []CountIInv
<1>1. SessionInit => CountIInv
  <2>1. ASSUME SessionInit PROVE AloneOK /\ StaleOK /\ SumOK
    BY <2>1 DEF SessionInit, AloneOK, StaleOK, SumOK
  <2>. QED BY <2>1, InitHolds DEF CountIInv
<1>2. CountIInv /\ [SessionNext]_svars => CountIInv'
  BY SessionStep, AloneKept, StaleKept, SumKept DEF CountIInv
<1>. QED BY <1>1, <1>2, PTL DEF SessionSpec

\* checkContentSize lets a pull go on exactly when the true sum of the sizes is
\* within the limit, however long the manifest is and also where the sum is no
\* int64; and nothing but its verdict ends the counting.
THEOREM SizesAreExact == SessionSpec => SizesExact
<1>. DEFINE A == phase = "sizes" /\ phase' # "sizes" =>
                    (phase' = "transfer" <=> Sum(manifest.sizes) <= limits.content)
<1>1. ASSUME CountIInv, SessionNext PROVE A
  <2>. SUFFICES ASSUME phase = "sizes", phase' # "sizes"
                PROVE  phase' = "transfer" <=> Sum(manifest.sizes) <= limits.content
    OBVIOUS
  <2>1. /\ SessionIInv /\ SumOK
        /\ step = "none" /\ \A r \in Request : at[r] = "idle"
    BY <1>1 DEF CountIInv, AloneOK
  <2>2. /\ manifest.sizes \in Seq(Nat) /\ Len(manifest.sizes) \in Nat
        /\ limits.content \in Nat /\ counted \in 0..Len(manifest.sizes)
    BY <2>1, SizesAreNaturals
  <2>3. CountSize \/ SizesCounted
    BY <1>1, <2>1
       DEF SessionNext, Parse, LoadDefault, LoadRefused, LoadRolesAnywhere, Retrieve,
           FindIdentity, OpenStore, OpenFails, Identities, IdentitiesFail, Reject,
           Select, NoMatch, Sign, FetchFails, Fetched, Refresh, Send, MaySend,
           Answered, RequestFails, FetchManifest, NewSyncer, Mismatch, Done, Tick, process
  <2>4. CASE CountSize
    <3>1. counted < Len(manifest.sizes) /\ Exceeds(manifest.sizes[counted + 1])
      BY <2>4 DEF CountSize, process
    <3>2. Sums(manifest.sizes)[counted + 1] > limits.content
      BY <2>1, <3>1, Compares
    <3>3. counted + 1 \in 0..Len(manifest.sizes)
      BY <2>2, <3>1
    <3>4. Sums(manifest.sizes)[counted + 1] <= Sum(manifest.sizes)
      BY <2>2, <3>3, SumsGrow
    <3>5. /\ Sums(manifest.sizes)[counted + 1] \in Nat
          /\ Sum(manifest.sizes) \in Nat
      <4>1. Sums(manifest.sizes) \in [0..Len(manifest.sizes) -> Nat]
        BY <2>2, SumsStep
      <4>2. Len(manifest.sizes) \in 0..Len(manifest.sizes)
        BY <2>2
      <4>. QED BY <3>3, <4>1, <4>2 DEF Sum
    <3>6. phase' = "ended"
      BY <2>4, <3>1 DEF CountSize, End
    <3>. QED BY <2>2, <3>2, <3>4, <3>5, <3>6
  <2>5. CASE SizesCounted
    <3>1. counted = Len(manifest.sizes) /\ phase' = "transfer"
      BY <2>5 DEF SizesCounted
    <3>2. total = Sum(manifest.sizes) /\ total <= limits.content
      BY <2>1, <3>1 DEF SumOK, Sum, SessionIInv, SessionTypeOK, LimitsTyped
    <3>. QED BY <3>1, <3>2
  <2>. QED BY <2>3, <2>4, <2>5
<1>2. CountIInv /\ [SessionNext]_svars => [A]_svars
  BY <1>1
<1>. QED BY <1>2, CountInvariance, PTL DEF SessionSpec, SizesExact
=============================================================================
