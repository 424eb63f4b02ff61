---------------------------- MODULE GPUAttestation ----------------------------
(* The GPUs of a workload and what clients accept of them. The attestation   *)
(* agent (attestation-agent/main.go) verifies each GPU, asks NVIDIA's OCSP   *)
(* responder about the certificates (agent internal/ocsp), sets the GPUs     *)
(* ready and writes the statuses to a file. The inference proxy reads it     *)
(* once, when it starts, and compares it with the policy in the headers of   *)
(* every request (inference.go, internal/oss/ocsp, ocspheader), which the    *)
(* client's proxy made of its flags (server.go, cmd.go).                     *)
(*                                                                           *)
(* Time runs in ticks, several to a second: dates in headers and in OCSP     *)
(* responses are whole seconds. External: GPUs, the cache of reference       *)
(* values, the responder, Kubernetes, which runs the agent again until it    *)
(* succeeds and the inference proxy after it, and the secret both ends share *)
(* (modules SecretSync and Exchange), of which it matters whether it is      *)
(* there.                                                                    *)
EXTENDS GPUReport

CONSTANTS
  GPUs,             \* number of GPUs in the system
  GPUChain,         \* GPUChain[i]: certificates of GPU i, its leaf first
  Bodies,           \* reports a GPU may give, but for the nonce
  RegisteredCerts,  \* certificates the responder knows
  DriverRIMs,       \* documents the cache may answer with for the driver
  VBIOSRIMs,        \* and for the VBIOS: resources, chain, signed, trusted
  TicksPerSecond,
  Graces,           \* values of nvidiaOCSPRevokedGracePeriod, in ticks
  None,             \* no date, file, report or request
  MaxTime, MaxUnknown, MaxRevoked, MaxRuns   \* bounds

ASSUME GPUAttestationAssumption ==
  /\ GPUs \in Nat /\ None \notin Nat
  /\ \A body \in Bodies :
       /\ DOMAIN body = {"nonce", "blocks", "fields", "signer", "trusted", "complete"}
       /\ DOMAIN body.blocks = 1..Len(body.blocks) /\ Len(body.blocks) \in Nat
  /\ \A doc \in DriverRIMs \cup VBIOSRIMs :
       DOMAIN doc.resources = 1..Len(doc.resources) /\ Len(doc.resources) \in Nat
  /\ TicksPerSecond \in Nat \ {0}
  /\ Graces \subseteq Nat
  /\ MaxTime \in Nat /\ MaxUnknown \in Nat /\ MaxRevoked \in Nat /\ MaxRuns \in Nat

\* The responder knows the certificates the agent asks about: those below the
\* roots, but for the leaf that a GPU makes itself (agent ocsp.go:91-96).
Known(chain) ==
  Len(chain) \in Nat /\ \A n \in 1..(Len(chain) - 1) : chain[n] \in RegisteredCerts

ASSUME ResponderAssumption ==
  /\ \A i \in 1..GPUs : Len(GPUChain[i]) >= 2 => Known(Tail(GPUChain[i]))
  /\ \A doc \in DriverRIMs \cup VBIOSRIMs : doc.signed /\ doc.trusted => Known(doc.chain)

Components == {"GPU", "Driver", "VBIOS"}

VARIABLES
  now,        \* the time
  revokedAt,  \* the responder's knowledge: date of revocation, or None
  unknowns,   \* OCSP requests that may still fail
  runs,       \* runs of the agent begun
  pc,         \* the agent's place in verifyAndEnable and run
  gpu,        \* the GPU it is at
  nonce,      \* the last nonce it made: fresh for a run and a GPU
  report,     \* the report of this GPU
  rim,        \* reference values of this GPU, by component
  infos,      \* statusInfos
  ready,      \* whether the GPUs are ready
  file,       \* the status file
  loaded,     \* what the inference proxy read, None before it runs
  request,    \* a request on its way
  outcome,    \* what became of the last one
  answers,    \* history: the responses of this run, by GPU and component
  evidence    \* history: what the GPUs verified in this run were verified by

agent == <<runs, pc, gpu, nonce, report, rim, infos>>
client == <<request, outcome>>
vars == <<now, revokedAt, unknowns, agent, ready, file, loaded, client,
          answers, evidence>>

-----------------------------------------------------------------------------
(* OCSP statuses                                                             *)

Unset == [value |-> "", at |-> 0]
Good == [value |-> "GOOD", at |-> 0]
Unknown == [value |-> "UNKNOWN", at |-> 0]
Revoked(date) == [value |-> "REVOKED", at |-> date]

RevocationDates(s) == {s[n].at : n \in {m \in DOMAIN s : s[m].value = "REVOKED"}}

\* Mutant: the date of the last revocation counts.
CombineStatuses_latest(s) ==
  LET dates == RevocationDates(s)
  IN IF dates # {}
     THEN Revoked(CHOOSE d \in dates : \A e \in dates : e <= d)
     ELSE IF \E n \in DOMAIN s : s[n] = Unknown THEN Unknown ELSE Good

\* Revoked, with the earliest date, comes before unknown before good.
CombineStatuses(s) ==
  LET dates == RevocationDates(s)
  IN IF dates # {}
     THEN Revoked(CHOOSE d \in dates : \A e \in dates : d <= e)
     ELSE IF \E n \in DOMAIN s : s[n] = Unknown THEN Unknown ELSE Good

\* Good and unknown carry the zero time, which is not before itself.
AcceptedBy(status, allowed) ==
  \E a \in allowed : a.value = status.value /\ ~(status.at < a.at)

\* A date as Unix() cuts it.
Second(t) == TicksPerSecond * (t \div TicksPerSecond)

\* Mutant: the leaf of a GPU's chain is asked about like the others.
CheckedChain_leaf(c) ==
  IF c = "GPU" THEN GPUChain[gpu] ELSE rim[c].chain

\* The chain VerifyCertChain asks about, each certificate with its issuer. A
\* GPU makes its leaf itself: the responder has not heard of it.
CheckedChain(c) ==
  IF c = "GPU" THEN Tail(GPUChain[gpu]) ELSE rim[c].chain

-----------------------------------------------------------------------------

Registered == DOMAIN revokedAt

Places == Components \cup
  {"start", "issue", "verify", "vbios", "measure", "enable", "write",
   "done", "failed"}

TypeOK ==
  /\ now \in 0..MaxTime
  /\ \A cert \in Registered : revokedAt[cert] \in 0..MaxTime \cup {None}
  /\ unknowns \in 0..MaxUnknown
  /\ runs \in 0..MaxRuns
  /\ pc \in Places
  /\ gpu \in 0..GPUs
  /\ nonce \in (0..MaxRuns) \X (0..GPUs)
  /\ ready \in BOOLEAN
  /\ outcome \in {"none", "served", "refused"}

NoAnswers == [i \in 1..GPUs |-> [c \in Components |-> <<>>]]
NoInfos == [i \in 1..GPUs |-> [c \in Components |-> Unset]]
NoEvidence == <<>>
NoRIM == [c \in {"Driver", "VBIOS"} |-> None]

Init ==
  /\ now = 0
  /\ revokedAt = [cert \in RegisteredCerts |-> None]
  /\ unknowns = MaxUnknown
  /\ runs = 0 /\ pc = "start" /\ gpu = 0 /\ nonce = <<0, 0>>
  /\ report = None /\ rim = NoRIM /\ infos = NoInfos
  /\ ready = FALSE /\ file = None /\ loaded = None
  /\ request = None /\ outcome = "none"
  /\ answers = NoAnswers /\ evidence = NoEvidence

-----------------------------------------------------------------------------
(* The attestation agent                                                     *)

\* A run lists the GPUs and begins with the first. Kubernetes runs the agent
\* again while it fails.
Begin ==
  /\ pc \in {"start", "failed"} /\ runs < MaxRuns
  /\ runs' = runs + 1
  /\ gpu' = IF GPUs = 0 THEN 0 ELSE 1
  /\ pc' = IF GPUs = 0 THEN "enable" ELSE "issue"
  /\ UNCHANGED <<now, revokedAt, unknowns, nonce, report, rim, infos, ready, file,
                 loaded, client, answers, evidence>>

\* A nonce, a report (the GPU may answer with one for an earlier nonce), which
\* must parse, and a chain that ends in the pinned root.
IssueReport ==
  /\ pc = "issue"
  /\ nonce' = <<runs, gpu>>
  /\ \E body \in Bodies, n \in {nonce, nonce'} :
       report' = [body EXCEPT !.nonce = n]
  /\ Parses(report') /\ report'.trusted /\ Len(GPUChain[gpu]) >= 2
  /\ pc' = "GPU"
  /\ UNCHANGED <<now, revokedAt, unknowns, runs, gpu, rim, infos, ready, file,
                 loaded, client, answers, evidence>>

\* A response is what the responder knows; anything else counts as unknown,
\* a certificate it does not have as well.
Responses(cert) ==
  (IF cert \notin Registered THEN {Unknown}
   ELSE IF revokedAt[cert] = None THEN {Good} ELSE {Revoked(revokedAt[cert])})
  \cup (IF unknowns > 0 THEN {Unknown} ELSE {})

AfterCheck == [GPU |-> "verify", Driver |-> "vbios", VBIOS |-> "measure"]

\* One request of VerifyCertChain's loop, which stops before the root. Errors
\* are logged only.
AskResponder(c) ==
  LET n == Len(answers[gpu][c]) + 1
  IN /\ pc = c
     /\ n < Len(CheckedChain(c))
     /\ \E status \in Responses(CheckedChain(c)[n]) :
          /\ answers' = [answers EXCEPT ![gpu][c] = Append(@, status)]
          /\ unknowns' = IF status = Unknown /\ CheckedChain(c)[n] \in Registered
                         THEN unknowns - 1 ELSE unknowns
     /\ UNCHANGED <<now, revokedAt, agent, ready, file, loaded, client, evidence>>

CombineAnswers(c) ==
  /\ pc = c
  /\ Len(answers[gpu][c]) + 1 >= Len(CheckedChain(c))
  /\ infos' = [infos EXCEPT ![gpu][c] = CombineStatuses(answers[gpu][c])]
  /\ pc' = AfterCheck[c]
  /\ UNCHANGED <<now, revokedAt, unknowns, runs, gpu, nonce, report, rim, ready,
                 file, loaded, client, answers, evidence>>

\* FetchRIM: the document's signature is checked against its own certificates,
\* then their chain against the pinned root.
Fetched(doc) == doc.signed /\ doc.trusted /\ Len(doc.chain) >= 2

VerifyReport ==
  /\ pc = "verify"
  /\ Verifies(report, nonce, GPUChain[gpu])
  /\ \E doc \in DriverRIMs :
       Fetched(doc) /\ rim' = [rim EXCEPT !["Driver"] = doc]
  /\ pc' = "Driver"
  /\ UNCHANGED <<now, revokedAt, unknowns, runs, gpu, nonce, report, infos, ready,
                 file, loaded, client, answers, evidence>>

FetchVBIOSRIM ==
  /\ pc = "vbios"
  /\ \E doc \in VBIOSRIMs :
       Fetched(doc) /\ rim' = [rim EXCEPT !["VBIOS"] = doc]
  /\ pc' = "VBIOS"
  /\ UNCHANGED <<now, revokedAt, unknowns, runs, gpu, nonce, report, infos, ready,
                 file, loaded, client, answers, evidence>>

\* The evidence, with GPU i's.
Shown(i) ==
  [j \in DOMAIN evidence \cup {i} |->
     IF j = i THEN [report |-> report, nonce |-> nonce, rim |-> rim] ELSE evidence[j]]

\* The end of the loop's body.
ValidateReport ==
  /\ pc = "measure"
  /\ ValidMeasurements(report, rim["Driver"].resources, rim["VBIOS"].resources)
  /\ evidence' = Shown(gpu)
  /\ IF gpu < GPUs THEN gpu' = gpu + 1 /\ pc' = "issue"
                   ELSE gpu' = gpu /\ pc' = "enable"
  /\ UNCHANGED <<now, revokedAt, unknowns, runs, nonce, report, rim, infos, ready,
                 file, loaded, client, answers>>

\* All GPUs of the system at once; nothing makes them not ready again.
SetGPUsReady ==
  /\ pc = "enable"
  /\ ready' = TRUE
  /\ pc' = "write"
  /\ UNCHANGED <<now, revokedAt, unknowns, runs, gpu, nonce, report, rim, infos,
                 file, loaded, client, answers, evidence>>

WriteStatus ==
  /\ pc = "write"
  /\ file' = infos
  /\ pc' = "done"
  /\ UNCHANGED <<now, revokedAt, unknowns, runs, gpu, nonce, report, rim, infos,
                 ready, loaded, client, answers, evidence>>

\* A call fails, a check refuses, or the agent is killed. What it knew is gone;
\* GPUs that are ready stay so.
Fail ==
  /\ pc \notin {"start", "done", "failed"}
  /\ pc' = "failed" /\ gpu' = 0 /\ nonce' = <<0, 0>>
  /\ report' = None /\ rim' = NoRIM /\ infos' = NoInfos
  /\ answers' = NoAnswers /\ evidence' = NoEvidence
  /\ UNCHANGED <<now, revokedAt, unknowns, runs, ready, file, loaded, client>>

-----------------------------------------------------------------------------
(* The inference proxy and its clients                                       *)

\* The agent is an init container of the same pod: the proxy starts after it.
StartProxy ==
  /\ pc = "done" /\ loaded = None
  /\ loaded' = file
  /\ UNCHANGED <<now, revokedAt, unknowns, agent, ready, file, client, answers,
                 evidence>>

\* Mutant: the flags are taken as they are.
ValidConfig_any(grace, allowUnknown) == TRUE

\* cmd.go refuses a grace period if unknown statuses are disallowed.
ValidConfig(grace, allowUnknown) == allowUnknown \/ grace = 0

Allowed(grace, allowUnknown) ==
  {"good"} \cup (IF grace > 0 THEN {"revoked"} ELSE {})
           \cup (IF allowUnknown THEN {"unknown"} ELSE {})

\* setDynamicHeaders: the policy, and the MAC of what is written in it.
SendRequest(grace, allowUnknown) ==
  LET header == [allowed |-> Allowed(grace, allowUnknown), nbf |-> Second(now - grace)]
  IN /\ request = None /\ loaded # None
     /\ ValidConfig(grace, allowUnknown)
     /\ request' = [policy |-> header, mac |-> header, sent |-> now,
                    grace |-> grace, unknown |-> allowUnknown]
     /\ outcome' = "none"
     /\ UNCHANGED <<now, revokedAt, unknowns, agent, ready, file, loaded, answers,
                    evidence>>

\* Old clients set no headers; something on the way may drop one.
LoseHeader ==
  /\ request # None
  /\ \E lost \in {{"policy"}, {"mac"}, {"policy", "mac"}} :
       request' = [f \in DOMAIN request |-> IF f \in lost THEN None ELSE request[f]]
  /\ request' # request
  /\ UNCHANGED <<now, revokedAt, unknowns, agent, ready, file, loaded, outcome,
                 answers, evidence>>

\* The statuses a header stands for.
AcceptedStatuses(header) ==
  (IF "good" \in header.allowed THEN {Good} ELSE {})
  \cup (IF "unknown" \in header.allowed THEN {Unknown} ELSE {})
  \cup (IF "revoked" \in header.allowed THEN {Revoked(header.nbf)} ELSE {})

AllAccepted(accepted) ==
  \A i \in DOMAIN loaded : \A c \in Components : AcceptedBy(loaded[i][c], accepted)

\* VerifyOCSP. The secret may be gone; without it no header can be checked.
VerifyOCSP(secretKnown) ==
  /\ request # None
  /\ LET old == request.policy = None /\ request.mac = None
         genuine == /\ secretKnown
                    /\ request.policy # None /\ request.mac = request.policy
         accepted == IF old THEN {Good} ELSE AcceptedStatuses(request.policy)
     IN outcome' = IF (old \/ genuine) /\ AllAccepted(accepted)
                   THEN "served" ELSE "refused"
  /\ request' = None
  /\ UNCHANGED <<now, revokedAt, unknowns, agent, ready, file, loaded, answers,
                 evidence>>

-----------------------------------------------------------------------------
(* The responder                                                             *)

Tick ==
  /\ now < MaxTime
  /\ now' = now + 1
  /\ UNCHANGED <<revokedAt, unknowns, agent, ready, file, loaded, client, answers,
                 evidence>>

\* A certificate is revoked, from a date in whole seconds that may have passed.
Revoke ==
  /\ Cardinality({cert \in Registered : revokedAt[cert] # None}) < MaxRevoked
  /\ \E cert \in Registered, date \in {Second(t) : t \in 0..now} :
       /\ revokedAt[cert] = None
       /\ revokedAt' = [revokedAt EXCEPT ![cert] = date]
  /\ UNCHANGED <<now, unknowns, agent, ready, file, loaded, client, answers,
                 evidence>>

Next ==
  \/ Begin \/ IssueReport \/ VerifyReport \/ FetchVBIOSRIM \/ ValidateReport
  \/ \E c \in Components : AskResponder(c) \/ CombineAnswers(c)
  \/ SetGPUsReady \/ WriteStatus \/ Fail
  \/ StartProxy \/ LoseHeader
  \/ \E grace \in Graces, allowUnknown \in BOOLEAN : SendRequest(grace, allowUnknown)
  \/ \E secretKnown \in BOOLEAN : VerifyOCSP(secretKnown)
  \/ Tick \/ Revoke

Spec == Init /\ [][Next]_vars

-----------------------------------------------------------------------------
(* Properties                                                                *)

\* A reference value for every active resource of a document; of two with one
\* index the last one counts.
Measured(resources, blocks) ==
  \A n \in Active(resources) :
    (\A k \in Active(resources) : resources[k].index = resources[n].index => k <= n)
      => \E m \in DOMAIN blocks :
           /\ RecordIndex(blocks[m]) = resources[n].index
           /\ blocks[m].value \in resources[n].hashes

\* What a GPU must have shown in this run.
Verified(i) ==
  /\ i \in DOMAIN evidence
  /\ LET e == evidence[i]
     IN /\ e.report.nonce = e.nonce
        /\ \A j \in DOMAIN evidence \ {i} : evidence[j].nonce # e.nonce
        /\ e.report.signer = GPUChain[i][1]
        /\ \A c \in {"Driver", "VBIOS"} : Measured(e.rim[c].resources, e.report.blocks)

\* GPUs become ready only if every one of them, in this run, signed a report
\* with a nonce of its own that shows a reference value for every active
\* resource of both documents (verifyAndEnable, main.go:106-164).
ReadyIsVerified ==
  [][ready' /\ ~ready => \A i \in 1..GPUs : Verified(i)]_vars

\* The statuses requests are compared with tell no better than what the
\* responder said of any certificate of a GPU that is ready: a revocation shows,
\* with a date no later than its own, and so does a missing answer
\* (ocsp.go:113, inference.go:57).
StatusesTellTheWorst ==
  loaded # None =>
    /\ ready
    /\ \A i \in 1..GPUs, c \in Components : \A n \in DOMAIN answers[i][c] :
         LET said == answers[i][c][n] told == loaded[i][c]
         IN /\ said.value = "REVOKED" => told.value = "REVOKED" /\ told.at <= said.at
            /\ said.value = "UNKNOWN" => told.value # "GOOD"

WithinPolicy ==
  request # None /\ request' = None /\ outcome' = "served" =>
    \A i \in 1..GPUs, c \in Components : \A n \in DOMAIN answers[i][c] :
      LET said == answers[i][c][n]
      IN /\ said.value = "REVOKED" =>
              request.grace > 0 /\ request.sent - request.grace - said.at < TicksPerSecond
         /\ said.value = "UNKNOWN" => request.unknown

\* A request is served only within the policy of its sender: no certificate was
\* revoked before the grace period, but for the second a date is cut to, and none
\* is unknown unless that is allowed, not even behind an accepted revocation
\* (VerifyOCSP, inference.go:83; setDynamicHeaders, server.go:408; cmd.go:171).
ServedWithinPolicy == [][WithinPolicy]_vars

\* A client with both headers is refused only for what its policy rules out: its
\* secret is gone, a certificate is revoked, and since before the grace period if
\* it has one, or the responder left out an answer and the policy wants all. The
\* leaf no responder knows is no reason (agent ocsp.go:63, inference.go:121).
RefusedForAReason ==
  [][\A secretKnown \in BOOLEAN :
       /\ VerifyOCSP(secretKnown)
       /\ request.policy # None /\ request.mac # None
       /\ outcome' = "refused"
       => \/ ~secretKnown
          \/ \E cert \in Registered :
               /\ revokedAt[cert] # None
               /\ request.grace > 0 => revokedAt[cert] < request.sent - request.grace
          \/ ~request.unknown /\ unknowns < MaxUnknown]_vars
=============================================================================
