------------------------- MODULE GPUAttestation_proofs -------------------------
(* Type correctness of GPUAttestation, that GPUs become ready only when all of *)
(* them were verified, that the statuses a request is compared with tell the   *)
(* worst, that requests are served within their policies and refused only for  *)
(* a reason: for any number of GPUs, any chains, reports and reference values, *)
(* and any grace periods.                                                      *)
EXTENDS GPUAttestation, TLAPS, WellFoundedInduction

-----------------------------------------------------------------------------
(* Numbers and statuses                                                      *)

LEMMA LeastNumber ==
  ASSUME NEW D \in SUBSET Nat, D # {}
  PROVE  \E d \in D : \A e \in D : d <= e
<1>1. IsWellFoundedOn(OpToRel(<, Nat), Nat)
  BY NatLessThanWellFounded
<1>2. PICK d \in D : \A e \in D : ~ (<<e, d>> \in OpToRel(<, Nat))
  BY <1>1, WFMin
<1>3. ASSUME NEW e \in D PROVE d <= e
  <2>1. <<e, d>> \in Nat \X Nat /\ ~ (e < d)
    BY <1>2 DEF OpToRel
  <2>2. QED
    BY <2>1
<1>4. QED
  BY <1>3

LEMMA GreatestNumber ==
  ASSUME NEW N \in Nat, NEW D \in SUBSET (1..N), D # {}
  PROVE  \E d \in D : \A e \in D : e <= d
<1> DEFINE distance == {N - d : d \in D}
<1>1. distance \in SUBSET Nat /\ distance # {}
  <2>1. \A d \in D : N - d \in Nat
    OBVIOUS
  <2>2. QED
    BY <2>1
<1>2. PICK m \in distance : \A n \in distance : m <= n
  BY <1>1, LeastNumber
<1>3. PICK d \in D : m = N - d
  BY <1>2
<1>4. ASSUME NEW e \in D PROVE e <= d
  <2>1. m <= N - e
    BY <1>2
  <2>2. QED
    BY <1>3, <2>1
<1>5. QED
  BY <1>4

\* A date in a header is less than a second before the time it stands for.
LEMMA SecondBounds ==
  ASSUME NEW t \in Int
  PROVE  /\ Second(t) \in Int
         /\ Second(t) <= t /\ t - Second(t) < TicksPerSecond
         /\ t \in Nat => Second(t) \in Nat
<1> USE GPUAttestationAssumption DEF Second
<1>1. QED
  OBVIOUS

\* What the responder may say.
Said == {Good, Unknown} \cup {Revoked(date) : date \in 0..MaxTime}

\* The combination of statuses is good or one of them, and tells no better than
\* any of them.
LEMMA CombineTellsTheWorst ==
  ASSUME NEW s \in Seq(Said)
  PROVE  /\ CombineStatuses(s) \in Said
         /\ CombineStatuses(s) = Good \/ \E n \in DOMAIN s : CombineStatuses(s) = s[n]
         /\ \A n \in DOMAIN s :
              /\ s[n].value = "REVOKED" =>
                   CombineStatuses(s).value = "REVOKED" /\ CombineStatuses(s).at <= s[n].at
              /\ s[n].value = "UNKNOWN" => CombineStatuses(s).value # "GOOD"
<1> DEFINE dates == RevocationDates(s)
<1> USE DEF Good, Unknown, Revoked
<1>1. \A n \in DOMAIN s : s[n] \in Said
  OBVIOUS
<1>2. dates \in SUBSET (0..MaxTime)
  BY <1>1 DEF RevocationDates, Said
<1>3. \A n \in DOMAIN s : s[n].value = "UNKNOWN" => s[n] = Unknown
  BY <1>1 DEF Said
<1>4. CASE dates # {}
  <2>1. \E d \in dates : \A e \in dates : d <= e
    <3> HIDE DEF dates
    <3>1. dates \in SUBSET Nat
      BY <1>2, GPUAttestationAssumption
    <3>2. QED
      BY <1>4, <3>1, LeastNumber
  <2> DEFINE first == CHOOSE d \in dates : \A e \in dates : d <= e
  <2>2. first \in dates /\ \A e \in dates : first <= e
    BY <2>1
  <2>3. CombineStatuses(s) = Revoked(first)
    BY <1>4 DEF CombineStatuses
  <2>4. \A n \in DOMAIN s : s[n].value = "REVOKED" => s[n].at \in dates
    BY DEF RevocationDates
  <2>5. PICK n \in DOMAIN s : s[n].value = "REVOKED" /\ s[n].at = first
    BY <2>2 DEF RevocationDates
  <2>6. s[n] = Revoked(first)
    BY <1>1, <2>5 DEF Said
  <2> HIDE DEF first
  <2>7. QED
    BY <1>2, <2>2, <2>3, <2>4, <2>6 DEF Said
<1>5. CASE dates = {}
  <2>1. CombineStatuses(s) = IF \E n \in DOMAIN s : s[n] = Unknown THEN Unknown ELSE Good
    BY <1>5 DEF CombineStatuses
  <2>2. \A n \in DOMAIN s : s[n].value # "REVOKED"
    BY <1>5 DEF RevocationDates
  <2>3. QED
    BY <2>1, <2>2, <1>3 DEF Said
<1>6. QED
  BY <1>4, <1>5

-----------------------------------------------------------------------------
(* The inductive invariant                                                   *)

LoopPlaces == Components \cup {"issue", "verify", "vbios", "measure"}

TypeInv ==
  /\ TypeOK
  /\ revokedAt \in [RegisteredCerts -> (0..MaxTime) \cup {None}]
  /\ answers \in [1..GPUs -> [Components -> Seq(Said)]]
  /\ infos \in [1..GPUs -> [Components -> Said \cup {Unset}]]
  /\ pc \in LoopPlaces => gpu \in 1..GPUs

\* Where the loop has combined the responses of a component.
After == [GPU |-> {"verify", "Driver", "vbios", "VBIOS", "measure"},
          Driver |-> {"vbios", "VBIOS", "measure"},
          VBIOS |-> {"measure"}]

Settled(i, c) ==
  \/ pc \in {"enable", "write", "done"}
  \/ pc \in LoopPlaces /\ i < gpu
  \/ pc \in After[c] /\ i = gpu

StatusInv ==
  \A i \in 1..GPUs, c \in Components :
    Settled(i, c) => infos[i][c] = CombineStatuses(answers[i][c])

\* The agent does not run again once the inference proxy has read the file.
FileInv ==
  /\ pc \in {"write", "done"} => ready = TRUE
  /\ pc = "done" => file = infos
  /\ loaded # None => pc = "done" /\ loaded = infos

Header(r) == [allowed |-> Allowed(r.grace, r.unknown), nbf |-> Second(r.sent - r.grace)]

RequestInv ==
  request # None =>
    /\ outcome = "none" /\ loaded # None
    /\ DOMAIN request = {"policy", "mac", "sent", "grace", "unknown"}
    /\ request.sent \in Nat /\ request.grace \in Graces
    /\ ValidConfig(request.grace, request.unknown)
    /\ request.policy \in {None, Header(request)}
    /\ request.mac \in {None, Header(request)}

LEMMA InitInv == Init => TypeInv /\ StatusInv /\ FileInv /\ RequestInv
<1> SUFFICES ASSUME Init PROVE TypeInv /\ StatusInv /\ FileInv /\ RequestInv
  OBVIOUS
<1> USE GPUAttestationAssumption DEF Init
<1>1. TypeOK
  <2>1. \A cert \in Registered : revokedAt[cert] \in (0..MaxTime) \cup {None}
    BY DEF Registered
  <2>2. nonce \in (0..MaxRuns) \X (0..GPUs)
    OBVIOUS
  <2>3. pc \in Places /\ gpu \in 0..GPUs
    BY DEF Places
  <2>4. now \in 0..MaxTime /\ unknowns \in 0..MaxUnknown /\ runs \in 0..MaxRuns
    OBVIOUS
  <2>5. ready \in BOOLEAN /\ outcome \in {"none", "served", "refused"}
    OBVIOUS
  <2>6. QED
    BY <2>1, <2>2, <2>3, <2>4, <2>5 DEF TypeOK
<1>2. answers \in [1..GPUs -> [Components -> Seq(Said)]]
  BY DEF NoAnswers
<1>3. infos \in [1..GPUs -> [Components -> Said \cup {Unset}]]
  BY DEF NoInfos
<1>4. TypeInv
  BY <1>1, <1>2, <1>3 DEF TypeInv, LoopPlaces, Components
<1>5. StatusInv
  BY DEF StatusInv, Settled, LoopPlaces, After, Components
<1>6. FileInv /\ RequestInv
  BY DEF FileInv, RequestInv
<1>7. QED
  BY <1>4, <1>5, <1>6

\* A response is something the responder may say.
LEMMA ResponseSaid ==
  ASSUME TypeInv, NEW cert, NEW status \in Responses(cert)
  PROVE  /\ status \in Said
         /\ status = Unknown /\ cert \in Registered => unknowns > 0
<1> USE DEF Good, Unknown, Revoked
<1>1. cert \in Registered => revokedAt[cert] \in (0..MaxTime) \cup {None}
  BY DEF TypeInv, Registered
<1>2. QED
  BY <1>1, GPUAttestationAssumption DEF Responses, Said, TypeInv, TypeOK

LEMMA TypeStep ==
  ASSUME TypeInv, [Next]_vars
  PROVE  TypeInv'
<1> USE GPUAttestationAssumption DEF TypeInv, TypeOK, Registered
<1>1. CASE Begin
  BY <1>1 DEF Begin, client, Places, LoopPlaces, Components
<1>2. CASE IssueReport
  BY <1>2 DEF IssueReport, client, Places, LoopPlaces, Components
<1>3. CASE VerifyReport
  BY <1>3 DEF VerifyReport, client, Places, LoopPlaces, Components
<1>4. CASE FetchVBIOSRIM
  BY <1>4 DEF FetchVBIOSRIM, client, Places, LoopPlaces, Components
<1>5. CASE ValidateReport
  <2>1. gpu \in 1..GPUs
    BY <1>5 DEF ValidateReport, LoopPlaces
  <2>2. /\ pc' \in {"issue", "enable"} /\ gpu' \in 1..GPUs
        /\ UNCHANGED <<now, revokedAt, unknowns, runs, nonce, infos, ready, answers, outcome>>
    BY <1>5, <2>1 DEF ValidateReport, client
  <2>3. pc' \in Places
    BY <2>2 DEF Places
  <2>4. gpu' \in 0..GPUs
    BY <2>2
  <2>5. QED
    BY <2>2, <2>3, <2>4 DEF LoopPlaces
<1>6. ASSUME NEW c \in Components, AskResponder(c)
      PROVE  TypeInv'
  <2>1. gpu \in 1..GPUs
    BY <1>6 DEF AskResponder, LoopPlaces
  <2> DEFINE cert == CheckedChain(c)[Len(answers[gpu][c]) + 1]
  <2> HIDE DEF cert
  <2>2. PICK status \in Responses(cert) :
          /\ answers' = [answers EXCEPT ![gpu][c] = Append(@, status)]
          /\ unknowns' = IF status = Unknown /\ cert \in Registered
                         THEN unknowns - 1 ELSE unknowns
    BY <1>6 DEF AskResponder, cert
  <2>3. status \in Said /\ (status = Unknown /\ cert \in Registered => unknowns > 0)
    BY <2>2, ResponseSaid
  <2>4. answers[gpu][c] \in Seq(Said)
    BY <2>1
  <2>5. Append(answers[gpu][c], status) \in Seq(Said)
    BY <2>3, <2>4
  <2>6. answers' \in [1..GPUs -> [Components -> Seq(Said)]]
    BY <2>1, <2>2, <2>5
  <2>7. unknowns' \in 0..MaxUnknown
    BY <2>2, <2>3
  <2>8. UNCHANGED <<now, revokedAt, agent, ready, file, loaded, client, evidence>>
    BY <1>6 DEF AskResponder
  <2>9. QED
    BY <2>6, <2>7, <2>8 DEF agent, client
<1>7. ASSUME NEW c \in Components, CombineAnswers(c)
      PROVE  TypeInv'
  <2>1. gpu \in 1..GPUs
    BY <1>7 DEF CombineAnswers, LoopPlaces
  <2>2. CombineStatuses(answers[gpu][c]) \in Said
    BY <2>1, CombineTellsTheWorst
  <2>3. infos' \in [1..GPUs -> [Components -> Said \cup {Unset}]]
    BY <1>7, <2>2 DEF CombineAnswers
  <2>4. pc' \in {"verify", "vbios", "measure"}
    BY <1>7 DEF CombineAnswers, AfterCheck, Components
  <2>5. QED
    BY <1>7, <2>1, <2>3, <2>4 DEF CombineAnswers, client, Places, LoopPlaces
<1>8. CASE SetGPUsReady
  BY <1>8 DEF SetGPUsReady, client, Places, LoopPlaces, Components
<1>9. CASE WriteStatus
  BY <1>9 DEF WriteStatus, client, Places, LoopPlaces, Components
<1>10. CASE Fail
  BY <1>10 DEF Fail, client, Places, LoopPlaces, Components, NoAnswers, NoInfos
<1>11. CASE StartProxy
  BY <1>11 DEF StartProxy, client, agent
<1>12. CASE LoseHeader
  BY <1>12 DEF LoseHeader, agent
<1>13. ASSUME NEW grace \in Graces, NEW allowUnknown \in BOOLEAN, SendRequest(grace, allowUnknown)
       PROVE  TypeInv'
  BY <1>13 DEF SendRequest, agent
<1>14. ASSUME NEW secretKnown \in BOOLEAN, VerifyOCSP(secretKnown)
       PROVE  TypeInv'
  <2>1. outcome' \in {"served", "refused"}
    BY <1>14 DEF VerifyOCSP
  <2>2. QED
    BY <1>14, <2>1 DEF VerifyOCSP, agent
<1>15. CASE Tick
  BY <1>15 DEF Tick, agent, client
<1>16. CASE Revoke
  <2>1. PICK cert \in Registered, date \in {Second(t) : t \in 0..now} :
          revokedAt' = [revokedAt EXCEPT ![cert] = date]
    BY <1>16 DEF Revoke
  <2>2. PICK t \in 0..now : date = Second(t)
    BY <2>1
  <2>3. date \in 0..MaxTime
    BY <2>2, SecondBounds, SMTT(20)
  <2>4. revokedAt' \in [RegisteredCerts -> (0..MaxTime) \cup {None}]
    BY <2>1, <2>3
  <2>5. QED
    BY <1>16, <2>4 DEF Revoke, agent, client
<1>17. CASE UNCHANGED vars
  BY <1>17 DEF vars, agent, client
<1>18. QED
  BY <1>1, <1>2, <1>3, <1>4, <1>5, <1>6, <1>7, <1>8, <1>9, <1>10, <1>11, <1>12,
     <1>13, <1>14, <1>15, <1>16, <1>17 DEF Next

\* Steps that are not the agent's leave what it has combined.
LEMMA StatusFrame ==
  ASSUME StatusInv, UNCHANGED <<pc, gpu, infos, answers>>
  PROVE  StatusInv'
BY DEF StatusInv, Settled

LEMMA StatusStep ==
  ASSUME TypeInv, StatusInv, [Next]_vars
  PROVE  StatusInv'
<1> USE GPUAttestationAssumption
<1>1. CASE Begin
  BY <1>1 DEF Begin, StatusInv, Settled, LoopPlaces, After, Components
<1>2. CASE IssueReport
  <2>1. pc = "issue" /\ pc' = "GPU" /\ UNCHANGED <<gpu, infos, answers>>
    BY <1>2 DEF IssueReport
  <2>2. QED
    BY <2>1 DEF StatusInv, Settled, LoopPlaces, After, Components
<1>3. CASE VerifyReport
  BY <1>3 DEF VerifyReport, StatusInv, Settled, LoopPlaces, After, Components
<1>4. CASE FetchVBIOSRIM
  BY <1>4 DEF FetchVBIOSRIM, StatusInv, Settled, LoopPlaces, After, Components
<1>5. CASE ValidateReport
  <2>1. gpu \in 1..GPUs /\ pc = "measure"
    BY <1>5 DEF ValidateReport, TypeInv, LoopPlaces
  <2>2. UNCHANGED <<infos, answers>>
    BY <1>5 DEF ValidateReport
  <2>3. \/ gpu < GPUs /\ pc' = "issue" /\ gpu' = gpu + 1
        \/ gpu >= GPUs /\ pc' = "enable" /\ gpu' = gpu
    BY <1>5, <2>1 DEF ValidateReport
  <2>4. ASSUME NEW i \in 1..GPUs, NEW c \in Components, Settled(i, c)'
        PROVE  Settled(i, c)
    <3>1. i <= gpu
      BY <2>1, <2>3, <2>4 DEF Settled, After, Components
    <3>2. QED
      BY <2>1, <3>1 DEF Settled, LoopPlaces, After, Components
  <2>5. QED
    BY <2>2, <2>4 DEF StatusInv
<1>6. ASSUME NEW c \in Components, AskResponder(c)
      PROVE  StatusInv'
  <2>1. pc = c /\ gpu \in 1..GPUs
    BY <1>6 DEF AskResponder, TypeInv, LoopPlaces
  <2>2. \E status : answers' = [answers EXCEPT ![gpu][c] = Append(@, status)]
    BY <1>6 DEF AskResponder
  <2>3. UNCHANGED <<pc, gpu, infos>>
    BY <1>6 DEF AskResponder, agent
  <2>4. ASSUME NEW i \in 1..GPUs, NEW d \in Components, Settled(i, d)
        PROVE  answers'[i][d] = answers[i][d]
    <3>1. i # gpu \/ d # c
      BY <2>1, <2>4 DEF Settled, After, Components
    <3>2. QED
      BY <2>1, <2>2, <3>1 DEF TypeInv
  <2>5. QED
    BY <2>3, <2>4 DEF StatusInv, Settled
<1>7. ASSUME NEW c \in Components, CombineAnswers(c)
      PROVE  StatusInv'
  <2>1. pc = c /\ gpu \in 1..GPUs /\ UNCHANGED <<gpu, answers>>
    BY <1>7 DEF CombineAnswers, TypeInv, LoopPlaces
  <2>2. infos' = [infos EXCEPT ![gpu][c] = CombineStatuses(answers[gpu][c])]
    BY <1>7 DEF CombineAnswers
  <2>3. pc' = AfterCheck[c]
    BY <1>7 DEF CombineAnswers
  <2>4. ASSUME NEW i \in 1..GPUs, NEW d \in Components, Settled(i, d)'
        PROVE  infos'[i][d] = CombineStatuses(answers[i][d])
    <3>1. CASE i = gpu /\ d = c
      BY <2>1, <2>2, <3>1 DEF TypeInv
    <3>2. CASE i # gpu \/ d # c
      <4>1. Settled(i, d)
        BY <2>1, <2>3, <2>4, <3>2 DEF Settled, LoopPlaces, After, AfterCheck, Components
      <4>2. infos'[i][d] = infos[i][d]
        BY <2>1, <2>2, <3>2 DEF TypeInv
      <4>3. QED
        BY <4>1, <4>2 DEF StatusInv
    <3>3. QED
      BY <3>1, <3>2
  <2>5. QED
    BY <2>1, <2>4 DEF StatusInv
<1>8. CASE SetGPUsReady
  BY <1>8 DEF SetGPUsReady, StatusInv, Settled, LoopPlaces, After, Components
<1>9. CASE WriteStatus
  BY <1>9 DEF WriteStatus, StatusInv, Settled, LoopPlaces, After, Components
<1>10. CASE Fail
  BY <1>10 DEF Fail, StatusInv, Settled, LoopPlaces, After, Components
<1>11. CASE StartProxy \/ LoseHeader \/ Tick \/ Revoke \/ UNCHANGED vars
  BY <1>11, StatusFrame DEF StartProxy, LoseHeader, Tick, Revoke, vars, agent
<1>12. CASE \E grace \in Graces, allowUnknown \in BOOLEAN : SendRequest(grace, allowUnknown)
  BY <1>12, StatusFrame DEF SendRequest, agent
<1>13. CASE \E secretKnown \in BOOLEAN : VerifyOCSP(secretKnown)
  BY <1>13, StatusFrame DEF VerifyOCSP, agent
<1>14. QED
  BY <1>1, <1>2, <1>3, <1>4, <1>5, <1>6, <1>7, <1>8, <1>9, <1>10, <1>11, <1>12,
     <1>13 DEF Next

LEMMA FileStep ==
  ASSUME TypeInv, FileInv, [Next]_vars
  PROVE  FileInv'
<1> USE DEF FileInv
<1>1. CASE Begin
  BY <1>1 DEF Begin
<1>2. CASE IssueReport \/ VerifyReport \/ FetchVBIOSRIM
  BY <1>2 DEF IssueReport, VerifyReport, FetchVBIOSRIM
<1>3. CASE ValidateReport
  BY <1>3 DEF ValidateReport
<1>4. ASSUME NEW c \in Components, AskResponder(c)
      PROVE  FileInv'
  BY <1>4 DEF AskResponder, agent
<1>5. ASSUME NEW c \in Components, CombineAnswers(c)
      PROVE  FileInv'
  BY <1>5 DEF CombineAnswers, AfterCheck, Components
<1>6. CASE SetGPUsReady \/ WriteStatus \/ Fail
  BY <1>6 DEF SetGPUsReady, WriteStatus, Fail
<1>7. CASE StartProxy \/ LoseHeader \/ Tick \/ Revoke \/ UNCHANGED vars
  BY <1>7 DEF StartProxy, LoseHeader, Tick, Revoke, vars, agent
<1>8. CASE \E grace \in Graces, allowUnknown \in BOOLEAN : SendRequest(grace, allowUnknown)
  BY <1>8 DEF SendRequest, agent
<1>9. CASE \E secretKnown \in BOOLEAN : VerifyOCSP(secretKnown)
  BY <1>9 DEF VerifyOCSP, agent
<1>10. QED
  BY <1>1, <1>2, <1>3, <1>4, <1>5, <1>6, <1>7, <1>8, <1>9 DEF Next

LEMMA RequestStep ==
  ASSUME TypeInv, FileInv, RequestInv, [Next]_vars
  PROVE  RequestInv'
<1>1. CASE UNCHANGED <<request, outcome, loaded>>
  BY <1>1 DEF RequestInv, Header, Allowed
<1>2. CASE StartProxy
  BY <1>2 DEF StartProxy, client, RequestInv, Header, Allowed
<1>3. CASE LoseHeader
  <2>1. PICK lost \in {{"policy"}, {"mac"}, {"policy", "mac"}} :
          request' = [f \in DOMAIN request |-> IF f \in lost THEN None ELSE request[f]]
    BY <1>3 DEF LoseHeader
  <2>2. request # None /\ UNCHANGED <<outcome, loaded>>
    BY <1>3 DEF LoseHeader
  <2>3. DOMAIN request = {"policy", "mac", "sent", "grace", "unknown"}
    BY <2>2 DEF RequestInv
  <2>4. /\ request'.sent = request.sent /\ request'.grace = request.grace
        /\ request'.unknown = request.unknown
        /\ request'.policy \in {None, request.policy}
        /\ request'.mac \in {None, request.mac}
        /\ DOMAIN request' = DOMAIN request
    BY <2>1, <2>3
  <2>5. QED
    BY <2>2, <2>4 DEF RequestInv, Header
<1>4. ASSUME NEW grace \in Graces, NEW allowUnknown \in BOOLEAN, SendRequest(grace, allowUnknown)
      PROVE  RequestInv'
  <2> DEFINE header == [allowed |-> Allowed(grace, allowUnknown), nbf |-> Second(now - grace)]
  <2>1. request' = [policy |-> header, mac |-> header, sent |-> now,
                    grace |-> grace, unknown |-> allowUnknown]
    BY <1>4 DEF SendRequest
  <2>2. Header(request') = header
    BY <2>1 DEF Header
  <2>3. outcome' = "none" /\ loaded' = loaded /\ loaded # None /\ ValidConfig(grace, allowUnknown)
    BY <1>4 DEF SendRequest
  <2>4. now \in Nat
    BY GPUAttestationAssumption DEF TypeInv, TypeOK
  <2> HIDE DEF header
  <2>5. QED
    BY <2>1, <2>2, <2>3, <2>4 DEF RequestInv
<1>5. CASE \E secretKnown \in BOOLEAN : VerifyOCSP(secretKnown)
  BY <1>5 DEF VerifyOCSP, RequestInv
<1>6. CASE Begin \/ IssueReport \/ VerifyReport \/ FetchVBIOSRIM \/ ValidateReport
           \/ SetGPUsReady \/ WriteStatus \/ Fail \/ Tick \/ Revoke \/ UNCHANGED vars
  BY <1>1, <1>6 DEF Begin, IssueReport, VerifyReport, FetchVBIOSRIM, ValidateReport,
     SetGPUsReady, WriteStatus, Fail, Tick, Revoke, vars, client
<1>7. CASE \E c \in Components : AskResponder(c) \/ CombineAnswers(c)
  BY <1>1, <1>7 DEF AskResponder, CombineAnswers, client
<1>8. QED
  BY <1>2, <1>3, <1>4, <1>5, <1>6, <1>7 DEF Next

-----------------------------------------------------------------------------
(* What follows                                                              *)

IInv == TypeInv /\ StatusInv /\ FileInv /\ RequestInv

\* The inductive invariant, for any number of GPUs, runs and revocations.
THEOREM Invariance == Spec => []IInv
<1>1. Init => IInv
  BY InitInv DEF IInv
<1>2. IInv /\ [Next]_vars => IInv'
  BY TypeStep, StatusStep, FileStep, RequestStep DEF IInv
<1>3. QED
  BY <1>1, <1>2, PTL DEF Spec

\* The variables keep their types.
THEOREM TypeCorrect == Spec => []TypeOK
<1>1. IInv => TypeOK
  BY DEF IInv, TypeInv
<1>2. QED
  BY <1>1, Invariance, PTL

\* The statuses the inference proxy has read tell the worst of every response.
LEMMA LoadedTellsTheWorst ==
  ASSUME IInv, loaded # None, NEW i \in 1..GPUs, NEW c \in Components,
         NEW n \in DOMAIN answers[i][c]
  PROVE  /\ loaded[i][c] \in Said /\ answers[i][c][n] \in Said
         /\ answers[i][c][n].value = "REVOKED" =>
              loaded[i][c].value = "REVOKED" /\ loaded[i][c].at <= answers[i][c][n].at
         /\ answers[i][c][n].value = "UNKNOWN" => loaded[i][c].value # "GOOD"
<1>1. loaded = infos /\ pc = "done"
  BY DEF IInv, FileInv
<1>2. infos[i][c] = CombineStatuses(answers[i][c])
  BY <1>1 DEF IInv, StatusInv, Settled
<1>3. answers[i][c] \in Seq(Said)
  BY DEF IInv, TypeInv
<1>4. answers[i][c][n] \in Said
  BY <1>3
<1>5. QED
  BY <1>1, <1>2, <1>3, <1>4, CombineTellsTheWorst

\* What requests are compared with tells no better than the responder did.
THEOREM WorstIsTold == Spec => []StatusesTellTheWorst
<1>1. IInv => StatusesTellTheWorst
  <2>1. SUFFICES ASSUME IInv, loaded # None PROVE StatusesTellTheWorst
    BY DEF StatusesTellTheWorst
  <2>2. ready
    BY <2>1 DEF IInv, FileInv
  <2>3. QED
    BY <2>1, <2>2, LoadedTellsTheWorst DEF StatusesTellTheWorst
<1>2. QED
  BY <1>1, Invariance, PTL

\* A step that serves a request is VerifyOCSP's, and its policy allows it.
LEMMA ServingStep ==
  ASSUME IInv, [Next]_vars, request # None, request' = None, outcome' = "served",
         NEW i \in 1..GPUs, NEW c \in Components, NEW n \in DOMAIN answers[i][c]
  PROVE  /\ answers[i][c][n].value = "REVOKED" =>
              /\ request.grace > 0
              /\ request.sent - request.grace - answers[i][c][n].at < TicksPerSecond
         /\ answers[i][c][n].value = "UNKNOWN" => request.unknown
<1> DEFINE said == answers[i][c][n]
           told == loaded[i][c]
           accepted == IF request.policy = None /\ request.mac = None THEN {Good}
                       ELSE AcceptedStatuses(request.policy)
<1>1. outcome = "none" /\ loaded # None
  BY DEF IInv, RequestInv
<1>2. \E secretKnown \in BOOLEAN : VerifyOCSP(secretKnown)
  <2>1. ~ UNCHANGED outcome /\ ~ UNCHANGED request
    BY <1>1
  <2>2. CASE Begin \/ IssueReport \/ VerifyReport \/ FetchVBIOSRIM \/ ValidateReport
             \/ SetGPUsReady \/ WriteStatus \/ Fail \/ StartProxy \/ Tick \/ Revoke
             \/ UNCHANGED vars
    BY <2>1, <2>2 DEF Begin, IssueReport, VerifyReport, FetchVBIOSRIM, ValidateReport,
       SetGPUsReady, WriteStatus, Fail, StartProxy, Tick, Revoke, vars, client
  <2>3. CASE \E d \in Components : AskResponder(d) \/ CombineAnswers(d)
    BY <2>1, <2>3 DEF AskResponder, CombineAnswers, client
  <2>4. CASE LoseHeader
    BY <2>1, <2>4 DEF LoseHeader
  <2>5. CASE \E grace \in Graces, allowUnknown \in BOOLEAN : SendRequest(grace, allowUnknown)
    BY <2>5 DEF SendRequest
  <2>6. QED
    BY <2>2, <2>3, <2>4, <2>5 DEF Next
<1>3. /\ AllAccepted(accepted)
      /\ request.policy = None => accepted = {Good}
  BY <1>2 DEF VerifyOCSP
<1>4. /\ told \in Said /\ said \in Said
      /\ said.value = "REVOKED" => told.value = "REVOKED" /\ told.at <= said.at
      /\ said.value = "UNKNOWN" => told.value # "GOOD"
  BY <1>1, LoadedTellsTheWorst
<1>5. PICK a \in accepted : a.value = told.value /\ ~ (told.at < a.at)
  <2>1. loaded \in [1..GPUs -> [Components -> Said \cup {Unset}]]
    BY <1>1 DEF IInv, FileInv, TypeInv
  <2>2. AcceptedBy(told, accepted)
    BY <1>3, <2>1 DEF AllAccepted
  <2>3. QED
    BY <2>2 DEF AcceptedBy
<1>6. CASE told.value = "GOOD"
  BY <1>4, <1>6
<1>7. CASE told.value # "GOOD"
  <2>1. request.policy = Header(request) /\ accepted = AcceptedStatuses(Header(request))
    BY <1>3, <1>5, <1>7 DEF IInv, RequestInv, Good
  <2>2. /\ "unknown" \in Allowed(request.grace, request.unknown) => request.unknown
        /\ "revoked" \in Allowed(request.grace, request.unknown) => request.grace > 0
    BY DEF Allowed
  <2>3. /\ told.value = "UNKNOWN" => request.unknown
        /\ told.value = "REVOKED" =>
             request.grace > 0 /\ ~ (told.at < Second(request.sent - request.grace))
    BY <1>5, <2>1, <2>2 DEF AcceptedStatuses, Header, Good, Unknown, Revoked
  <2>4. request.grace > 0 => request.unknown
    BY GPUAttestationAssumption DEF IInv, RequestInv, ValidConfig
  <2>5. told.value \in {"UNKNOWN", "REVOKED"}
    BY <1>4, <1>7 DEF Said, Good, Unknown, Revoked
  <2>6. ASSUME said.value = "REVOKED"
        PROVE  request.grace > 0 /\ request.sent - request.grace - said.at < TicksPerSecond
    <3>1. told.at \in Nat /\ said.at \in Nat
      BY <1>4 DEF Said, Good, Unknown, Revoked
    <3>2. request.sent - request.grace \in Int
      BY <1>1, GPUAttestationAssumption DEF IInv, RequestInv
    <3> DEFINE nbf == Second(request.sent - request.grace)
    <3>3. nbf \in Int /\ request.sent - request.grace - nbf < TicksPerSecond
      BY <3>2, SecondBounds
    <3>4. ~ (told.at < nbf) /\ told.at <= said.at
      BY <1>4, <2>3, <2>6
    <3> HIDE DEF nbf
    <3>5. QED
      BY <1>4, <2>3, <2>6, <3>1, <3>2, <3>3, <3>4, GPUAttestationAssumption
  <2>7. QED
    BY <2>3, <2>4, <2>5, <2>6
<1>8. QED
  BY <1>6, <1>7

\* Every request that is served is served within the policy of its sender.
THEOREM PolicyIsKept == Spec => ServedWithinPolicy
<1>1. IInv /\ [Next]_vars => [WithinPolicy]_vars
  BY ServingStep DEF WithinPolicy
<1>2. QED
  BY <1>1, Invariance, PTL DEF Spec, ServedWithinPolicy

-----------------------------------------------------------------------------
(* Ready GPUs                                                                *)

ProperSeq(s) == DOMAIN s = 1..Len(s) /\ Len(s) \in Nat

\* A report that ValidateMeasurements accepts measured every active resource.
LEMMA ValidIsMeasured ==
  ASSUME NEW r, NEW driver, NEW vbios, ValidMeasurements(r, driver, vbios),
         ProperSeq(r.blocks), ProperSeq(driver), ProperSeq(vbios)
  PROVE  Measured(driver, r.blocks) /\ Measured(vbios, r.blocks)
<1> DEFINE golden == GoldenMeasurements(driver, vbios)
           records == MeasurementRecords(r.blocks)
           keys == [n \in DOMAIN r.blocks |-> RecordIndex(r.blocks[n])]
<1>1. /\ Indices(driver) \cap Indices(vbios) = {}
      /\ \A i \in DOMAIN golden : i \in DOMAIN records /\ records[i] \in golden[i]
  BY DEF ValidMeasurements, GoldenExists, Matches
<1>2. ASSUME NEW i \in DOMAIN records
      PROVE  \E m \in DOMAIN r.blocks :
               RecordIndex(r.blocks[m]) = i /\ r.blocks[m].value = records[i]
  <2> DEFINE here == {n \in DOMAIN keys : keys[n] = i}
  <2>1. records[i] = r.blocks[LastOf(keys, i)].value /\ here # {}
    BY DEF MeasurementRecords
  <2>2. here \in SUBSET (1..Len(r.blocks)) /\ Len(r.blocks) \in Nat
    BY DEF ProperSeq
  <2>3. \E d \in here : \A e \in here : e <= d
    BY <2>1, <2>2, GreatestNumber
  <2>4. \E n \in DOMAIN keys :
          keys[n] = i /\ \A m \in DOMAIN keys : keys[m] = i => m <= n
    BY <2>3
  <2>5. LastOf(keys, i) \in DOMAIN keys /\ keys[LastOf(keys, i)] = i
    BY <2>4 DEF LastOf
  <2>6. QED
    BY <2>1, <2>5
<1>3. ASSUME NEW doc, ProperSeq(doc), NEW n \in Active(doc),
             \A k \in Active(doc) : doc[k].index = doc[n].index => k <= n
      PROVE  Hashes(doc, doc[n].index) = doc[n].hashes
  <2> DEFINE last(m) == /\ doc[m].index = doc[n].index
                        /\ \A k \in Active(doc) : doc[k].index = doc[n].index => k <= m
  <2>1. Active(doc) \subseteq Nat
    BY <1>3 DEF Active, ProperSeq
  <2>2. last(n) /\ \A m \in Active(doc) : last(m) => m = n
    BY <1>3, <2>1
  <2>3. (CHOOSE m \in Active(doc) : last(m)) = n
    BY <2>2
  <2>4. QED
    BY <2>3 DEF Hashes
<1>4. ASSUME NEW doc \in {driver, vbios} PROVE Measured(doc, r.blocks)
  <2>1. SUFFICES ASSUME NEW n \in Active(doc),
                        \A k \in Active(doc) : doc[k].index = doc[n].index => k <= n
                 PROVE  \E m \in DOMAIN r.blocks :
                          /\ RecordIndex(r.blocks[m]) = doc[n].index
                          /\ r.blocks[m].value \in doc[n].hashes
    BY DEF Measured
  <2> DEFINE i == doc[n].index
  <2>2. i \in Indices(doc) /\ i \in DOMAIN golden
    BY <1>4 DEF Indices, GoldenMeasurements
  <2>3. golden[i] = Hashes(doc, i)
    BY <1>1, <1>4, <2>2 DEF GoldenMeasurements
  <2>4. golden[i] = doc[n].hashes
    BY <1>3, <2>1, <2>3
  <2>5. i \in DOMAIN records /\ records[i] \in golden[i]
    BY <1>1, <2>2
  <2>6. QED
    BY <1>2, <2>4, <2>5
<1>5. QED
  BY <1>4

\* What the loop leaves behind of a GPU, but for the nonces of the others.
Shows(i) ==
  /\ i \in DOMAIN evidence
  /\ evidence[i].report.nonce = evidence[i].nonce
  /\ evidence[i].report.signer = GPUChain[i][1]
  /\ \A c \in {"Driver", "VBIOS"} :
       Measured(evidence[i].rim[c].resources, evidence[i].report.blocks)

EvidenceInv ==
  /\ pc \in {"start", "failed"} => DOMAIN evidence = {}
  /\ \A j \in DOMAIN evidence : evidence[j].nonce = <<runs, j>>
  /\ \A i \in 1..GPUs : pc = "enable" \/ (pc \in LoopPlaces /\ i < gpu) => Shows(i)
  /\ DOMAIN rim = {"Driver", "VBIOS"}
  /\ pc \in LoopPlaces \ {"issue"} =>
       nonce = <<runs, gpu>> /\ ProperSeq(report.blocks)
  /\ pc \in {"Driver", "vbios", "VBIOS", "measure"} =>
       /\ report.nonce = nonce /\ report.signer = GPUChain[gpu][1]
       /\ rim["Driver"] \in DriverRIMs
  /\ pc \in {"VBIOS", "measure"} => rim["VBIOS"] \in VBIOSRIMs

LEMMA InitEvidence == Init => EvidenceInv
<1> SUFFICES ASSUME Init PROVE EvidenceInv
  OBVIOUS
<1>1. DOMAIN evidence = {} /\ DOMAIN rim = {"Driver", "VBIOS"} /\ pc = "start"
  BY DEF Init, NoEvidence, NoRIM
<1>2. QED
  BY <1>1 DEF EvidenceInv, LoopPlaces, Components

LEMMA EvidenceFrame ==
  ASSUME EvidenceInv, UNCHANGED <<runs, pc, gpu, nonce, report, rim, evidence>>
  PROVE  EvidenceInv'
BY DEF EvidenceInv, Shows, ProperSeq

LEMMA EvidenceStep ==
  ASSUME TypeInv, EvidenceInv, [Next]_vars
  PROVE  EvidenceInv'
<1> USE GPUAttestationAssumption
<1>1. CASE Begin
  <2>1. /\ pc \in {"start", "failed"} /\ UNCHANGED <<rim, evidence>>
        /\ GPUs # 0 => gpu' = 1 /\ pc' = "issue"
        /\ GPUs = 0 => pc' = "enable"
    BY <1>1 DEF Begin
  <2>2. QED
    BY <2>1 DEF EvidenceInv, LoopPlaces, Components
<1>2. CASE IssueReport
  <2>1. PICK body \in Bodies : \E n \in {nonce, nonce'} : report' = [body EXCEPT !.nonce = n]
    BY <1>2 DEF IssueReport
  <2>2. report'.blocks = body.blocks /\ ProperSeq(body.blocks)
    BY <2>1 DEF ProperSeq
  <2>3. /\ pc = "issue" /\ pc' = "GPU" /\ nonce' = <<runs, gpu>>
        /\ UNCHANGED <<runs, gpu, rim, evidence>>
    BY <1>2 DEF IssueReport
  <2>4. ProperSeq(report.blocks)'
    BY <2>2 DEF ProperSeq
  <2>5. \A i \in 1..GPUs : i < gpu => Shows(i)'
    BY <2>3 DEF EvidenceInv, Shows, LoopPlaces
  <2>6. QED
    BY <2>3, <2>4, <2>5 DEF EvidenceInv, LoopPlaces
<1>3. CASE VerifyReport
  <2>1. PICK doc \in DriverRIMs : rim' = [rim EXCEPT !["Driver"] = doc]
    BY <1>3 DEF VerifyReport
  <2>2. /\ pc = "verify" /\ pc' = "Driver"
        /\ UNCHANGED <<runs, gpu, nonce, report, evidence>>
        /\ report.nonce = nonce /\ report.signer = GPUChain[gpu][1]
    BY <1>3 DEF VerifyReport, Verifies, SignedBy
  <2>3. DOMAIN rim' = {"Driver", "VBIOS"} /\ rim'["Driver"] \in DriverRIMs
    BY <2>1 DEF EvidenceInv
  <2>4. \A i \in 1..GPUs : i < gpu => Shows(i)'
    BY <2>2 DEF EvidenceInv, Shows, LoopPlaces
  <2>5. QED
    BY <2>2, <2>3, <2>4 DEF EvidenceInv, LoopPlaces, ProperSeq, Components
<1>4. CASE FetchVBIOSRIM
  <2>1. PICK doc \in VBIOSRIMs : rim' = [rim EXCEPT !["VBIOS"] = doc]
    BY <1>4 DEF FetchVBIOSRIM
  <2>2. /\ pc = "vbios" /\ pc' = "VBIOS"
        /\ UNCHANGED <<runs, gpu, nonce, report, evidence>>
    BY <1>4 DEF FetchVBIOSRIM
  <2>3. /\ DOMAIN rim' = {"Driver", "VBIOS"}
        /\ rim'["Driver"] \in DriverRIMs /\ rim'["VBIOS"] \in VBIOSRIMs
    BY <2>1, <2>2 DEF EvidenceInv
  <2>4. \A i \in 1..GPUs : i < gpu => Shows(i)'
    BY <2>2 DEF EvidenceInv, Shows, LoopPlaces
  <2>5. QED
    BY <2>2, <2>3, <2>4 DEF EvidenceInv, LoopPlaces, ProperSeq, Components
<1>5. CASE ValidateReport
  <2>1. /\ pc = "measure" /\ gpu \in 1..GPUs
        /\ ValidMeasurements(report, rim["Driver"].resources, rim["VBIOS"].resources)
        /\ evidence' = Shown(gpu)
        /\ UNCHANGED <<runs, nonce, report, rim>>
    BY <1>5 DEF ValidateReport, TypeInv, LoopPlaces
  <2>2. \/ gpu < GPUs /\ pc' = "issue" /\ gpu' = gpu + 1
        \/ gpu >= GPUs /\ pc' = "enable" /\ gpu' = gpu
    BY <1>5, <2>1 DEF ValidateReport
  <2>3. /\ nonce = <<runs, gpu>> /\ ProperSeq(report.blocks)
        /\ report.nonce = nonce /\ report.signer = GPUChain[gpu][1]
        /\ rim["Driver"] \in DriverRIMs /\ rim["VBIOS"] \in VBIOSRIMs
    BY <2>1 DEF EvidenceInv, LoopPlaces
  <2>4. ProperSeq(rim["Driver"].resources) /\ ProperSeq(rim["VBIOS"].resources)
    BY <2>3 DEF ProperSeq
  <2>5. /\ Measured(rim["Driver"].resources, report.blocks)
        /\ Measured(rim["VBIOS"].resources, report.blocks)
    BY <2>1, <2>3, <2>4, ValidIsMeasured
  <2>6. /\ DOMAIN evidence' = DOMAIN evidence \cup {gpu}
        /\ evidence'[gpu] = [report |-> report, nonce |-> nonce, rim |-> rim]
        /\ \A j \in DOMAIN evidence \ {gpu} : evidence'[j] = evidence[j]
    BY <2>1 DEF Shown
  <2>7. ASSUME NEW i \in 1..GPUs, i = gpu PROVE Shows(i)'
    <3>1. /\ i \in DOMAIN evidence' /\ evidence'[i].report = report
          /\ evidence'[i].nonce = nonce /\ evidence'[i].rim = rim
      BY <2>6, <2>7
    <3>2. /\ evidence'[i].report.nonce = evidence'[i].nonce
          /\ evidence'[i].report.signer = GPUChain[i][1]
      BY <2>3, <2>7, <3>1
    <3>3. ASSUME NEW c \in {"Driver", "VBIOS"}
          PROVE  Measured(evidence'[i].rim[c].resources, evidence'[i].report.blocks)
      BY <2>5, <3>1
    <3>4. QED
      BY <3>1, <3>2, <3>3 DEF Shows
  <2>8. ASSUME NEW i \in 1..GPUs, i < gpu PROVE Shows(i)'
    <3>1. Shows(i) /\ i # gpu
      BY <2>1, <2>8 DEF EvidenceInv, LoopPlaces
    <3>2. QED
      BY <2>6, <3>1 DEF Shows
  <2>9. \A j \in DOMAIN evidence' : evidence'[j].nonce = <<runs, j>>
    BY <2>3, <2>6 DEF EvidenceInv
  <2>10. DOMAIN rim = {"Driver", "VBIOS"}
    BY DEF EvidenceInv
  <2>11. QED
    BY <2>1, <2>2, <2>7, <2>8, <2>9, <2>10 DEF EvidenceInv, LoopPlaces, Components
<1>6. CASE SetGPUsReady
  BY <1>6 DEF SetGPUsReady, EvidenceInv, LoopPlaces, Components
<1>7. CASE WriteStatus
  BY <1>7 DEF WriteStatus, EvidenceInv, LoopPlaces, Components
<1>8. CASE Fail
  BY <1>8 DEF Fail, EvidenceInv, LoopPlaces, Components, NoEvidence, NoRIM
<1>9. ASSUME NEW c \in Components, AskResponder(c)
      PROVE  EvidenceInv'
  BY <1>9, EvidenceFrame DEF AskResponder, agent
<1>10. ASSUME NEW c \in Components, CombineAnswers(c)
       PROVE  EvidenceInv'
  <2>1. /\ pc = c /\ pc' = AfterCheck[c]
        /\ UNCHANGED <<runs, gpu, nonce, report, rim, evidence>>
    BY <1>10 DEF CombineAnswers
  <2>2. \A i \in 1..GPUs : Shows(i) => Shows(i)'
    BY <2>1 DEF Shows
  <2>3. QED
    BY <2>1, <2>2 DEF EvidenceInv, LoopPlaces, Components, AfterCheck, ProperSeq
<1>11. CASE StartProxy \/ LoseHeader \/ Tick \/ Revoke \/ UNCHANGED vars
  BY <1>11, EvidenceFrame DEF StartProxy, LoseHeader, Tick, Revoke, vars, agent
<1>12. CASE \E grace \in Graces, allowUnknown \in BOOLEAN : SendRequest(grace, allowUnknown)
  BY <1>12, EvidenceFrame DEF SendRequest, agent
<1>13. CASE \E secretKnown \in BOOLEAN : VerifyOCSP(secretKnown)
  BY <1>13, EvidenceFrame DEF VerifyOCSP, agent
<1>14. QED
  BY <1>1, <1>2, <1>3, <1>4, <1>5, <1>6, <1>7, <1>8, <1>9, <1>10, <1>11, <1>12,
     <1>13 DEF Next

\* GPUs become ready only when every one of them was verified in this run.
THEOREM ReadyAreVerified == Spec => ReadyIsVerified
<1> DEFINE JInv == TypeInv /\ EvidenceInv
<1>1. Init => JInv
  BY InitInv, InitEvidence
<1>2. JInv /\ [Next]_vars => JInv'
  BY TypeStep, EvidenceStep
<1>3. ASSUME JInv, [Next]_vars, ready', ~ready
      PROVE  \A i \in 1..GPUs : Verified(i)
  <2>1. pc = "enable"
    <3>1. CASE SetGPUsReady
      BY <3>1 DEF SetGPUsReady
    <3>2. CASE UNCHANGED ready
      BY <1>3, <3>2
    <3>3. SetGPUsReady \/ UNCHANGED ready
      BY <1>3 DEF Next, Begin, IssueReport, VerifyReport, FetchVBIOSRIM, ValidateReport,
         AskResponder, CombineAnswers, WriteStatus, Fail, StartProxy, LoseHeader,
         SendRequest, VerifyOCSP, Tick, Revoke, vars
    <3>4. QED
      BY <3>1, <3>2, <3>3
  <2>2. ASSUME NEW i \in 1..GPUs PROVE Verified(i)
    <3>1. Shows(i)
      BY <1>3, <2>1 DEF EvidenceInv
    <3>2. \A j \in DOMAIN evidence \ {i} : evidence[j].nonce # evidence[i].nonce
      BY <1>3, <3>1 DEF EvidenceInv, Shows
    <3>3. QED
      BY <3>1, <3>2 DEF Shows, Verified
  <2>3. QED
    BY <2>2
<1>4. JInv /\ [Next]_vars => [ready' /\ ~ready => \A i \in 1..GPUs : Verified(i)]_vars
  BY <1>3
<1> HIDE DEF JInv
<1>5. QED
  BY <1>1, <1>2, <1>4, PTL DEF Spec, ReadyIsVerified
-----------------------------------------------------------------------------
(* Reasons to refuse                                                         *)

\* What the responder said has a reason that stays, and the chains it is asked
\* about are those it knows.
ReasonInv ==
  /\ \A i \in 1..GPUs, c \in Components : \A n \in DOMAIN answers[i][c] :
       /\ answers[i][c][n].value = "REVOKED" =>
            \E cert \in Registered : revokedAt[cert] = answers[i][c][n].at
       /\ answers[i][c][n].value = "UNKNOWN" => unknowns < MaxUnknown
  /\ pc = "GPU" => Len(GPUChain[gpu]) >= 2
  /\ pc = "Driver" => rim["Driver"] \in DriverRIMs /\ Fetched(rim["Driver"])
  /\ pc = "VBIOS" => rim["VBIOS"] \in VBIOSRIMs /\ Fetched(rim["VBIOS"])

LEMMA ReasonFrame ==
  ASSUME ReasonInv, UNCHANGED <<answers, revokedAt, unknowns>>,
         pc' \in Components => UNCHANGED <<pc, gpu, rim>>
  PROVE  ReasonInv'
BY DEF ReasonInv, Registered, Fetched, Components

\* Every certificate the agent asks about is one the responder knows.
LEMMA AskedIsKnown ==
  ASSUME TypeInv, ReasonInv, NEW c \in Components, pc = c,
         NEW n \in Nat \ {0}, n < Len(CheckedChain(c))
  PROVE  CheckedChain(c)[n] \in Registered
<1>1. Registered = RegisteredCerts
  BY DEF Registered, TypeInv
<1>2. gpu \in 1..GPUs
  BY DEF TypeInv, LoopPlaces
<1>3. Known(CheckedChain(c))
  <2>1. CASE c = "GPU"
    BY <1>2, <2>1, ResponderAssumption DEF ReasonInv, CheckedChain
  <2>2. CASE c = "Driver"
    BY <2>2, ResponderAssumption DEF ReasonInv, CheckedChain, Fetched
  <2>3. CASE c = "VBIOS"
    BY <2>3, ResponderAssumption DEF ReasonInv, CheckedChain, Fetched
  <2>4. QED
    BY <2>1, <2>2, <2>3 DEF Components
<1>4. n \in 1..(Len(CheckedChain(c)) - 1)
  BY <1>3 DEF Known
<1>5. QED
  BY <1>1, <1>3, <1>4 DEF Known

LEMMA ReasonStep ==
  ASSUME TypeInv, EvidenceInv, ReasonInv, [Next]_vars
  PROVE  ReasonInv'
<1> USE GPUAttestationAssumption
<1>1. CASE Begin \/ ValidateReport \/ SetGPUsReady \/ WriteStatus
  BY <1>1, ReasonFrame DEF Begin, ValidateReport, SetGPUsReady, WriteStatus, Components
<1>2. CASE StartProxy \/ LoseHeader \/ Tick \/ UNCHANGED vars
  BY <1>2, ReasonFrame DEF StartProxy, LoseHeader, Tick, vars, agent
<1>3. CASE \E grace \in Graces, allowUnknown \in BOOLEAN : SendRequest(grace, allowUnknown)
  BY <1>3, ReasonFrame DEF SendRequest, agent
<1>4. CASE \E secretKnown \in BOOLEAN : VerifyOCSP(secretKnown)
  BY <1>4, ReasonFrame DEF VerifyOCSP, agent
<1>5. CASE IssueReport
  <2>1. /\ pc' = "GPU" /\ Len(GPUChain[gpu]) >= 2
        /\ UNCHANGED <<answers, revokedAt, unknowns, gpu>>
    BY <1>5 DEF IssueReport
  <2>2. QED
    BY <2>1 DEF ReasonInv, Registered
<1>6. CASE VerifyReport
  <2>1. PICK doc \in DriverRIMs : Fetched(doc) /\ rim' = [rim EXCEPT !["Driver"] = doc]
    BY <1>6 DEF VerifyReport
  <2>2. pc' = "Driver" /\ UNCHANGED <<answers, revokedAt, unknowns>>
    BY <1>6 DEF VerifyReport
  <2>3. rim'["Driver"] = doc
    BY <2>1 DEF EvidenceInv
  <2>4. Fetched(rim'["Driver"])
    BY <2>1, <2>3
  <2>5. QED
    BY <2>2, <2>3, <2>4 DEF ReasonInv, Registered, Fetched
<1>7. CASE FetchVBIOSRIM
  <2>1. PICK doc \in VBIOSRIMs : Fetched(doc) /\ rim' = [rim EXCEPT !["VBIOS"] = doc]
    BY <1>7 DEF FetchVBIOSRIM
  <2>2. pc' = "VBIOS" /\ UNCHANGED <<answers, revokedAt, unknowns>>
    BY <1>7 DEF FetchVBIOSRIM
  <2>3. rim'["VBIOS"] = doc
    BY <2>1 DEF EvidenceInv
  <2>4. Fetched(rim'["VBIOS"])
    BY <2>1, <2>3
  <2>5. QED
    BY <2>2, <2>3, <2>4 DEF ReasonInv, Registered, Fetched
<1>8. ASSUME NEW c \in Components, AskResponder(c)
      PROVE  ReasonInv'
  <2> DEFINE n == Len(answers[gpu][c]) + 1
             cert == CheckedChain(c)[n]
  <2>1. pc = c /\ gpu \in 1..GPUs /\ n < Len(CheckedChain(c))
    BY <1>8 DEF AskResponder, TypeInv, LoopPlaces
  <2>2. answers[gpu][c] \in Seq(Said)
    BY <2>1 DEF TypeInv
  <2>3. n \in Nat \ {0}
    BY <2>2
  <2>4. cert \in Registered
    BY <2>1, <2>3, AskedIsKnown
  <2> HIDE DEF n, cert
  <2>5. PICK status \in Responses(cert) :
          /\ answers' = [answers EXCEPT ![gpu][c] = Append(@, status)]
          /\ unknowns' = IF status = Unknown THEN unknowns - 1 ELSE unknowns
    BY <1>8, <2>4 DEF AskResponder, n, cert
  <2>6. status \in Said /\ (status = Unknown => unknowns > 0)
    BY <2>4, <2>5, ResponseSaid
  <2>7. unknowns \in 0..MaxUnknown /\ revokedAt[cert] \in (0..MaxTime) \cup {None}
    BY <2>4 DEF TypeInv, TypeOK
  <2>8. /\ status.value = "REVOKED" => revokedAt[cert] = status.at
        /\ status.value = "UNKNOWN" => status = Unknown
    BY <2>4, <2>5, <2>6 DEF Responses, Said, Good, Unknown, Revoked
  <2>9. unknowns' <= unknowns /\ (status = Unknown => unknowns' < MaxUnknown)
    BY <2>5, <2>6, <2>7
  <2>10. unknowns' \in Int
    BY <2>5, <2>7
  <2>11. UNCHANGED <<revokedAt, pc, gpu, rim>>
    BY <1>8 DEF AskResponder, agent
  <2>12. ASSUME NEW i \in 1..GPUs, NEW d \in Components, NEW m \in DOMAIN answers'[i][d]
         PROVE  \/ m \in DOMAIN answers[i][d] /\ answers'[i][d][m] = answers[i][d][m]
                \/ answers'[i][d][m] = status
    <3>1. CASE i = gpu /\ d = c
      <4>1. answers'[i][d] = Append(answers[i][d], status)
        BY <2>1, <2>5, <3>1 DEF TypeInv
      <4>2. m \in 1..(Len(answers[i][d]) + 1)
        BY <2>2, <2>6, <3>1, <4>1
      <4>3. QED
        BY <2>2, <2>6, <3>1, <4>1, <4>2
    <3>2. CASE ~ (i = gpu /\ d = c)
      BY <2>1, <2>5, <3>2 DEF TypeInv
    <3>3. QED
      BY <3>1, <3>2
  <2>13. ASSUME NEW i \in 1..GPUs, NEW d \in Components, NEW m \in DOMAIN answers'[i][d]
         PROVE  /\ answers'[i][d][m].value = "REVOKED" =>
                     \E k \in Registered : revokedAt[k] = answers'[i][d][m].at
                /\ answers'[i][d][m].value = "UNKNOWN" => unknowns' < MaxUnknown
    <3>1. CASE answers'[i][d][m] = status
      BY <2>4, <2>8, <2>9, <3>1
    <3>2. CASE m \in DOMAIN answers[i][d] /\ answers'[i][d][m] = answers[i][d][m]
      BY <2>7, <2>9, <2>10, <3>2 DEF ReasonInv
    <3>3. QED
      BY <2>12, <3>1, <3>2
  <2>14. QED
    BY <2>11, <2>13 DEF ReasonInv, Registered, Fetched
<1>9. ASSUME NEW c \in Components, CombineAnswers(c)
      PROVE  ReasonInv'
  BY <1>9, ReasonFrame DEF CombineAnswers, AfterCheck, Components
<1>10. CASE Fail
  BY <1>10 DEF Fail, ReasonInv, NoAnswers
<1>11. CASE Revoke
  <2>1. PICK cert \in Registered, date \in {Second(t) : t \in 0..now} :
          /\ revokedAt[cert] = None
          /\ revokedAt' = [revokedAt EXCEPT ![cert] = date]
    BY <1>11 DEF Revoke
  <2>2. UNCHANGED <<unknowns, answers, pc, gpu, rim>>
    BY <1>11 DEF Revoke, agent
  <2>3. ASSUME NEW k \in Registered, revokedAt[k] # None
        PROVE  k \in Registered' /\ revokedAt'[k] = revokedAt[k]
    BY <2>1, <2>3 DEF Registered, TypeInv
  <2>4. ASSUME NEW i \in 1..GPUs, NEW c \in Components, NEW n \in DOMAIN answers[i][c],
               answers[i][c][n].value = "REVOKED"
        PROVE  \E k \in Registered' : revokedAt'[k] = answers[i][c][n].at
    <3>1. PICK k \in Registered : revokedAt[k] = answers[i][c][n].at
      BY <2>4 DEF ReasonInv
    <3>2. answers[i][c][n] \in Said
      <4>1. answers[i][c] \in Seq(Said)
        BY DEF TypeInv
      <4>2. QED
        BY <4>1
    <3>3. revokedAt[k] # None
      BY <2>4, <3>1, <3>2 DEF Said, Good, Unknown, Revoked
    <3>4. QED
      BY <2>3, <3>1, <3>3
  <2>5. QED
    BY <2>2, <2>4 DEF ReasonInv, Fetched
<1>12. QED
  BY <1>1, <1>2, <1>3, <1>4, <1>5, <1>6, <1>7, <1>8, <1>9, <1>10, <1>11 DEF Next

\* A status that a header with good in it does not accept is the answer of the
\* responder about some certificate.
LEMMA ToldIsSaid ==
  ASSUME IInv, loaded # None, NEW i \in 1..GPUs, NEW c \in Components
  PROVE  loaded[i][c] \in Said
         /\ \/ loaded[i][c] = Good
            \/ \E n \in DOMAIN answers[i][c] : loaded[i][c] = answers[i][c][n]
<1>1. loaded = infos /\ pc = "done"
  BY DEF IInv, FileInv
<1>2. infos[i][c] = CombineStatuses(answers[i][c])
  BY <1>1 DEF IInv, StatusInv, Settled
<1>3. answers[i][c] \in Seq(Said)
  BY DEF IInv, TypeInv
<1>4. QED
  BY <1>1, <1>2, <1>3, CombineTellsTheWorst

\* Why VerifyOCSP refuses a request with both headers.
LEMMA RefusingStep ==
  ASSUME IInv, ReasonInv, NEW secretKnown \in BOOLEAN, VerifyOCSP(secretKnown), secretKnown,
         request.policy # None, request.mac # None, outcome' = "refused"
  PROVE  \/ \E cert \in Registered :
              /\ revokedAt[cert] # None
              /\ request.grace > 0 => revokedAt[cert] < request.sent - request.grace
         \/ ~ request.unknown /\ unknowns < MaxUnknown
<1> DEFINE accepted == AcceptedStatuses(Header(request))
           nbf == Second(request.sent - request.grace)
<1>1. request # None
  BY DEF VerifyOCSP
<1>2. /\ loaded # None /\ request.sent \in Nat /\ request.grace \in Nat
      /\ request.policy = Header(request) /\ request.mac = Header(request)
  BY <1>1, GPUAttestationAssumption DEF IInv, RequestInv
<1>3. ~ AllAccepted(accepted)
  BY <1>2 DEF VerifyOCSP
<1>4. PICK i \in 1..GPUs, c \in Components : ~ AcceptedBy(loaded[i][c], accepted)
  <2>1. DOMAIN loaded = 1..GPUs
    BY <1>2 DEF IInv, FileInv, TypeInv
  <2>2. QED
    BY <1>3, <2>1 DEF AllAccepted
<1> DEFINE told == loaded[i][c]
<1>5. told \in Said /\ (told = Good \/ \E n \in DOMAIN answers[i][c] : told = answers[i][c][n])
  BY <1>2, ToldIsSaid
<1>6. /\ Good \in accepted
      /\ request.unknown => Unknown \in accepted
      /\ request.grace > 0 => Revoked(nbf) \in accepted
  BY DEF AcceptedStatuses, Header, Allowed
<1>7. nbf \in Int /\ nbf <= request.sent - request.grace
  BY <1>2, SecondBounds
<1>8. \A a \in accepted : ~ (a.value = told.value /\ ~ (told.at < a.at))
  BY <1>4 DEF AcceptedBy
<1> HIDE DEF accepted, nbf, told
<1>9. told # Good
  BY <1>6, <1>8 DEF Good
<1>10. PICK n \in DOMAIN answers[i][c] : told = answers[i][c][n]
  BY <1>5, <1>9
<1>11. CASE told = Unknown
  <2>1. ~ request.unknown
    BY <1>6, <1>8, <1>11 DEF Unknown
  <2>2. answers[i][c][n].value = "UNKNOWN"
    BY <1>10, <1>11 DEF Unknown
  <2>3. unknowns < MaxUnknown
    BY <2>2 DEF ReasonInv
  <2>4. QED
    BY <2>1, <2>3
<1>12. CASE told # Unknown
  <2>1. told.value = "REVOKED" /\ told.at \in Nat
    BY <1>5, <1>9, <1>12, GPUAttestationAssumption DEF Said, Revoked
  <2>2. PICK cert \in Registered : revokedAt[cert] = told.at
    BY <1>10, <2>1 DEF ReasonInv
  <2>3. revokedAt[cert] # None
    BY <2>1, <2>2, GPUAttestationAssumption
  <2>4. request.grace > 0 => told.at < nbf
    BY <1>6, <1>8, <2>1 DEF Revoked
  <2>5. request.grace > 0 => revokedAt[cert] < request.sent - request.grace
    BY <1>2, <1>7, <2>1, <2>2, <2>4
  <2>6. QED
    BY <2>3, <2>5
<1>13. QED
  BY <1>11, <1>12

\* A client that sends both headers is refused only for what its policy rules
\* out, whatever the chains, as long as the responder knows the certificates it
\* is asked about.
THEOREM RefusedWithReason == Spec => RefusedForAReason
<1> DEFINE JInv == IInv /\ EvidenceInv /\ ReasonInv
<1>1. Init => JInv
  <2>1. ASSUME Init PROVE ReasonInv
    BY <2>1 DEF Init, ReasonInv, NoAnswers
  <2>2. QED
    BY <2>1, InitInv, InitEvidence DEF IInv
<1>2. JInv /\ [Next]_vars => JInv'
  BY TypeStep, StatusStep, FileStep, RequestStep, EvidenceStep, ReasonStep DEF IInv
<1> DEFINE Reasoned ==
      \A secretKnown \in BOOLEAN :
        /\ VerifyOCSP(secretKnown)
        /\ request.policy # None /\ request.mac # None
        /\ outcome' = "refused"
        => \/ ~secretKnown
           \/ \E cert \in Registered :
                /\ revokedAt[cert] # None
                /\ request.grace > 0 => revokedAt[cert] < request.sent - request.grace
           \/ ~request.unknown /\ unknowns < MaxUnknown
<1>3. JInv /\ [Next]_vars => [Reasoned]_vars
  BY RefusingStep
<1> HIDE DEF JInv
<1>4. Spec => [][Reasoned]_vars
  BY <1>1, <1>2, <1>3, PTL DEF Spec
<1>5. QED
  BY <1>4 DEF RefusedForAReason
=============================================================================
