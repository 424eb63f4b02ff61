------------------------------ MODULE Exchange ------------------------------
(***************************************************************************)
(* One inference request from the privatemode-proxy to the workload and    *)
(* back: inferenceHandler and its retry callbacks with a                   *)
(* RenewableRequestCipher (privatemode-proxy/internal/server), Forward     *)
(* with its retries (internal/oss/forwarder), and for every send a session *)
(* of the inference-proxy with a responseCipher.                           *)
(*                                                                         *)
(* A session that the client has given up runs on beside the next one.     *)
(* Secrets come and go on both sides while the request is under way.       *)
(***************************************************************************)
EXTENDS Naturals, Sequences

CONSTANTS
  Fields,       \* number of encrypted fields of the request
  MaxParts,     \* bound on the encrypted parts of an answer
  MaxSecrets,   \* bound on the secrets the client obtains
  MaxAttempts   \* sends of a request; 2 in the code

ASSUME ExchangeAssumption ==
  /\ Fields \in Nat /\ MaxParts \in Nat
  /\ MaxSecrets \in Nat \ {0} /\ MaxAttempts \in Nat \ {0}

VARIABLES
  carrier,  \* "ordered": fields and parts arrive in order and are not lost
            \* while a connection lasts; "loose": in any order and number
  pc,       \* where the client's handler is
  attempt,  \* number of sends
  rc,       \* the RequestCipher; NoCipher for nil
  nonces,   \* number of RequestCiphers made, which is also the last one's nonce
  header,   \* secret ID header of the next send
  got,      \* response parts decrypted
  latest,   \* the secret LatestSecret returns
  issued,   \* number of secrets obtained: the ids are 1..issued
  known,    \* ids for which the inference-proxy's Get answers
  reqs,     \* a send: its header and encrypted fields
  at,       \* where the session of a send is
  resp,     \* its responseCipher
  read,     \* request fields it has decrypted
  made,     \* parts of the answer the workload gave it
  mode,     \* "stream": an event stream; "json": one document
  err,      \* what its error response, or only its log, says
  replies   \* encrypted parts, of all sessions

client == <<pc, attempt, rc, nonces, header, got>>
secrets == <<latest, issued, known>>
session == <<at, resp, read, made, mode, err>>
vars == <<carrier, client, secrets, reqs, session, replies>>

Attempts == 1..MaxAttempts
Final == {"done", "cut", "broken", "failed"}

\* A RequestCipher or a responseCipher; nil, "" and an empty nonce are 0.
NoCipher == [id |-> 0, nonce |-> 0, enc |-> 0, dec |-> 0]

\* An encrypted message.  text is its place in the plaintext body, by the
\* send or session it was made for; neither is visible to the ciphers.
Seal(id, nonce, seq, text, by) ==
  [id |-> id, nonce |-> nonce, seq |-> seq, text |-> text, by |-> by]

\* Fault: the sequence number is left out of the additional data.
OpensAnySeq(m, id, nonce, seq) == m.id = id /\ m.nonce = nonce

\* AES-GCM opens a message with the key and additional data it was sealed with.
Opens(m, id, nonce, seq) == m.id = id /\ m.nonce = nonce /\ m.seq = seq

Init ==
  /\ carrier \in {"ordered", "loose"}
  /\ pc = "idle" /\ attempt = 0 /\ rc = NoCipher /\ nonces = 0 /\ header = 0
  /\ got = <<>>
  /\ latest = 1 /\ issued = 1 /\ known = {1}
  /\ reqs = [a \in Attempts |-> [header |-> 0, fields |-> {}]]
  /\ at = [a \in Attempts |-> "none"]
  /\ resp = [a \in Attempts |-> NoCipher]
  /\ read = [a \in Attempts |-> <<>>]
  /\ made = [a \in Attempts |-> 0]
  /\ mode = [a \in Attempts |-> "json"]
  /\ err = [a \in Attempts |-> "none"]
  /\ replies = {}

-----------------------------------------------------------------------------
(* The client's handler: inferenceHandler, Forward and sendWithRetry.      *)

\* Fault: a new cipher takes over the old one's nonce.
RenewSameNonce(id) ==
  /\ nonces' = 1
  /\ rc' = [id |-> id, nonce |-> 1, enc |-> 0, dec |-> 0]

\* NewRequestCipher; the nonce is random, so no other cipher has it.
Renew(id) ==
  /\ nonces' = nonces + 1
  /\ rc' = [id |-> id, nonce |-> nonces + 1, enc |-> 0, dec |-> 0]

SetDynamicHeaders(id) == header' = id

\* The handler ends with an error response, or the client goes away.
GiveUp ==
  /\ pc' = "failed"
  /\ UNCHANGED <<attempt, rc, nonces, header, got>>

\* NewRenewableRequestCipher and setDynamicHeaders.
Begin ==
  /\ pc = "idle"
  /\ \/ pc' = "mutate" /\ Renew(latest) /\ SetDynamicHeaders(latest)
        /\ UNCHANGED <<attempt, got>>
     \/ GiveUp
  /\ UNCHANGED <<carrier, secrets, reqs, session, replies>>

\* The request mutator encrypts all fields and the request is sent.
Send ==
  LET a == attempt + 1
      usable == rc # NoCipher /\ rc.dec = 0
  IN  /\ pc = "mutate"
      /\ attempt' = a
      /\ IF usable
         THEN /\ reqs' = [reqs EXCEPT ![a] =
                   [header |-> header,
                    fields |-> {Seal(rc.id, rc.nonce, rc.enc + (i - 1), i, a) : i \in 1..Fields}]]
              /\ rc' = [rc EXCEPT !.enc = @ + Fields]
              /\ at' = [at EXCEPT ![a] = "verify"]
              /\ pc' = "await"
         ELSE pc' = "failed" /\ UNCHANGED <<reqs, rc, at>>
      /\ UNCHANGED <<carrier, nonces, header, got, secrets, resp, read, made, mode, err, replies>>

\* attempt <= 1.
MayRetry(n) == n < MaxAttempts

\* The retry callback, up to its first call that may block.
Callback(e) ==
  IF MayRetry(attempt) /\ e = "nosecret" THEN
    pc' = "update" /\ rc' = NoCipher /\ UNCHANGED <<attempt, nonces, header, got>>
  ELSE IF MayRetry(attempt) /\ e = "reset" THEN
    pc' = "reset" /\ UNCHANGED <<attempt, rc, nonces, header, got>>
  ELSE GiveUp

\* trySend gets an error response, which is not encrypted.
ReceiveError ==
  /\ pc = "await" /\ at[attempt] = "failed"
  /\ Callback(err[attempt])
  /\ UNCHANGED <<carrier, secrets, reqs, session, replies>>

\* trySend loses the connection, whatever the session has done so far.
ConnectionReset ==
  /\ pc = "await"
  /\ Callback("reset")
  /\ UNCHANGED <<carrier, secrets, reqs, session, replies>>

\* Any other failure of the send, or the application goes away while waiting.
Abandon ==
  /\ pc \in {"await", "backoff"}
  /\ GiveUp
  /\ UNCHANGED <<carrier, secrets, reqs, session, replies>>

\* The client obtains a secret and the secret service stores it.
Obtain ==
  /\ issued < MaxSecrets
  /\ issued' = issued + 1
  /\ latest' = issued + 1
  /\ known' = known \cup {issued + 1}

\* ResetSecret: the cipher is gone already, ForceUpdate returns or fails.
ForceUpdate ==
  /\ pc = "update"
  /\ \/ Obtain /\ pc' = "init" /\ UNCHANGED <<attempt, rc, nonces, header, got>>
     \/ GiveUp /\ UNCHANGED secrets
  /\ UNCHANGED <<carrier, reqs, session, replies>>

\* The rest of ResetSecret and of noSecretForIDCallback: retry at once.
InitAfterUpdate ==
  /\ pc = "init"
  /\ \/ pc' = "mutate" /\ Renew(latest) /\ SetDynamicHeaders(latest)
        /\ UNCHANGED <<attempt, got>>
     \/ GiveUp
  /\ UNCHANGED <<carrier, secrets, reqs, session, replies>>

\* Fault: the headers of the failed send are kept.
InitAfterResetOldHeaders ==
  /\ pc = "reset"
  /\ pc' = "backoff" /\ Renew(latest) /\ UNCHANGED <<attempt, got, header>>
  /\ UNCHANGED <<carrier, secrets, reqs, session, replies>>

\* connectionResetCallback: retry after a delay.
InitAfterReset ==
  /\ pc = "reset"
  /\ \/ pc' = "backoff" /\ Renew(latest) /\ SetDynamicHeaders(latest)
        /\ UNCHANGED <<attempt, got>>
     \/ GiveUp
  /\ UNCHANGED <<carrier, secrets, reqs, session, replies>>

Backoff ==
  /\ pc = "backoff"
  /\ pc' = "mutate"
  /\ UNCHANGED <<carrier, attempt, rc, nonces, header, got, secrets, reqs, session, replies>>

\* The response has status 200: a stream begins, a document is complete.
ReceiveHeader ==
  /\ pc = "await"
  /\ \/ mode[attempt] = "stream" /\ at[attempt] \in {"answer", "cut", "end"}
     \/ mode[attempt] = "json" /\ at[attempt] = "end"
  /\ pc' = "receive"
  /\ UNCHANGED <<carrier, attempt, rc, nonces, header, got, secrets, reqs, session, replies>>

\* After status 200 an error is only logged, and the application's stream ends
\* there as it does when it is "done"; a document is replaced by the error.
EndBy(how) == pc' = IF mode[attempt] = "stream" THEN how ELSE "failed"

DecryptResponse(m) ==
  /\ pc = "receive" /\ m \in replies
  /\ carrier = "ordered" => m.by = attempt /\ m.text = Len(got) + 1
  /\ IF rc # NoCipher /\ Opens(m, rc.id, rc.nonce, rc.dec)
     THEN got' = Append(got, m) /\ rc' = [rc EXCEPT !.dec = @ + 1] /\ UNCHANGED pc
     ELSE EndBy("cut") /\ UNCHANGED <<got, rc>>
  /\ UNCHANGED <<carrier, attempt, nonces, header, secrets, reqs, session, replies>>

\* The connection breaks after the header, a line is too long for the scanner,
\* or the application goes away: there is no retry any more.
Break ==
  /\ pc = "receive"
  /\ EndBy("broken")
  /\ UNCHANGED <<carrier, attempt, rc, nonces, header, got, secrets, reqs, session, replies>>

\* The end of the body.  A session that was cut off ends its stream like any other.
Finish ==
  /\ pc = "receive" /\ at[attempt] \in {"cut", "end"}
  /\ carrier = "ordered" => Len(got) = resp[attempt].enc
  /\ pc' = "done"
  /\ UNCHANGED <<carrier, attempt, rc, nonces, header, got, secrets, reqs, session, replies>>

-----------------------------------------------------------------------------
(* The inference-proxy's session for a send.                               *)

\* HTTPError, before the status of the response has been written.
Fail(a, e) ==
  /\ at' = [at EXCEPT ![a] = "failed"]
  /\ err' = [err EXCEPT ![a] = e]

\* VerifyOCSP.
VerifyOCSP(a) ==
  /\ at[a] = "verify"
  /\ \/ reqs[a].header \in known /\ at' = [at EXCEPT ![a] = "read"] /\ UNCHANGED err
     \/ reqs[a].header \in known /\ Fail(a, "other")
     \/ reqs[a].header \notin known /\ Fail(a, "nosecret")
  /\ UNCHANGED <<carrier, client, secrets, reqs, resp, read, made, mode, replies>>

\* responseCipher.DecryptRequest.
DecryptRequest(a, m) ==
  LET c == resp[a]
      nonce == IF c.dec = 0 THEN m.nonce ELSE c.nonce
      id == IF c.id = 0 THEN m.id ELSE c.id
      opens == m.id \in known /\ Opens(m, m.id, nonce, c.dec)
  IN  /\ at[a] = "read" /\ c.enc = 0 /\ m \in reqs[a].fields
      /\ carrier = "ordered" => m.text = Len(read[a]) + 1
      /\ resp' = [resp EXCEPT ![a] =
           IF opens THEN [id |-> id, nonce |-> nonce, enc |-> c.enc, dec |-> c.dec + 1]
           ELSE [c EXCEPT !.nonce = nonce]]
      /\ IF opens /\ id = m.id
         THEN read' = [read EXCEPT ![a] = Append(@, m)] /\ UNCHANGED <<at, err>>
         ELSE Fail(a, IF m.id \in known THEN "other" ELSE "nosecret") /\ UNCHANGED read
      /\ UNCHANGED <<carrier, client, secrets, reqs, made, mode, replies>>

\* The body is read to its end and passes the validators, or not; what it
\* lost on the way is not noticed.
ForwardRequest(a) ==
  /\ at[a] = "read"
  /\ carrier = "ordered" => Len(read[a]) = Fields
  /\ \/ at' = [at EXCEPT ![a] = "run"] /\ UNCHANGED err
     \/ Fail(a, "other")
  /\ UNCHANGED <<carrier, client, secrets, reqs, resp, read, made, mode, replies>>

\* The workload answers, or cannot be reached.
Answer(a) ==
  /\ at[a] = "run"
  /\ \/ \E n \in 0..MaxParts, f \in {"stream", "json"} :
          /\ made' = [made EXCEPT ![a] = n]
          /\ mode' = [mode EXCEPT ![a] = f]
          /\ at' = [at EXCEPT ![a] = "answer"]
          /\ UNCHANGED err
     \/ \E e \in {"reset", "other"} : Fail(a, e) /\ UNCHANGED <<made, mode>>
  /\ UNCHANGED <<carrier, client, secrets, reqs, resp, read, replies>>

\* An error while the answer is read, sealed or written.  A stream ends there
\* as if it were complete, and the error goes to the session's log.
CutOff(a, e) ==
  /\ at' = [at EXCEPT ![a] = IF mode[a] = "stream" THEN "cut" ELSE "failed"]
  /\ err' = [err EXCEPT ![a] = e]

\* The connection to the workload breaks, or a line of its stream is too long;
\* a document is read to its end before the first part is sealed.
AnswerBreaks(a) ==
  /\ at[a] = "answer"
  /\ mode[a] = "json" => resp[a].enc = 0
  /\ CutOff(a, "other")
  /\ UNCHANGED <<carrier, client, secrets, reqs, resp, read, made, mode, replies>>

\* Fault: the answer goes on with the sequence numbers of the request.
EncryptResponseNumbersOn(a) ==
  LET c == resp[a] IN
  /\ at[a] = "answer" /\ c.enc < made[a] /\ c.dec # 0 /\ c.id \in known
  /\ replies' = replies \cup {Seal(c.id, c.nonce, c.dec + c.enc, c.enc + 1, a)}
  /\ resp' = [resp EXCEPT ![a].enc = @ + 1]
  /\ UNCHANGED <<carrier, client, secrets, reqs, read, made, mode, at, err>>

\* Fault: the secret is awaited.
EncryptResponseWaits(a) ==
  LET c == resp[a] IN
  /\ at[a] = "answer" /\ c.enc < made[a] /\ c.id \in known
  /\ replies' = replies \cup {Seal(c.id, c.nonce, c.enc, c.enc + 1, a)}
  /\ resp' = [resp EXCEPT ![a].enc = @ + 1]
  /\ UNCHANGED <<carrier, client, secrets, reqs, read, made, mode, at, err>>

\* responseCipher.EncryptResponse; the secret is looked up for every part.
EncryptResponse(a) ==
  LET c == resp[a]
      ready == c.nonce # 0 /\ c.dec # 0 /\ c.id # 0
  IN  /\ at[a] = "answer" /\ c.enc < made[a]
      /\ IF ready /\ c.id \in known
         THEN /\ replies' = replies \cup {Seal(c.id, c.nonce, c.enc, c.enc + 1, a)}
              /\ resp' = [resp EXCEPT ![a].enc = @ + 1]
              /\ UNCHANGED <<at, err>>
         ELSE CutOff(a, IF ready THEN "nosecret" ELSE "other") /\ UNCHANGED <<replies, resp>>
      /\ UNCHANGED <<carrier, client, secrets, reqs, read, made, mode>>

End(a) ==
  /\ at[a] = "answer" /\ resp[a].enc = made[a]
  /\ at' = [at EXCEPT ![a] = "end"]
  /\ UNCHANGED <<carrier, client, secrets, reqs, resp, read, made, mode, err, replies>>

-----------------------------------------------------------------------------
(* The secrets, while the request is under way.                            *)

\* The update loop or another request renews the client's secret.
Rotate ==
  /\ Obtain
  /\ UNCHANGED <<carrier, client, reqs, session, replies>>

\* The secret expires or is deleted, or etcd cannot be asked for it ...
Lose(i) ==
  /\ i \in known
  /\ known' = known \ {i}
  /\ UNCHANGED <<carrier, client, latest, issued, reqs, session, replies>>

\* ... and can again.
Regain(i) ==
  /\ i \notin known
  /\ known' = known \cup {i}
  /\ UNCHANGED <<carrier, client, latest, issued, reqs, session, replies>>

-----------------------------------------------------------------------------
\* What the client's handler does by itself, and what happens to it.
Handler ==
  \/ Begin \/ Send \/ ReceiveError \/ ForceUpdate \/ InitAfterUpdate
  \/ InitAfterReset \/ Backoff \/ ReceiveHeader \/ Finish
  \/ \E m \in replies : DecryptResponse(m)

Mishap == ConnectionReset \/ Abandon \/ Break

Proceed(a) ==
  \/ VerifyOCSP(a) \/ ForwardRequest(a) \/ Answer(a) \/ EncryptResponse(a) \/ End(a)
  \/ \E m \in reqs[a].fields : DecryptRequest(a, m)

Session(a) == Proceed(a) \/ AnswerBreaks(a)

Keys == Rotate \/ \E i \in 1..issued : Lose(i) \/ Regain(i)

Next == Handler \/ Mishap \/ Keys \/ \E a \in Attempts : Session(a)

Spec == Init /\ [][Next]_vars

\* The handler and the sessions are goroutines that run on; connections need
\* not break and secrets need not change.
FairSpec == Spec /\ WF_vars(Handler) /\ \A a \in Attempts : WF_vars(Proceed(a))

-----------------------------------------------------------------------------
(* Properties.                                                             *)

Message == [id : 1..MaxSecrets, nonce : 1..MaxAttempts, seq : Nat, text : Nat \ {0},
            by : Attempts]
Cipher == [id : 0..MaxSecrets, nonce : 0..MaxAttempts, enc : Nat, dec : Nat]

\* Every variable keeps its type; in particular there are never more sends
\* than the retry callback allows.
TypeOK ==
  /\ carrier \in {"ordered", "loose"}
  /\ pc \in {"idle", "mutate", "await", "update", "init", "reset", "backoff", "receive"} \cup Final
  /\ attempt \in 0..MaxAttempts /\ nonces \in 0..MaxAttempts
  /\ rc \in Cipher /\ header \in 0..MaxSecrets /\ got \in Seq(Message)
  /\ issued \in 1..MaxSecrets /\ latest \in 1..issued /\ known \subseteq 1..issued
  /\ reqs \in [Attempts -> [header : 0..MaxSecrets, fields : SUBSET Message]]
  /\ at \in [Attempts -> {"none", "verify", "read", "run", "answer", "end", "cut", "failed"}]
  /\ resp \in [Attempts -> Cipher] /\ read \in [Attempts -> Seq(Message)]
  /\ made \in [Attempts -> 0..MaxParts] /\ mode \in [Attempts -> {"stream", "json"}]
  /\ err \in [Attempts -> {"none", "nosecret", "reset", "other"}]
  /\ replies \subseteq Message

\* What a session hands to the workload is the beginning of the request body,
\* in its order, whatever a carrier drops, repeats or swaps.
RequestInOrder ==
  \A a \in Attempts : \A i \in DOMAIN read[a] : read[a][i].text = i

\* The header that VerifyOCSP checks a request with names the secret its
\* fields are encrypted with, for retries as well.
HeaderNamesCipher ==
  \A a \in Attempts : \A m \in reqs[a].fields : m.id = reqs[a].header

\* All that the application reads is one answer from its beginning: the
\* answer to the last send, though an earlier session may still be replying.
OneAnswer ==
  \A i \in DOMAIN got :
    got[i].by = attempt /\ got[i].text = i /\ i <= made[attempt]

\* A stream that has ended looks the same to the application whatever ended it.
\* Over connections that keep order it has the whole answer to the whole request
\* unless a connection broke, a line was too long or the session lost its
\* secret: the two ciphers stay in step, over retries and renewed secrets, so
\* that no part the session sealed fails to open.
StreamOver == pc \in {"done", "cut", "broken"}
Whole == Len(read[attempt]) = Fields /\ Len(got) = made[attempt]
ShortForAReason ==
  carrier = "ordered" /\ StreamOver /\ ~Whole => pc = "broken" \/ at[attempt] = "cut"

\* Once the application has read a part of an answer, the request is not sent
\* again and its cipher stays.
NoResendAfterAnswer ==
  [][got # <<>> => attempt' = attempt /\ rc'.nonce = rc.nonce /\ pc' \in Final \cup {"receive"}]_vars

\* The retry after "no secret for ID" is made with a newer secret than the
\* send that was refused.
RefusedSecretReplaced == [][pc = "init" /\ pc' = "mutate" => rc'.id > header]_vars

\* The application sees a prefix of one answer.
Promise == INSTANCE AnswerPrefix WITH
  answer <- made,
  source <- IF got = <<>> THEN 0 ELSE attempt,
  delivered <- Len(got),
  closed <- pc \in Final
ImplementsAnswerPrefix == Promise!Spec

\* Every request comes to an end.
Terminates == <>(pc \in Final)
=============================================================================
