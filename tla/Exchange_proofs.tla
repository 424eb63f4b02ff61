--------------------------- MODULE Exchange_proofs ---------------------------
(***************************************************************************)
(* Proofs about Exchange, for any number of fields, parts, secrets and     *)
(* sends: its invariants, its action properties, and that it implements    *)
(* AnswerPrefix.                                                           *)
(***************************************************************************)
EXTENDS Exchange, TLAPS

\* The handler has made one cipher per send, and one more before a send; the
\* cipher of a send has the send's number for its nonce.
ClientInv ==
  /\ pc = "idle" => attempt = 0 /\ nonces = 0
  /\ pc \in {"mutate", "backoff"} =>
       /\ attempt < MaxAttempts /\ nonces = attempt + 1
       /\ rc.id = header /\ rc.nonce = attempt + 1 /\ rc.enc = 0 /\ rc.dec = 0
       /\ rc.id # 0
  /\ pc \in {"update", "init", "reset"} =>
       attempt \in 1..MaxAttempts /\ attempt < MaxAttempts /\ nonces = attempt
  /\ pc \in {"await", "receive"} =>
       /\ attempt \in 1..MaxAttempts /\ nonces = attempt
       /\ rc.nonce = attempt /\ rc.id = reqs[attempt].header
  /\ pc = "await" => rc.dec = 0
  /\ pc = "receive" => rc.dec = Len(got)
  /\ pc \notin Final \cup {"receive"} => got = <<>>
  /\ pc = "done" => attempt # 0
  /\ latest = issued /\ header <= latest
  /\ pc = "init" => header < latest

\* Sends are made in order, and a send's fields are sealed under its number.
ReqInv ==
  \A a \in Attempts :
    /\ a > attempt => at[a] = "none"
    /\ \A m \in reqs[a].fields :
         m.by = a /\ m.nonce = a /\ m.text = m.seq + 1 /\ m.id = reqs[a].header

\* A session has read the first fields of its own send.
SessOK(a) ==
  /\ at[a] \in {"none", "verify"} => resp[a] = NoCipher /\ read[a] = <<>>
  /\ at[a] \in {"none", "verify", "read", "run"} => made[a] = 0 /\ resp[a].enc = 0
  /\ resp[a].dec = Len(read[a])
  /\ resp[a].nonce \in {0, a} /\ resp[a].id \in {0, reqs[a].header}
  /\ resp[a].enc <= made[a]
  /\ \A i \in DOMAIN read[a] : read[a][i] \in reqs[a].fields /\ read[a][i].text = i

SessInv == \A a \in Attempts : SessOK(a)

\* A session's replies are numbered in order under nonce and secret of its send.
ReplyInv ==
  \A m \in replies :
    /\ m.nonce = m.by /\ m.text = m.seq + 1 /\ m.seq < resp[m.by].enc
    /\ m.id = reqs[m.by].header

\* What a session and the handler have seen when a carrier keeps order; no part
\* fails to open then.
WholeInv ==
  /\ \A a \in Attempts :
       /\ carrier = "ordered" /\ at[a] \in {"run", "answer", "cut", "end"} => Len(read[a]) = Fields
       /\ at[a] = "end" => resp[a].enc = made[a]
  /\ carrier = "ordered" /\ pc = "done" =>
       at[attempt] \in {"cut", "end"} /\ Len(got) = resp[attempt].enc
  /\ carrier = "ordered" => pc # "cut"

IInv == TypeOK /\ ClientInv /\ ReqInv /\ SessInv /\ ReplyInv /\ OneAnswer /\ WholeInv

\* The invariant holds initially.
LEMMA IInvInit == Init => IInv
<1> SUFFICES ASSUME Init PROVE IInv
  OBVIOUS
<1>1. TypeOK
  BY ExchangeAssumption DEF Init, TypeOK, Attempts, Cipher, NoCipher, Final, Message
<1>2. ClientInv /\ ReqInv /\ SessInv /\ ReplyInv /\ OneAnswer /\ WholeInv
  BY ExchangeAssumption DEF Init, ClientInv, ReqInv, SessInv, SessOK, ReplyInv, OneAnswer, WholeInv,
     Attempts, NoCipher, Final
<1> QED
  BY <1>1, <1>2 DEF IInv

-----------------------------------------------------------------------------
\* The steps that neither send, receive nor belong to a session.
Quiet ==
  \/ Begin \/ ReceiveError \/ ConnectionReset \/ Abandon \/ ForceUpdate \/ InitAfterUpdate
  \/ InitAfterReset \/ Backoff \/ ReceiveHeader \/ Break \/ Finish \/ Keys

\* A quiet step leaves messages and sessions alone.
LEMMA QuietFrame ==
  ASSUME Quiet
  PROVE  UNCHANGED <<carrier, reqs, session, replies, got, attempt>>
<1>1. CASE Begin \/ Abandon \/ ForceUpdate \/ InitAfterUpdate \/ InitAfterReset
  BY <1>1 DEF Begin, Abandon, ForceUpdate, InitAfterUpdate, InitAfterReset, GiveUp
<1>2. CASE ReceiveError \/ ConnectionReset
  BY <1>2 DEF ReceiveError, ConnectionReset, Callback, GiveUp
<1>3. CASE Backoff \/ ReceiveHeader \/ Break \/ Finish
  BY <1>3 DEF Backoff, ReceiveHeader, Break, Finish
<1>4. CASE Keys
  BY <1>4 DEF Keys, Rotate, Lose, Regain, client
<1> QED
  BY <1>1, <1>2, <1>3, <1>4 DEF Quiet

\* The bookkeeping of the handler after a quiet step.
LEMMA QuietClient ==
  ASSUME IInv, Quiet
  PROVE  /\ ClientInv'
         /\ pc' = "done" => pc = "done" \/ Finish
         /\ pc' = "cut" => pc = "cut"
         /\ /\ pc' \in {"idle", "mutate", "await", "update", "init", "reset", "backoff", "receive"} \cup Final
            /\ nonces' \in 0..MaxAttempts /\ rc' \in Cipher /\ header' \in 0..MaxSecrets
            /\ issued' \in 1..MaxSecrets /\ latest' \in 1..issued' /\ known' \subseteq 1..issued'
<1> USE ExchangeAssumption
<1>0. TypeOK /\ ClientInv /\ UNCHANGED reqs
  BY QuietFrame DEF IInv
<1>1. CASE Begin
  <2>1. CASE GiveUp
    BY <1>0, <1>1, <2>1 DEF Begin, GiveUp, TypeOK, ClientInv, Final, secrets
  <2>2. CASE pc' = "mutate" /\ Renew(latest) /\ SetDynamicHeaders(latest) /\ UNCHANGED <<attempt, got>>
    BY <1>0, <1>1, <2>2 DEF Begin, Renew, SetDynamicHeaders, TypeOK, ClientInv, Final, secrets, Cipher
  <2> QED
    BY <1>1, <2>1, <2>2 DEF Begin
<1>2. CASE ReceiveError \/ ConnectionReset
  <2>1. PICK e : pc = "await" /\ Callback(e) /\ UNCHANGED secrets
    BY <1>2 DEF ReceiveError, ConnectionReset
  <2>2. /\ attempt \in 1..MaxAttempts /\ nonces = attempt /\ got = <<>>
        /\ latest = issued /\ header <= latest
    BY <1>0, <2>1 DEF ClientInv, Final
  <2>3. /\ pc' \in {"update", "reset", "failed"} /\ UNCHANGED <<attempt, nonces, header, got>>
        /\ rc' \in {rc, NoCipher} /\ (pc' # "failed" => attempt < MaxAttempts)
    BY <2>1 DEF Callback, MayRetry, GiveUp
  <2>4. ClientInv'
    BY <2>1, <2>2, <2>3 DEF ClientInv, secrets, Final
  <2>5. rc' \in Cipher
    BY <1>0, <2>3 DEF TypeOK, Cipher, NoCipher
  <2> QED
    BY <1>0, <2>1, <2>3, <2>4, <2>5 DEF TypeOK, Final, secrets
<1>3. CASE Abandon
  BY <1>0, <1>3 DEF Abandon, GiveUp, TypeOK, ClientInv, Final, secrets
<1>4. CASE ForceUpdate
  <2>1. CASE GiveUp /\ UNCHANGED secrets
    BY <1>0, <1>4, <2>1 DEF ForceUpdate, GiveUp, TypeOK, ClientInv, Final, secrets
  <2>2. CASE Obtain /\ pc' = "init" /\ UNCHANGED <<attempt, rc, nonces, header, got>>
    BY <1>0, <1>4, <2>2 DEF ForceUpdate, Obtain, TypeOK, ClientInv, Final
  <2> QED
    BY <1>4, <2>1, <2>2 DEF ForceUpdate
<1>5. CASE InitAfterUpdate \/ InitAfterReset
  <2>1. CASE GiveUp
    BY <1>0, <1>5, <2>1 DEF InitAfterUpdate, InitAfterReset, GiveUp, TypeOK, ClientInv, Final, secrets
  <2>2. CASE ~GiveUp
    <3>1. /\ pc \in {"init", "reset"} /\ pc' \in {"mutate", "backoff"}
          /\ rc' = [id |-> latest, nonce |-> nonces + 1, enc |-> 0, dec |-> 0]
          /\ nonces' = nonces + 1 /\ header' = latest
          /\ UNCHANGED <<attempt, got, latest, issued, known>>
      BY <1>5, <2>2 DEF InitAfterUpdate, InitAfterReset, Renew, SetDynamicHeaders, secrets
    <3>2. nonces + 1 \in 0..MaxAttempts /\ nonces = attempt /\ latest \in 1..MaxSecrets
      BY <1>0, <3>1 DEF TypeOK, ClientInv
    <3>3. rc' \in Cipher
      BY <3>1, <3>2 DEF Cipher
    <3>4. attempt < MaxAttempts /\ attempt \in Nat /\ got = <<>> /\ latest = issued
      BY <1>0, <3>1 DEF ClientInv, TypeOK, Final
    <3>5. /\ rc'.id = header' /\ rc'.nonce = attempt' + 1 /\ rc'.enc = 0 /\ rc'.dec = 0
          /\ rc'.id # 0 /\ nonces' = attempt' + 1 /\ attempt' < MaxAttempts /\ got' = <<>>
          /\ latest' = issued' /\ header' <= latest'
      BY <3>1, <3>2, <3>4
    <3>6. ClientInv'
      BY <3>1, <3>5 DEF ClientInv, Final
    <3> QED
      BY <1>0, <3>1, <3>2, <3>3, <3>6 DEF TypeOK
  <2> QED
    BY <2>1, <2>2
<1>6. CASE Backoff \/ ReceiveHeader
  <2>1. pc \in {"backoff", "await"} /\ UNCHANGED <<attempt, rc, nonces, header, got, secrets>>
    BY <1>6 DEF Backoff, ReceiveHeader
  <2>2. \/ pc = "await" /\ pc' = "receive"
        \/ pc = "backoff" /\ pc' = "mutate"
    BY <1>6 DEF Backoff, ReceiveHeader
  <2>3. ClientInv'
    BY <1>0, <2>1, <2>2 DEF ClientInv, Final, secrets
  <2> QED
    BY <1>0, <2>1, <2>2, <2>3 DEF TypeOK, Final, secrets
<1>7. CASE Break \/ Finish
  <2>1. pc = "receive" /\ pc' \in Final /\ UNCHANGED <<attempt, rc, nonces, header, got, secrets>>
    BY <1>7 DEF Break, Finish, EndBy, Final
  <2>2. ClientInv'
    BY <1>0, <2>1 DEF ClientInv, TypeOK, Final, secrets
  <2>3. (pc' = "done" => Finish) /\ pc' # "cut"
    BY <1>7 DEF Break, Finish, EndBy
  <2> QED
    BY <1>0, <2>1, <2>2, <2>3 DEF TypeOK, Final, secrets
<1>8. CASE Keys
  <2>1. CASE Rotate
    BY <1>0, <2>1 DEF Rotate, Obtain, client, TypeOK, ClientInv, Final
  <2>2. CASE \E i \in 1..issued : Lose(i) \/ Regain(i)
    BY <1>0, <2>2 DEF Lose, Regain, client, TypeOK, ClientInv, Final
  <2> QED
    BY <1>8, <2>1, <2>2 DEF Keys
<1> QED
  BY <1>1, <1>2, <1>3, <1>4, <1>5, <1>6, <1>7, <1>8 DEF Quiet

\* A quiet step keeps the invariant.
LEMMA QuietKeeps ==
  ASSUME IInv, Quiet
  PROVE  IInv'
<1>1. UNCHANGED <<carrier, reqs, session, replies, got, attempt>>
  BY QuietFrame
<1>2. TypeOK'
  BY <1>1, QuietClient DEF IInv, TypeOK, session
<1>3. ReqInv' /\ SessInv' /\ ReplyInv' /\ OneAnswer'
  BY <1>1 DEF IInv, ReqInv, SessInv, SessOK, ReplyInv, OneAnswer, session
<1>4. WholeInv'
  BY <1>1, QuietClient DEF IInv, WholeInv, session, Finish
<1> QED
  BY <1>2, <1>3, <1>4, QuietClient DEF IInv

-----------------------------------------------------------------------------
\* A send puts its fields, sealed under its own number, on a fresh connection.
LEMMA SendKeeps ==
  ASSUME IInv, Send
  PROVE  IInv' /\ UNCHANGED <<made, got>> /\ (pc \notin Final)
<1> USE ExchangeAssumption
<1>0. TypeOK /\ ClientInv /\ ReqInv /\ SessInv /\ WholeInv
  BY DEF IInv
<1> DEFINE a == attempt + 1
           F == {Seal(rc.id, rc.nonce, rc.enc + (i - 1), i, a) : i \in 1..Fields}
<1>1. /\ pc = "mutate" /\ a \in Attempts /\ rc # NoCipher /\ rc.dec = 0 /\ rc.enc = 0
      /\ rc.nonce = a /\ rc.id = header /\ rc.id \in 1..MaxSecrets /\ got = <<>>
      /\ attempt \in Nat /\ nonces = a
  BY <1>0 DEF Send, TypeOK, ClientInv, Attempts, Cipher, NoCipher, Final
<1>2. /\ attempt' = a /\ pc' = "await"
      /\ reqs' = [reqs EXCEPT ![a] = [header |-> header, fields |-> F]]
      /\ rc' = [rc EXCEPT !.enc = @ + Fields]
      /\ at' = [at EXCEPT ![a] = "verify"]
      /\ UNCHANGED <<carrier, nonces, header, got, secrets, resp, read, made, mode, err, replies>>
  BY <1>1 DEF Send
<1>3. \A m \in F : /\ m \in Message /\ m.by = a /\ m.nonce = a /\ m.text = m.seq + 1
                   /\ m.id = header
  BY <1>1 DEF Seal, Message, Attempts
<1>4. at[a] = "none" /\ at \in [Attempts -> {"none", "verify", "read", "run", "answer", "end", "cut", "failed"}]
  BY <1>0, <1>1 DEF ReqInv, TypeOK
<1> HIDE DEF F
<1>5. TypeOK'
  <2>1. rc' \in Cipher
    <3>1. rc \in Cipher /\ Fields \in Nat
      BY <1>0 DEF TypeOK
    <3>2. rc' = [rc EXCEPT !.enc = @ + Fields]
      BY <1>2
    <3> QED
      BY <3>1, <3>2 DEF Cipher
  <2>2. reqs' \in [Attempts -> [header : 0..MaxSecrets, fields : SUBSET Message]]
    BY <1>0, <1>1, <1>2, <1>3 DEF TypeOK
  <2> QED
    BY <1>0, <1>1, <1>2, <2>1, <2>2 DEF TypeOK, secrets, Attempts
<1>6. ClientInv'
  <2>1. rc'.dec = 0 /\ rc'.nonce = rc.nonce
    BY <1>0, <1>1, <1>2 DEF TypeOK, Cipher
  <2>2. rc'.id = header /\ reqs'[attempt'].header = header
    BY <1>0, <1>1, <1>2 DEF TypeOK, Cipher
  <2> QED
    BY <1>0, <1>1, <1>2, <2>1, <2>2 DEF ClientInv, secrets, Final, Attempts
<1>7. \A b \in Attempts : b # a => reqs'[b] = reqs[b] /\ at'[b] = at[b]
  BY <1>0, <1>1, <1>2 DEF TypeOK
<1>8. at'[a] = "verify" /\ reqs'[a].fields = F /\ reqs'[a].header = header
  BY <1>0, <1>1, <1>2 DEF TypeOK
<1>9. ReqInv'
  <2> SUFFICES ASSUME NEW b \in Attempts
               PROVE  /\ b > a => at'[b] = "none"
                      /\ \A m \in reqs'[b].fields :
                           m.by = b /\ m.nonce = b /\ m.text = m.seq + 1 /\ m.id = reqs'[b].header
    BY <1>2 DEF ReqInv
  <2>1. CASE b = a
    BY <2>1, <1>1, <1>3, <1>8
  <2>2. CASE b # a
    BY <2>2, <1>0, <1>1, <1>7 DEF ReqInv, Attempts
  <2> QED
    BY <2>1, <2>2
<1>10. SessInv'
  <2> SUFFICES ASSUME NEW b \in Attempts
               PROVE  SessOK(b)'
    BY DEF SessInv
  <2>1. CASE b = a
    <3>1. resp[a] = NoCipher /\ read[a] = <<>> /\ made[a] = 0
      BY <1>0, <1>1, <1>4 DEF SessInv, SessOK
    <3> QED
      BY <2>1, <3>1, <1>2, <1>8 DEF NoCipher, SessOK
  <2>2. CASE b # a
    BY <2>2, <1>0, <1>2, <1>7 DEF SessInv, SessOK
  <2> QED
    BY <2>1, <2>2
<1>11. ReplyInv' /\ OneAnswer'
  <2>1. OneAnswer'
    BY <1>1, <1>2 DEF OneAnswer
  <2>2. ASSUME NEW m \in replies PROVE m.by # a
    <3>1. m.seq \in Nat /\ m.seq < resp[m.by].enc
      BY DEF IInv, TypeOK, ReplyInv, Message
    <3>2. resp[a].enc = 0
      BY <1>0, <1>1, <1>4 DEF SessInv, SessOK
    <3> QED
      BY <3>1, <3>2
  <2>3. \A m \in replies : m.by \in Attempts /\ reqs'[m.by] = reqs[m.by]
    BY <1>0, <1>7, <2>2 DEF TypeOK, Message
  <2> QED
    BY <1>2, <2>1, <2>3 DEF IInv, ReplyInv
<1>12. WholeInv'
  <2>1. \A b \in Attempts : at'[b] \in {"run", "answer", "cut", "end"} => b # a
    BY <1>8
  <2> QED
    BY <1>0, <1>2, <1>7, <2>1 DEF WholeInv
<1> QED
  BY <1>1, <1>2, <1>5, <1>6, <1>9, <1>10, <1>11, <1>12 DEF IInv, Final

\* What the handler decrypts next is the next part of the last send's answer.
LEMMA DecryptResponseKeeps ==
  ASSUME IInv, NEW m \in replies, DecryptResponse(m)
  PROVE  /\ IInv' /\ attempt' = attempt /\ UNCHANGED made /\ pc = "receive"
         /\ rc'.nonce = rc.nonce /\ pc' \in {"receive", "cut", "failed"}
         /\ \/ got' = got
            \/ pc' = "receive" /\ Len(got') = Len(got) + 1 /\ Len(got') <= made[attempt]
<1> USE ExchangeAssumption
<1>0. TypeOK /\ ClientInv /\ SessInv /\ ReplyInv /\ OneAnswer /\ WholeInv
  BY DEF IInv
<1>1. /\ pc = "receive" /\ attempt \in Attempts /\ rc.nonce = attempt /\ rc.dec = Len(got)
      /\ UNCHANGED <<carrier, attempt, nonces, header, secrets, reqs, session, replies>>
      /\ nonces = attempt /\ got \in Seq(Message) /\ m \in Message /\ Len(got) \in Nat
  BY <1>0 DEF DecryptResponse, ClientInv, TypeOK, Attempts
<1>2. ReqInv' /\ SessInv' /\ ReplyInv'
  BY <1>1 DEF IInv, ReqInv, SessInv, SessOK, ReplyInv, session
<1>3. CASE rc # NoCipher /\ Opens(m, rc.id, rc.nonce, rc.dec)
  <2>1. got' = Append(got, m) /\ rc' = [rc EXCEPT !.dec = @ + 1] /\ pc' = pc
    BY <1>3 DEF DecryptResponse
  <2>2. m.by = attempt /\ m.text = Len(got) + 1 /\ m.seq < resp[attempt].enc
    BY <1>0, <1>1, <1>3 DEF ReplyInv, Opens
  <2>3. Len(got) + 1 <= made[attempt]
    BY <1>0, <1>1, <1>3, <2>2 DEF SessInv, SessOK, TypeOK, Cipher, Opens
  <2>4. /\ Len(got') = Len(got) + 1 /\ got' \in Seq(Message)
        /\ \A i \in DOMAIN got' : IF i = Len(got) + 1 THEN got'[i] = m ELSE i \in DOMAIN got /\ got'[i] = got[i]
    BY <1>1, <2>1
  <2>5. rc' \in Cipher /\ rc'.dec = Len(got') /\ rc'.nonce = rc.nonce
    <3>1. rc \in Cipher /\ rc.dec = Len(got)
      BY <1>0, <1>1 DEF TypeOK
    <3>2. rc' = [rc EXCEPT !.dec = @ + 1] /\ Len(got') = Len(got) + 1
      BY <2>1, <2>4
    <3> QED
      BY <3>1, <3>2 DEF Cipher
  <2>6. OneAnswer'
    <3> SUFFICES ASSUME NEW i \in DOMAIN got'
                 PROVE  got'[i].by = attempt /\ got'[i].text = i /\ i <= made[attempt]
      BY <1>1 DEF OneAnswer, session
    <3>1. CASE i = Len(got) + 1
      BY <3>1, <2>2, <2>3, <2>4
    <3>2. CASE i # Len(got) + 1
      BY <3>2, <1>0, <2>4 DEF OneAnswer
    <3> QED
      BY <3>1, <3>2
  <2>7. TypeOK'
    BY <1>0, <1>1, <2>1, <2>4, <2>5 DEF TypeOK, session, secrets
  <2>8. ClientInv'
    BY <1>0, <1>1, <2>1, <2>4, <2>5 DEF ClientInv, secrets, Final
  <2>9. WholeInv'
    BY <1>0, <1>1, <2>1 DEF WholeInv, session
  <2> QED
    BY <1>1, <1>2, <2>1, <2>3, <2>4, <2>5, <2>6, <2>7, <2>8, <2>9 DEF IInv, session
<1>4. CASE ~(rc # NoCipher /\ Opens(m, rc.id, rc.nonce, rc.dec))
  <2>1. pc' \in {"cut", "failed"} /\ UNCHANGED <<got, rc>>
    BY <1>4 DEF DecryptResponse, EndBy
  <2>2. carrier # "ordered"
    <3> SUFFICES ASSUME carrier = "ordered" PROVE FALSE
      OBVIOUS
    <3>1. m.by = attempt /\ m.text = Len(got) + 1
      BY DEF DecryptResponse
    <3>2. m.nonce = attempt /\ m.seq = Len(got) /\ m.id = reqs[attempt].header
      BY <1>0, <1>1, <3>1 DEF ReplyInv, Message
    <3>3. rc.id = reqs[attempt].header /\ rc # NoCipher
      BY <1>0, <1>1 DEF ClientInv, Attempts, NoCipher
    <3> QED
      BY <1>1, <1>4, <3>2, <3>3 DEF Opens
  <2>3. TypeOK' /\ ClientInv' /\ OneAnswer' /\ WholeInv'
    BY <1>0, <1>1, <2>1, <2>2 DEF TypeOK, ClientInv, OneAnswer, WholeInv, session, secrets, Final
  <2> QED
    BY <1>1, <1>2, <2>1, <2>3 DEF IInv, session
<1> QED
  BY <1>3, <1>4

-----------------------------------------------------------------------------
\* What a step of a session does to its own state.
Local(a) ==
  /\ at[a] \notin {"none", "cut", "end", "failed"}
  /\ TypeOK' /\ SessOK(a)'
  /\ \A m \in replies' : \/ m \in replies
                         \/ /\ m.by = a /\ m.nonce = a /\ m.text = m.seq + 1
                            /\ m.seq < resp'[a].enc /\ m.id = reqs[a].header
  /\ resp[a].enc <= resp'[a].enc
  /\ made'[a] = made[a] \/ made[a] = 0
  /\ carrier = "ordered" /\ at'[a] \in {"run", "answer", "cut", "end"} => Len(read'[a]) = Fields
  /\ at'[a] = "end" => resp'[a].enc = made'[a]

\* VerifyOCSP, the body's end, the answer's end or its break only move the
\* session on.
LEMMA MoveLocal ==
  ASSUME IInv, NEW a \in Attempts,
         VerifyOCSP(a) \/ ForwardRequest(a) \/ AnswerBreaks(a) \/ End(a)
  PROVE  Local(a)
<1>0. TypeOK /\ SessOK(a) /\ WholeInv
  BY DEF IInv, SessInv
<1>1. /\ UNCHANGED <<carrier, client, secrets, reqs, resp, read, made, mode, replies>>
      /\ at[a] \in {"verify", "read", "answer"}
      /\ \E s \in {"read", "run", "end", "cut", "failed"} : at' = [at EXCEPT ![a] = s]
      /\ err' \in [Attempts -> {"none", "nosecret", "reset", "other"}]
  BY <1>0 DEF VerifyOCSP, ForwardRequest, AnswerBreaks, CutOff, End, Fail, TypeOK
<1>2. PICK s \in {"read", "run", "end", "cut", "failed"} : at' = [at EXCEPT ![a] = s]
  BY <1>1
<1>3. at'[a] = s
  BY <1>0, <1>2 DEF TypeOK
<1>4. TypeOK'
  <2>1. at' \in [Attempts -> {"none", "verify", "read", "run", "answer", "end", "cut", "failed"}]
    BY <1>0, <1>2 DEF TypeOK
  <2> QED
    BY <1>0, <1>1, <2>1 DEF TypeOK, client, secrets
<1>5. s \in {"read", "run"} => at[a] \in {"verify", "read"}
  BY <1>0, <1>3 DEF VerifyOCSP, ForwardRequest, AnswerBreaks, CutOff, End, Fail, TypeOK
<1>6. SessOK(a)'
  BY <1>0, <1>1, <1>3, <1>5 DEF SessOK
<1>7. /\ carrier = "ordered" /\ s \in {"run", "end", "cut"} => Len(read[a]) = Fields
      /\ s = "end" => resp[a].enc = made[a]
  BY <1>0, <1>3 DEF VerifyOCSP, ForwardRequest, AnswerBreaks, CutOff, End, Fail, WholeInv, TypeOK
<1>8. resp[a].enc <= resp'[a].enc
  <2>1. resp[a] \in Cipher /\ resp' = resp
    BY <1>0, <1>1 DEF TypeOK
  <2> QED
    BY <2>1 DEF Cipher
<1> QED
  BY <1>1, <1>3, <1>4, <1>6, <1>7, <1>8 DEF Local

\* The session decrypts the next field of its send, or fails.
LEMMA DecryptRequestLocal ==
  ASSUME IInv, NEW a \in Attempts, NEW m \in reqs[a].fields, DecryptRequest(a, m)
  PROVE  Local(a)
<1> DEFINE c == resp[a]
           nonce == IF c.dec = 0 THEN m.nonce ELSE c.nonce
           id == IF c.id = 0 THEN m.id ELSE c.id
           opens == m.id \in known /\ Opens(m, m.id, nonce, c.dec)
<1>0. TypeOK /\ SessOK(a) /\ ReqInv
  BY DEF IInv, SessInv
<1>1. /\ at[a] = "read" /\ c.enc = 0 /\ c \in Cipher
      /\ UNCHANGED <<carrier, client, secrets, reqs, made, mode, replies>>
      /\ m \in Message /\ m.nonce = a /\ m.id = reqs[a].header /\ m.text = m.seq + 1
      /\ c.dec = Len(read[a]) /\ read[a] \in Seq(Message) /\ made[a] = 0 /\ m.id # 0
      /\ m.id \in 1..MaxSecrets
  <2>1. reqs[a] \in [header : 0..MaxSecrets, fields : SUBSET Message]
    BY <1>0 DEF TypeOK
  <2>2. m \in Message
    BY <2>1
  <2>3. m.id \in 1..MaxSecrets
    BY <2>2 DEF Message
  <2>4. m.nonce = a /\ m.id = reqs[a].header /\ m.text = m.seq + 1
    BY <1>0 DEF ReqInv
  <2>5. /\ at[a] = "read" /\ c.enc = 0
        /\ UNCHANGED <<carrier, client, secrets, reqs, made, mode, replies>>
    BY DEF DecryptRequest
  <2> QED
    BY <1>0, <2>2, <2>3, <2>4, <2>5 DEF TypeOK, SessOK
<1>2. id = m.id /\ nonce \in {0, a} /\ nonce \in 0..MaxAttempts
  BY <1>0, <1>1 DEF SessOK, Cipher, Attempts
<1>3. CASE opens
  <2>1. /\ resp' = [resp EXCEPT ![a] = [id |-> id, nonce |-> nonce, enc |-> 0, dec |-> c.dec + 1]]
        /\ read' = [read EXCEPT ![a] = Append(@, m)] /\ UNCHANGED <<at, err>>
    BY <1>1, <1>2, <1>3 DEF DecryptRequest
  <2>2. m.text = Len(read[a]) + 1
    BY <1>1, <1>3 DEF Opens
  <2>3. resp'[a] = [id |-> m.id, nonce |-> nonce, enc |-> 0, dec |-> c.dec + 1]
        /\ read'[a] = Append(read[a], m)
    BY <1>0, <1>2, <2>1 DEF TypeOK
  <2>4. /\ read'[a] \in Seq(Message) /\ Len(read'[a]) = Len(read[a]) + 1
        /\ \A i \in DOMAIN read'[a] : IF i = Len(read[a]) + 1 THEN read'[a][i] = m
                                      ELSE i \in DOMAIN read[a] /\ read'[a][i] = read[a][i]
    BY <1>1, <2>3
  <2>5. TypeOK'
    <3>1. resp'[a] \in Cipher
      BY <1>1, <1>2, <2>3 DEF Cipher
    <3>2. resp' \in [Attempts -> Cipher] /\ read' \in [Attempts -> Seq(Message)]
      BY <1>0, <2>1, <2>3, <2>4, <3>1 DEF TypeOK
    <3> QED
      BY <1>0, <1>1, <2>1, <3>2 DEF TypeOK, client, secrets
  <2>6. SessOK(a)'
    <3>1. \A i \in DOMAIN read'[a] : read'[a][i] \in reqs[a].fields /\ read'[a][i].text = i
      BY <1>0, <2>2, <2>4 DEF SessOK
    <3> QED
      BY <1>1, <1>2, <2>1, <2>3, <2>4, <3>1 DEF SessOK
  <2> QED
    BY <1>1, <2>1, <2>3, <2>5, <2>6 DEF Local
<1>4. CASE ~opens
  <2>1. /\ resp' = [resp EXCEPT ![a] = [c EXCEPT !.nonce = nonce]]
        /\ \E e \in {"other", "nosecret"} : Fail(a, e)
        /\ UNCHANGED read
    BY <1>1, <1>4 DEF DecryptRequest
  <2>2. /\ at' \in [Attempts -> {"none", "verify", "read", "run", "answer", "end", "cut", "failed"}]
        /\ at'[a] = "failed" /\ err' \in [Attempts -> {"none", "nosecret", "reset", "other"}]
    BY <1>0, <2>1 DEF Fail, TypeOK
  <2>3. /\ resp'[a] \in Cipher /\ resp'[a].nonce = nonce /\ resp'[a].id = c.id
        /\ resp'[a].enc = c.enc /\ resp'[a].dec = c.dec
    <3>1. resp'[a] = [c EXCEPT !.nonce = nonce]
      BY <1>0, <2>1 DEF TypeOK
    <3> QED
      BY <1>1, <1>2, <3>1 DEF Cipher
  <2>4. TypeOK'
    <3>1. resp' \in [Attempts -> Cipher]
      BY <1>0, <2>1, <2>3 DEF TypeOK
    <3> QED
      BY <1>0, <1>1, <2>1, <2>2, <3>1 DEF TypeOK, client, secrets
  <2>5. SessOK(a)'
    BY <1>0, <1>1, <1>2, <2>1, <2>2, <2>3 DEF SessOK
  <2> QED
    BY <1>1, <2>1, <2>2, <2>3, <2>4, <2>5 DEF Local, Cipher
<1> QED
  BY <1>3, <1>4

\* The workload's answer is there once, or it is an error.
LEMMA AnswerLocal ==
  ASSUME IInv, NEW a \in Attempts, Answer(a)
  PROVE  Local(a)
<1>0. TypeOK /\ SessOK(a) /\ WholeInv
  BY DEF IInv, SessInv
<1>1. /\ at[a] = "run" /\ made[a] = 0 /\ resp[a].enc = 0 /\ resp[a] \in Cipher
      /\ UNCHANGED <<carrier, client, secrets, reqs, resp, read, replies>>
      /\ carrier = "ordered" => Len(read[a]) = Fields
  BY <1>0 DEF Answer, SessOK, TypeOK, WholeInv
<1>2. /\ at' \in [Attempts -> {"none", "verify", "read", "run", "answer", "end", "cut", "failed"}]
      /\ at'[a] \in {"answer", "failed"}
      /\ made' \in [Attempts -> 0..MaxParts] /\ mode' \in [Attempts -> {"stream", "json"}]
      /\ err' \in [Attempts -> {"none", "nosecret", "reset", "other"}]
  <2>1. CASE \E n \in 0..MaxParts, f \in {"stream", "json"} :
               /\ made' = [made EXCEPT ![a] = n] /\ mode' = [mode EXCEPT ![a] = f]
               /\ at' = [at EXCEPT ![a] = "answer"] /\ UNCHANGED err
    BY <1>0, <2>1 DEF TypeOK
  <2>2. CASE \E e \in {"reset", "other"} : Fail(a, e) /\ UNCHANGED <<made, mode>>
    BY <1>0, <2>2 DEF Fail, TypeOK
  <2> QED
    BY <2>1, <2>2 DEF Answer
<1>3. TypeOK'
  BY <1>0, <1>1, <1>2 DEF TypeOK, client, secrets
<1>4. SessOK(a)'
  BY <1>0, <1>1, <1>2, ExchangeAssumption DEF SessOK
<1> QED
  BY <1>1, <1>2, <1>3, <1>4 DEF Local

\* The session seals the next part for its send, or fails.
LEMMA EncryptResponseLocal ==
  ASSUME IInv, NEW a \in Attempts, EncryptResponse(a)
  PROVE  Local(a)
<1> DEFINE c == resp[a]
           ready == c.nonce # 0 /\ c.dec # 0 /\ c.id # 0
<1>0. TypeOK /\ SessOK(a) /\ WholeInv
  BY DEF IInv, SessInv
<1>1. /\ at[a] = "answer" /\ c.enc < made[a] /\ c \in Cipher /\ made[a] \in Nat
      /\ UNCHANGED <<carrier, client, secrets, reqs, read, made, mode>>
      /\ carrier = "ordered" => Len(read[a]) = Fields
  BY <1>0, ExchangeAssumption DEF EncryptResponse, TypeOK, WholeInv
<1>2. CASE ready /\ c.id \in known
  <2> DEFINE m == Seal(c.id, c.nonce, c.enc, c.enc + 1, a)
  <2>1. /\ replies' = replies \cup {m} /\ resp' = [resp EXCEPT ![a].enc = @ + 1]
        /\ UNCHANGED <<at, err>>
    BY <1>2 DEF EncryptResponse
  <2>2. c.nonce = a /\ c.id \in 1..MaxSecrets /\ c.id = reqs[a].header
    BY <1>0, <1>1, <1>2 DEF SessOK, Cipher
  <2>3. m \in Message /\ m.by = a /\ m.nonce = a /\ m.text = m.seq + 1 /\ m.seq = c.enc
        /\ m.id = reqs[a].header
    BY <1>1, <2>2 DEF Seal, Message, Attempts, Cipher
  <2>4. resp'[a] = [c EXCEPT !.enc = @ + 1]
    BY <1>0, <2>1 DEF TypeOK
  <2>5. /\ resp'[a] \in Cipher /\ resp'[a].enc = c.enc + 1 /\ resp'[a].id = c.id
        /\ resp'[a].nonce = c.nonce /\ resp'[a].dec = c.dec
    BY <1>1, <2>4 DEF Cipher
  <2>6. TypeOK'
    <3>1. resp' \in [Attempts -> Cipher] /\ replies' \subseteq Message
      BY <1>0, <2>1, <2>3, <2>4, <2>5 DEF TypeOK
    <3> QED
      BY <1>0, <1>1, <2>1, <3>1 DEF TypeOK, client, secrets
  <2>7. SessOK(a)'
    BY <1>0, <1>1, <2>1, <2>5 DEF SessOK, Cipher
  <2>8. \A k \in replies' : \/ k \in replies
                            \/ /\ k.by = a /\ k.nonce = a /\ k.text = k.seq + 1
                               /\ k.seq < resp'[a].enc /\ k.id = reqs[a].header
    BY <1>1, <2>1, <2>3, <2>5 DEF Cipher
  <2> QED
    BY <1>1, <2>1, <2>5, <2>6, <2>7, <2>8 DEF Local, Cipher
<1>3. CASE ~(ready /\ c.id \in known)
  <2>1. /\ UNCHANGED <<replies, resp>>
        /\ at' \in [Attempts -> {"none", "verify", "read", "run", "answer", "end", "cut", "failed"}]
        /\ at'[a] \in {"cut", "failed"}
        /\ err' \in [Attempts -> {"none", "nosecret", "reset", "other"}]
    BY <1>0, <1>3 DEF EncryptResponse, CutOff, TypeOK
  <2>2. TypeOK'
    BY <1>0, <1>1, <2>1 DEF TypeOK, client, secrets
  <2>3. SessOK(a)'
    BY <1>0, <1>1, <2>1 DEF SessOK
  <2> QED
    BY <1>1, <2>1, <2>2, <2>3 DEF Local, Cipher
<1> QED
  BY <1>2, <1>3

\* A step of a session leaves the client, the secrets and other sessions alone.
LEMMA SessionFrame ==
  ASSUME TypeOK, NEW a \in Attempts, Session(a)
  PROVE  /\ UNCHANGED <<carrier, client, secrets, reqs>>
         /\ \A b \in Attempts : b # a =>
              /\ at'[b] = at[b] /\ resp'[b] = resp[b] /\ read'[b] = read[b]
              /\ made'[b] = made[b]
<1>1. CASE VerifyOCSP(a) \/ ForwardRequest(a) \/ AnswerBreaks(a) \/ End(a)
  BY <1>1 DEF VerifyOCSP, ForwardRequest, AnswerBreaks, CutOff, End, Fail, TypeOK
<1>2. CASE Answer(a)
  <2>1. CASE \E e \in {"reset", "other"} : Fail(a, e) /\ UNCHANGED <<made, mode>>
    BY <1>2, <2>1 DEF Answer, Fail, TypeOK
  <2>2. CASE ~\E e \in {"reset", "other"} : Fail(a, e) /\ UNCHANGED <<made, mode>>
    BY <1>2, <2>2 DEF Answer, TypeOK
  <2> QED
    BY <2>1, <2>2
<1>3. CASE EncryptResponse(a)
  BY <1>3 DEF EncryptResponse, CutOff, TypeOK
<1>4. CASE \E m \in reqs[a].fields : DecryptRequest(a, m)
  BY <1>4 DEF DecryptRequest, Fail, TypeOK
<1> QED
  BY <1>1, <1>2, <1>3, <1>4 DEF Session, Proceed

\* A step of a session keeps the invariant; what the application has read of
\* an answer was computed before.
LEMMA SessionKeeps ==
  ASSUME IInv, NEW a \in Attempts, Session(a)
  PROVE  /\ IInv' /\ UNCHANGED client
         /\ \A b \in Attempts : made'[b] = made[b] \/ (b = a /\ made[b] = 0)
         /\ made'[a] \in Nat /\ \A b \in Attempts : b # a => made'[b] = made[b]
<1> USE ExchangeAssumption
<1>0. TypeOK /\ ClientInv /\ ReqInv /\ SessInv /\ ReplyInv /\ OneAnswer /\ WholeInv
  BY DEF IInv
<1>1. Local(a)
  BY MoveLocal, AnswerLocal, EncryptResponseLocal, DecryptRequestLocal DEF Session, Proceed
<1>2. /\ UNCHANGED <<carrier, client, secrets, reqs>>
      /\ \A b \in Attempts : b # a =>
           /\ at'[b] = at[b] /\ resp'[b] = resp[b] /\ read'[b] = read[b]
           /\ made'[b] = made[b]
  BY <1>0, SessionFrame
<1>3. ClientInv'
  BY <1>0, <1>2 DEF ClientInv, client, secrets, Final
<1>4. ReqInv'
  BY <1>0, <1>1, <1>2 DEF ReqInv, Local, client
<1>5. SessInv'
  <2> SUFFICES ASSUME NEW b \in Attempts PROVE SessOK(b)'
    BY DEF SessInv
  <2>1. CASE b = a
    BY <2>1, <1>1 DEF Local
  <2>2. CASE b # a
    BY <2>2, <1>0, <1>2 DEF SessInv, SessOK
  <2> QED
    BY <2>1, <2>2
<1>6. ReplyInv'
  <2> SUFFICES ASSUME NEW m \in replies'
               PROVE  /\ m.nonce = m.by /\ m.text = m.seq + 1 /\ m.seq < resp'[m.by].enc
                      /\ m.id = reqs[m.by].header
    BY <1>2 DEF ReplyInv
  <2>1. CASE m \in replies
    <3>1. m \in Message /\ m.nonce = m.by /\ m.text = m.seq + 1 /\ m.seq < resp[m.by].enc
          /\ m.id = reqs[m.by].header
      BY <1>0, <2>1 DEF ReplyInv, TypeOK
    <3>2. m.by \in Attempts /\ m.seq \in Nat
      BY <3>1 DEF Message
    <3>3. resp[m.by].enc <= resp'[m.by].enc /\ resp[m.by].enc \in Nat /\ resp'[m.by].enc \in Nat
      <4>1. resp[m.by] \in Cipher /\ resp'[m.by] \in Cipher
        BY <1>0, <1>1, <3>2 DEF Local, TypeOK
      <4>2. resp[m.by].enc \in Nat /\ resp'[m.by].enc \in Nat
        BY <4>1 DEF Cipher
      <4>3. m.by = a \/ resp'[m.by] = resp[m.by]
        BY <1>2, <3>2
      <4> QED
        BY <1>1, <4>2, <4>3 DEF Local
    <3> QED
      BY <3>1, <3>2, <3>3
  <2>2. CASE m \notin replies
    BY <2>2, <1>1 DEF Local
  <2> QED
    BY <2>1, <2>2
<1>7. \A b \in Attempts : made'[b] = made[b] \/ (b = a /\ made[b] = 0)
  BY <1>1, <1>2 DEF Local
<1>8. OneAnswer'
  <2> SUFFICES ASSUME NEW i \in DOMAIN got
               PROVE  got[i].by = attempt /\ got[i].text = i /\ i <= made'[attempt]
    BY <1>2 DEF OneAnswer, client
  <2>1. got[i].by = attempt /\ got[i].text = i /\ i <= made[attempt]
    BY <1>0 DEF OneAnswer
  <2>2. i \in 1..Len(got) /\ got[i] \in Message
    BY <1>0 DEF TypeOK
  <2>3. attempt \in Attempts
    BY <2>1, <2>2 DEF Message
  <2>4. made'[attempt] = made[attempt]
    BY <1>0, <1>7, <2>1, <2>2, <2>3 DEF TypeOK
  <2> QED
    BY <2>1, <2>4
<1>9. WholeInv'
  <2>1. \A b \in Attempts :
          /\ carrier = "ordered" /\ at'[b] \in {"run", "answer", "cut", "end"} => Len(read'[b]) = Fields
          /\ at'[b] = "end" => resp'[b].enc = made'[b]
    BY <1>0, <1>1, <1>2 DEF WholeInv, Local
  <2>2. ASSUME carrier = "ordered", pc = "done"
        PROVE  at'[attempt] \in {"cut", "end"} /\ Len(got) = resp'[attempt].enc
    <3>1. attempt \in Attempts /\ at[attempt] \in {"cut", "end"} /\ Len(got) = resp[attempt].enc
      BY <1>0, <2>2 DEF WholeInv, ClientInv, TypeOK, Attempts
    <3>2. attempt # a
      BY <1>1, <3>1 DEF Local
    <3> QED
      BY <1>2, <3>1, <3>2
  <2>3. carrier = "ordered" => pc # "cut"
    BY <1>0 DEF WholeInv
  <2> QED
    BY <1>2, <2>1, <2>2, <2>3 DEF WholeInv, client
<1>10. TypeOK'
  BY <1>1 DEF Local
<1>11. made'[a] \in Nat
  BY <1>10 DEF TypeOK
<1> QED
  BY <1>2, <1>3, <1>4, <1>5, <1>6, <1>7, <1>8, <1>9, <1>10, <1>11 DEF IInv

-----------------------------------------------------------------------------
\* Every step keeps the invariant.
LEMMA IInvNext == IInv /\ [Next]_vars => IInv'
<1> SUFFICES ASSUME IInv, [Next]_vars PROVE IInv'
  OBVIOUS
<1>1. CASE Quiet
  BY <1>1, QuietKeeps
<1>2. CASE Send
  BY <1>2, SendKeeps
<1>3. CASE \E m \in replies : DecryptResponse(m)
  BY <1>3, DecryptResponseKeeps
<1>4. CASE \E a \in Attempts : Session(a)
  BY <1>4, SessionKeeps
<1>5. CASE UNCHANGED vars
  BY <1>5 DEF vars, client, secrets, session, IInv, TypeOK, ClientInv, ReqInv, SessInv, SessOK,
     ReplyInv, OneAnswer, WholeInv
<1> QED
  BY <1>1, <1>2, <1>3, <1>4, <1>5 DEF Next, Handler, Mishap, Quiet

\* The inductive invariant holds in every reachable state.
THEOREM Invariance == Spec => []IInv
BY IInvInit, IInvNext, PTL DEF Spec

\* The variables keep their types; there are at most MaxAttempts sends.
THEOREM TypeCorrect == Spec => []TypeOK
<1>1. IInv => TypeOK
  BY DEF IInv
<1> QED
  BY <1>1, Invariance, PTL

\* The workload gets the fields in their order, whatever order and number the
\* carrier hands them over in.
THEOREM FieldsInOrder == Spec => []RequestInOrder
<1>1. IInv => RequestInOrder
  BY DEF IInv, SessInv, SessOK, RequestInOrder
<1> QED
  BY <1>1, Invariance, PTL

\* Body and header of every send are made with the same secret.
THEOREM HeaderMatches == Spec => []HeaderNamesCipher
<1>1. IInv => HeaderNamesCipher
  BY DEF IInv, ReqInv, HeaderNamesCipher
<1> QED
  BY <1>1, Invariance, PTL

\* The application never reads parts of two answers, or parts out of order.
THEOREM AnswerNeverMixed == Spec => []OneAnswer
<1>1. IInv => OneAnswer
  BY DEF IInv
<1> QED
  BY <1>1, Invariance, PTL

\* Over ordered connections only a broken connection or a session cut off makes
\* an answer short: whatever its session sealed for it opens.
THEOREM ShortAnswer == Spec => []ShortForAReason
<1>1. IInv => ShortForAReason
  <2> SUFFICES ASSUME IInv, carrier = "ordered", StreamOver, pc # "broken", at[attempt] # "cut"
               PROVE  Whole
    BY DEF ShortForAReason
  <2>1. pc = "done"
    BY DEF StreamOver, IInv, WholeInv
  <2>2. attempt \in Attempts
    BY <2>1, ExchangeAssumption DEF IInv, TypeOK, ClientInv, Attempts
  <2>3. at[attempt] = "end" /\ Len(got) = resp[attempt].enc
    BY <2>1 DEF IInv, WholeInv
  <2> QED
    BY <2>2, <2>3 DEF IInv, WholeInv, Whole
<1> QED
  BY <1>1, Invariance, PTL

\* A request whose answer has begun is never sent again.
THEOREM NeverResent == Spec => NoResendAfterAnswer
<1>1. IInv /\ [Next]_vars =>
        [got # <<>> => /\ attempt' = attempt /\ rc'.nonce = rc.nonce
                       /\ pc' \in Final \cup {"receive"}]_vars
  <2> SUFFICES ASSUME IInv, Next, got # <<>>
               PROVE  /\ attempt' = attempt /\ rc'.nonce = rc.nonce
                      /\ pc' \in Final \cup {"receive"}
    OBVIOUS
  <2>1. pc \in Final \cup {"receive"}
    BY DEF IInv, ClientInv
  <2>2. CASE Quiet
    <3>1. CASE Break \/ Finish
      BY <3>1 DEF Break, Finish, EndBy, Final
    <3>2. CASE Keys
      BY <2>1, <3>2 DEF Keys, Rotate, Lose, Regain, client
    <3> QED
      BY <2>1, <2>2, <3>1, <3>2 DEF Quiet, Begin, ReceiveError, ConnectionReset, Abandon, ForceUpdate,
         InitAfterUpdate, InitAfterReset, Backoff, ReceiveHeader, Final
  <2>3. CASE Send
    BY <2>1, <2>3 DEF Send, Final
  <2>4. CASE \E m \in replies : DecryptResponse(m)
    BY <2>4, DecryptResponseKeeps DEF Final
  <2>5. CASE \E a \in Attempts : Session(a)
    BY <2>1, <2>5, SessionKeeps DEF client
  <2> QED
    BY <2>2, <2>3, <2>4, <2>5 DEF Next, Handler, Mishap, Quiet
<1> QED
  BY <1>1, Invariance, PTL DEF Spec, NoResendAfterAnswer

\* A secret the inference-proxy does not know is not used a second time.
THEOREM SecretReplaced == Spec => RefusedSecretReplaced
<1>1. IInv /\ [Next]_vars => [pc = "init" /\ pc' = "mutate" => rc'.id > header]_vars
  <2> SUFFICES ASSUME IInv, Next, pc = "init", pc' = "mutate"
               PROVE  rc'.id > header
    OBVIOUS
  <2>1. header < latest /\ latest \in Nat /\ header \in Nat
    BY DEF IInv, TypeOK, ClientInv
  <2>2. CASE Quiet
    <3>1. InitAfterUpdate \/ Keys
      BY <2>2 DEF Quiet, Begin, ReceiveError, ConnectionReset, Abandon, ForceUpdate, InitAfterReset,
         Backoff, ReceiveHeader, Break, Finish
    <3>2. ~Keys
      BY DEF Keys, Rotate, Lose, Regain, client
    <3> QED
      BY <2>1, <3>1, <3>2 DEF InitAfterUpdate, Renew, GiveUp
  <2>3. ~Send /\ ~\E m \in replies : DecryptResponse(m)
    BY DEF Send, DecryptResponse
  <2>4. ~\E a \in Attempts : Session(a)
    BY SessionKeeps DEF client
  <2> QED
    BY <2>2, <2>3, <2>4 DEF Next, Handler, Mishap, Quiet
<1> QED
  BY <1>1, Invariance, PTL DEF Spec, RefusedSecretReplaced

\* The exchange implements the promise of one answer's prefix.
LEMMA PromiseStep ==
  IInv /\ [Next]_vars =>
    [Promise!Next]_<<made, IF got = <<>> THEN 0 ELSE attempt, Len(got), pc \in Final>>
<1> SUFFICES ASSUME IInv, [Next]_vars
             PROVE  [Promise!Next]_<<made, IF got = <<>> THEN 0 ELSE attempt, Len(got), pc \in Final>>
  OBVIOUS
<1>0. /\ made \in [Attempts -> 0..MaxParts] /\ got \in Seq(Message) /\ attempt \in Nat
      /\ pc \notin Final \cup {"receive"} => got = <<>>
  BY ExchangeAssumption DEF IInv, TypeOK, ClientInv
<1>1. CASE Quiet
  <2>1. UNCHANGED <<made, got, attempt>>
    BY <1>1, QuietFrame DEF session
  <2>2. CASE pc \in Final
    <3>1. pc' = pc
      <4>1. CASE Keys
        BY <4>1 DEF Keys, Rotate, Lose, Regain, client
      <4> QED
        BY <1>1, <2>2, <4>1 DEF Quiet, Begin, ReceiveError, ConnectionReset, Abandon, ForceUpdate,
           InitAfterUpdate, InitAfterReset, Backoff, ReceiveHeader, Break, Finish, Final
    <3> QED
      BY <2>1, <3>1
  <2>3. CASE pc \notin Final
    <3>1. CASE pc' \in Final
      BY <2>1, <2>3, <3>1 DEF Promise!Next, Promise!Close
    <3>2. CASE pc' \notin Final
      BY <2>1, <2>3, <3>2
    <3> QED
      BY <3>1, <3>2
  <2> QED
    BY <2>2, <2>3
<1>2. CASE Send
  <2>1. UNCHANGED <<made, got>> /\ pc = "mutate" /\ got = <<>> /\ pc \notin Final
    BY <1>0, <1>2, SendKeeps DEF Send, Final
  <2>2. pc' \in Final => Promise!Close
    BY <2>1 DEF Promise!Close
  <2> QED
    BY <2>1, <2>2 DEF Promise!Next
<1>3. CASE \E m \in replies : DecryptResponse(m)
  <2> PICK m \in replies : DecryptResponse(m)
    BY <1>3
  <2>1. /\ IInv' /\ attempt' = attempt /\ UNCHANGED made /\ pc = "receive"
        /\ pc' \in {"receive", "cut", "failed"}
        /\ \/ got' = got
           \/ pc' = "receive" /\ Len(got') = Len(got) + 1 /\ Len(got') <= made[attempt]
    BY DecryptResponseKeeps
  <2>2. attempt \in Attempts /\ got' \in Seq(Message)
    BY <2>1 DEF IInv, TypeOK, ClientInv, Attempts
  <2>3. CASE got' = got /\ pc' = "receive"
    BY <2>1, <2>3
  <2>4. CASE got' = got /\ pc' # "receive"
    BY <2>1, <2>4 DEF Promise!Next, Promise!Close, Final
  <2>5. CASE got' # got
    <3>1. got' # <<>> /\ Len(got) \in Nat /\ made[attempt] \in Nat
      BY <1>0, <2>1, <2>2, <2>5
    <3>2. Promise!Deliver(attempt)
      BY <1>0, <2>1, <2>5, <3>1 DEF Promise!Deliver, Final
    <3> QED
      BY <2>2, <3>2 DEF Promise!Next
  <2> QED
    BY <2>3, <2>4, <2>5
<1>4. CASE \E a \in Attempts : Session(a)
  <2> PICK a \in Attempts : Session(a)
    BY <1>4
  <2>1. /\ UNCHANGED client /\ IInv'
        /\ \A b \in Attempts : made'[b] = made[b] \/ (b = a /\ made[b] = 0)
        /\ made'[a] \in Nat /\ \A b \in Attempts : b # a => made'[b] = made[b]
    BY SessionKeeps
  <2>2. made' \in [Attempts -> 0..MaxParts]
    BY <2>1 DEF IInv, TypeOK
  <2>3. made' = made \/ (made[a] = 0 /\ made' = [made EXCEPT ![a] = made'[a]])
    BY <1>0, <2>1, <2>2
  <2>4. made[a] = 0 /\ made' = [made EXCEPT ![a] = made'[a]] => Promise!Compute(a)
    BY <2>1 DEF Promise!Compute, client
  <2> QED
    BY <2>1, <2>3, <2>4 DEF Promise!Next, client
<1>5. CASE UNCHANGED vars
  BY <1>5 DEF vars, client, session
<1> QED
  BY <1>1, <1>2, <1>3, <1>4, <1>5 DEF Next, Handler, Mishap, Quiet

\* The application reads a prefix of one answer, computed once.
THEOREM Refinement == Spec => ImplementsAnswerPrefix
<1>1. Init => Promise!Init
  BY DEF Init, Promise!Init, Final
<1> QED
  BY <1>1, PromiseStep, Invariance, PTL DEF Spec, ImplementsAnswerPrefix, Promise!Spec
=============================================================================
