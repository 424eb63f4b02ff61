------------------------- MODULE SecretManager_proofs -------------------------
(***************************************************************************)
(* Proofs about SecretManager, for any number of handlers and keys, any    *)
(* lifetime and any bounds.                                                *)
(*                                                                         *)
(* The inductive invariant says what sm.mut protects: whoever exchanges    *)
(* holds the mutex (MutexInv), so the key it exchanges with is still the   *)
(* key in force (ArgInv), the secret it stored has a lease that counts     *)
(* from after its clock reading (StoredInv), and that reading is later     *)
(* than the one behind the cached secret (NowInv).                         *)
(***************************************************************************)
EXTENDS SecretManager, TLAPS

MutexInv == \A c \in Callers : pc[c] \in Exchanging <=> mut = c

\* Only handlers offer and force; an offered key is a key.
CallInv ==
  \A c \in Callers :
    /\ pc[c] \in {"lockOffer", "xOffer", "lockForce", "xForce", "ready",
                  "panicked", "idle"} => c # Loop
    /\ pc[c] \in {"waitKey", "sleep", "exited"} => c = Loop
    /\ pc[c] \in {"lockOffer", "xOffer"} => arg[c] \in Keys

\* The key of a running exchange is the key in force, or there is none.
ArgInv ==
  \A c \in Callers :
    /\ pc[c] = "xOffer" => apiKey = NoKey
    /\ pc[c] \in {"xLatest", "xForce"} => arg[c] = apiKey

\* The lease of a secret that is on its way started after now was read.
StoredInv ==
  \A c \in Callers : stored[c] # 0 =>
    /\ pc[c] \in Exchanging
    /\ arg[c] \in Keys
    /\ stored[c] \in 1 .. Len(lease)
    /\ lease[stored[c]] >= now[c] + Lifetime

\* Expiration dates are given out in the order of the clock readings.
NowInv ==
  \A c \in Callers : pc[c] \in Exchanging =>
    /\ now[c] <= clock
    /\ secret.exp <= now[c] + (Lifetime - RefreshBuffer)

SecretInv ==
  /\ secret.exp <= clock + (Lifetime - RefreshBuffer)
  /\ secret.id # 0 => LeaseCovers(secret)

ConfiguredInv == ~dropOnUnauthorized => apiKey # NoKey

\* What sm.mut protects, what the exchanges know, what the manager promises.
LockInv == MutexInv /\ CallInv /\ ArgInv
ExchangeInv == StoredInv /\ NowInv /\ SecretInv
PromiseInv ==
  /\ ConfiguredInv
  /\ KeyMatchesSecret
  /\ HandedOutIsFresh
  /\ LoopNotBehind
  /\ ConfiguredKeySignalsOnce

IInv == TypeOK /\ LockInv /\ ExchangeInv /\ PromiseInv

-----------------------------------------------------------------------------
USE TimeAssumption, BoundAssumption

LEMMA CallerFacts ==
  /\ \A h \in Handlers : h \in Callers /\ h # Loop
  /\ \A c \in Callers : c # Free /\ (c # Loop => c \in Handlers)
  /\ Loop \in Callers
BY CallersAssumption DEF Callers

LEMMA SecretFacts ==
  /\ NoSecret \in Secrets
  /\ NoSecret.id = 0 /\ NoSecret.exp = 0
  /\ \A s \in Secrets : s.id \in Nat /\ s.exp \in Int
BY DEF Secrets, NoSecret

LEMMA NewSecretType ==
  ASSUME TypeOK, NEW c \in Callers
  PROVE  /\ NewSecret(c) \in Secrets
         /\ NewSecret(c).id = stored[c]
         /\ NewSecret(c).exp = now[c] + Lifetime - RefreshBuffer
         /\ NewSecret(c).key = arg[c]
BY DEF NewSecret, Secrets, TypeOK

\* A request is retried once at most.
LEMMA RetryAttempt ==
  ASSUME TypeOK, NEW h \in Handlers, NEW s, Retry(h, s)
  PROVE  attempt' = [attempt EXCEPT ![h] = 2]
<1>1. attempt[h] \in {1, 2}
  BY CallerFacts DEF TypeOK
<1>2. attempt[h] = 1
  BY <1>1 DEF Retry
<1> QED
  BY <1>2 DEF Retry

LocalTypes ==
  /\ pc \in [Callers -> States]
  /\ now \in [Callers -> Nat]
  /\ got \in [Callers -> Secrets]
  /\ attempt \in [Callers -> {1, 2}]
  /\ wake \in Int

LEMMA FinishType ==
  ASSUME TypeOK, NEW c \in Callers, Finish(c)
  PROVE  LocalTypes'
BY SecretFacts DEF TypeOK, LocalTypes, Finish, Goto, States

LEMMA OfferedType ==
  ASSUME TypeOK, NEW c \in Callers, Offered(c)
  PROVE  LocalTypes'
<1>1. CASE Goto(c, "lockLatest") /\ UNCHANGED <<now, got, attempt, wake>>
  BY <1>1 DEF TypeOK, LocalTypes, Goto, States, Waiting
<1> QED
  BY <1>1, FinishType DEF Offered

LEMMA ReturnType ==
  ASSUME TypeOK, NEW c \in Callers, NEW s \in Secrets, Return(c, s)
  PROVE  /\ pc' \in [Callers -> States] /\ wake' \in Int
         /\ got' \in [Callers -> Secrets] /\ UNCHANGED attempt
<1>1. CASE c = Loop
  BY <1>1, SecretFacts DEF TypeOK, Return, Goto, States
<1>2. CASE c # Loop
  BY <1>2 DEF TypeOK, Return, Goto, States
<1> QED
  BY <1>1, <1>2

LEMMA TypeInit == Init => TypeOK
<1> SUFFICES ASSUME Init PROVE TypeOK
  OBVIOUS
<1>1. /\ secret \in Secrets /\ apiKey \in Keys \cup {NoKey}
      /\ lease \in Seq(Nat)
  <2>1. CASE dropOnUnauthorized
    BY <2>1, SecretFacts DEF Init
  <2>2. CASE ~dropOnUnauthorized
    <3>1. PICK k \in Keys : /\ secret = InitialSecret(k) /\ apiKey = k
                            /\ lease = <<Lifetime>>
      BY <2>2 DEF Init
    <3>2. InitialSecret(k) \in Secrets
      BY DEF InitialSecret, Secrets
    <3> QED
      BY <3>1, <3>2
  <2> QED
    BY <2>1, <2>2
<1> QED
  BY <1>1, SecretFacts DEF Init, TypeOK, States

LEMMA TypeStep == TypeOK /\ [Next]_vars => TypeOK'
<1> SUFFICES ASSUME TypeOK, [Next]_vars PROVE TypeOK'
  OBVIOUS
<1> USE CallerFacts, SecretFacts DEF TypeOK, States, Waiting, Exchanging,
   Goto, smVars, callVars, outcome, envVars
<1>1. ASSUME NEW h \in Handlers, Arrive(h)
     PROVE  TypeOK'
  <2>1. pc' \in [Callers -> States]
    BY <1>1 DEF Arrive
  <2>2. arg' \in [Callers -> Keys \cup {NoKey}]
    <3>1. arg' = arg \/ \E k \in Keys : arg' = [arg EXCEPT ![h] = k]
      BY <1>1 DEF Arrive
    <3>2. arg \in [Callers -> Keys \cup {NoKey}]
      OBVIOUS
    <3> QED
      BY <3>1, <3>2
  <2> QED
    BY <1>1, <2>1, <2>2 DEF Arrive
<1>2. ASSUME NEW h \in Handlers, OfferNoop(h)
     PROVE  TypeOK'
  <2>1. arg' \in [Callers -> Keys \cup {NoKey}]
    BY <1>2 DEF OfferNoop
  <2>2. LocalTypes'
    BY <1>2, OfferedType DEF OfferNoop
  <2> QED
    BY <1>2, <2>1, <2>2 DEF OfferNoop, LocalTypes
<1>3. ASSUME NEW h \in Handlers, OfferExchange(h)
     PROVE  TypeOK'
  BY <1>3 DEF OfferExchange, StartExchange
<1>4. ASSUME NEW h \in Handlers, ForceExchange(h)
     PROVE  TypeOK'
  BY <1>4 DEF ForceExchange, StartExchange
<1>5. ASSUME NEW h \in Handlers, NoSecretForID(h)
     PROVE  TypeOK'
  BY <1>5, RetryAttempt DEF NoSecretForID, Retry
<1>6. ASSUME NEW h \in Handlers, ConnectionReset(h)
     PROVE  TypeOK'
  BY <1>6, RetryAttempt DEF ConnectionReset, Retry
<1>7. ASSUME NEW h \in Handlers, Done(h)
     PROVE  TypeOK'
  BY <1>7 DEF Done, Finish
<1>8. ASSUME NEW c \in Callers, LatestNoKey(c)
     PROVE  TypeOK'
  BY <1>8 DEF LatestNoKey, Finish
<1>9. ASSUME NEW c \in Callers, LatestCached(c)
     PROVE  TypeOK'
  BY <1>9, ReturnType DEF LatestCached
<1>10. ASSUME NEW c \in Callers, LatestExchange(c)
     PROVE  TypeOK'
  BY <1>10 DEF LatestExchange, StartExchange
<1>11. ASSUME NEW c \in Callers, StoreSecret(c)
     PROVE  TypeOK'
  <2>1. /\ stored' \in [Callers -> Nat] /\ lease' \in Seq(Nat)
        /\ UNCHANGED <<smVars, mut, pc, arg, now, refused, got, attempt, wake,
                       clock, valid>>
    BY <1>11 DEF StoreSecret
  <2> QED
    BY <2>1
<1>12. ASSUME NEW c \in Callers, ExchangeOk(c)
     PROVE  TypeOK'
  <2>1. /\ secret' \in Secrets /\ mut' \in Callers \cup {Free}
        /\ arg' \in [Callers -> Keys \cup {NoKey}]
        /\ stored' \in [Callers -> Nat] /\ refused' \in [Callers -> BOOLEAN]
        /\ UNCHANGED <<dropOnUnauthorized, envVars>>
    BY <1>12, NewSecretType DEF ExchangeOk, EndExchange
  <2>2. CASE pc[c] = "xOffer" /\ OfferDone(c)
    <3>1. apiKey' \in Keys \cup {NoKey} /\ chanClosed' \in BOOLEAN
      BY <2>2 DEF OfferDone
    <3>2. LocalTypes'
      <4>1. CASE chanClosed
        BY <2>2, <4>1 DEF OfferDone, LocalTypes
      <4>2. CASE ~chanClosed
        BY <2>2, <4>2, OfferedType DEF OfferDone
      <4> QED
        BY <4>1, <4>2
    <3> QED
      BY <2>1, <3>1, <3>2 DEF LocalTypes
  <2>3. CASE /\ pc[c] = "xLatest" /\ Return(c, NewSecret(c))
             /\ UNCHANGED <<apiKey, chanClosed, now>>
    BY <2>1, <2>3, NewSecretType, ReturnType
  <2>4. CASE /\ pc[c] = "xForce" /\ Goto(c, "lockLatest")
             /\ UNCHANGED <<apiKey, chanClosed, now, got, attempt, wake>>
    BY <2>1, <2>4
  <2> QED
    BY <1>12, <2>2, <2>3, <2>4 DEF ExchangeOk
<1>13. ASSUME NEW c \in Callers, ExchangeUnauthorized(c)
     PROVE  TypeOK'
  BY <1>13 DEF ExchangeUnauthorized, Finish, EndExchange
<1>14. ASSUME NEW c \in Callers, ExchangeFailed(c)
     PROVE  TypeOK'
  BY <1>14 DEF ExchangeFailed, Finish, EndExchange
<1>15. CASE LoopStart
  BY <1>15 DEF LoopStart
<1>16. CASE LoopWake
  BY <1>16 DEF LoopWake
<1>17. CASE LoopCancelled
  BY <1>17 DEF LoopCancelled, Finish
<1>18. CASE Tick
  BY <1>18 DEF Tick
<1>19. ASSUME NEW k \in Keys, ToggleKey(k)
     PROVE  TypeOK'
  BY <1>19 DEF ToggleKey
<1>20. CASE UNCHANGED vars
  BY <1>20 DEF vars
<1>21. ASSUME NEW c \in Callers, RefuseKey(c)
     PROVE  TypeOK'
  BY <1>21 DEF RefuseKey
<1> QED
  BY <1>1, <1>2, <1>3, <1>4, <1>5, <1>6, <1>7, <1>8, <1>9, <1>10, <1>11, <1>12,
     <1>13, <1>14, <1>15, <1>16, <1>17, <1>18, <1>19, <1>20, <1>21 DEF Next,
     Handle, Latest, Exchange
LEMMA LeaseType ==
  ASSUME TypeOK, NEW i \in 1 .. Len(lease)
  PROVE  lease[i] \in Nat
BY DEF TypeOK

LEMMA UpToDateIsFresh ==
  ASSUME IInv, UpToDate
  PROVE  /\ secret.id \in 1 .. Len(lease)
         /\ lease[secret.id] > clock + RefreshBuffer
<1>1. /\ secret.exp \in Int /\ clock \in Nat /\ clock < secret.exp
  BY SecretFacts DEF IInv, TypeOK, UpToDate
<1>2. /\ secret.id \in 1 .. Len(lease)
      /\ secret.exp + RefreshBuffer <= lease[secret.id]
  BY DEF IInv, ExchangeInv, SecretInv, LeaseCovers, UpToDate
<1>3. lease[secret.id] \in Nat
  BY <1>2, LeaseType DEF IInv
<1> QED
  BY <1>1, <1>2, <1>3

LEMMA StoredIsFresh ==
  ASSUME IInv, NEW c \in Callers, stored[c] # 0
  PROVE  /\ stored[c] \in 1 .. Len(lease)
         /\ lease[stored[c]] > now[c] + RefreshBuffer
<1>1. /\ stored[c] \in 1 .. Len(lease)
      /\ lease[stored[c]] >= now[c] + Lifetime
  BY DEF IInv, ExchangeInv, StoredInv
<1>2. lease[stored[c]] \in Nat /\ now[c] \in Nat
  BY <1>1, LeaseType DEF IInv, TypeOK
<1> QED
  BY <1>1, <1>2

LEMMA StoredLease ==
  ASSUME TypeOK, NEW c \in Callers, StoreSecret(c)
  PROVE  /\ Len(lease') = Len(lease) + 1
         /\ lease'[Len(lease) + 1] = clock + Lifetime
         /\ \A i \in 1 .. Len(lease) : /\ i \in 1 .. Len(lease')
                                      /\ lease'[i] = lease[i]
BY DEF TypeOK, StoreSecret

\* A step of a call outside the exchange leaves the exchanges alone.
LEMMA ExchangeStays ==
  ASSUME TypeOK, ExchangeInv, NEW c \in Callers,
         pc[c] \notin Exchanging, pc'[c] \notin Exchanging,
         \A d \in Callers \ {c} : /\ pc'[d] = pc[d] /\ arg'[d] = arg[d]
                                  /\ now'[d] = now[d],
         UNCHANGED <<secret, stored, lease, clock>>
  PROVE  ExchangeInv'
<1>1. StoredInv'
  BY DEF ExchangeInv, StoredInv
<1>2. NowInv'
  BY DEF ExchangeInv, NowInv
<1>3. SecretInv'
  BY DEF ExchangeInv, SecretInv, LeaseCovers
<1> QED
  BY <1>1, <1>2, <1>3 DEF ExchangeInv

LEMMA IInvInit == Init => IInv
<1> SUFFICES ASSUME Init PROVE IInv
  OBVIOUS
<1>1. TypeOK
  BY TypeInit
<1>2. LockInv
  BY <1>1, CallersAssumption DEF Init, LockInv, MutexInv, CallInv, ArgInv,
     Callers, Exchanging
<1>3. CASE dropOnUnauthorized
  <2>1. secret = NoSecret /\ apiKey = NoKey
    BY <1>3 DEF Init
  <2> QED
    BY <1>1, <1>2, <1>3, <2>1, SecretFacts, CallerFacts DEF Init, IInv,
       Exchanging, ExchangeInv, StoredInv, NowInv, SecretInv, LeaseCovers,
       PromiseInv, ConfiguredInv, KeyMatchesSecret, HandedOutIsFresh,
       LoopNotBehind, ConfiguredKeySignalsOnce, OfferSignalsLoop
<1>4. CASE ~dropOnUnauthorized
  <2>1. PICK k \in Keys : /\ secret = InitialSecret(k) /\ apiKey = k
                          /\ lease = <<Lifetime>>
    BY <1>4 DEF Init
  <2>2. /\ secret.id = 1 /\ secret.exp = Lifetime - RefreshBuffer
        /\ secret.key = k
    BY <2>1 DEF InitialSecret
  <2>3. Len(lease) = 1 /\ lease[1] = Lifetime
    BY <2>1
  <2>4. ExchangeInv
    BY <1>1, <2>2, <2>3 DEF Init, TypeOK, Exchanging, ExchangeInv, StoredInv,
       NowInv, SecretInv, LeaseCovers
  <2>5. PromiseInv
    BY <1>4, <2>1, <2>2, KeysAssumption, CallerFacts DEF Init, PromiseInv,
       ConfiguredInv, KeyMatchesSecret, HandedOutIsFresh, LoopNotBehind,
       ConfiguredKeySignalsOnce, OfferSignalsLoop
  <2> QED
    BY <1>1, <1>2, <2>4, <2>5 DEF IInv
<1> QED
  BY <1>3, <1>4

LEMMA IInvStep == IInv /\ [Next]_vars => IInv'
<1> SUFFICES ASSUME IInv, [Next]_vars PROVE IInv'
  OBVIOUS
<1>0. TypeOK /\ TypeOK'
  BY TypeStep DEF IInv
<1> USE <1>0, CallerFacts, SecretFacts, KeysAssumption
    DEF TypeOK, IInv, LockInv, MutexInv, CallInv, ArgInv,
        Exchanging, Goto, smVars, callVars, outcome, envVars
<1>1. ASSUME NEW h \in Handlers, Arrive(h)
     PROVE  IInv'
  <2>1. LockInv'
    <3>1. CASE Goto(h, "lockLatest") /\ UNCHANGED arg
      BY <1>1, <3>1 DEF Arrive
    <3>2. CASE Goto(h, "lockOffer")
      <4>1. PICK k \in Keys : arg' = [arg EXCEPT ![h] = k]
        BY <1>1, <3>2 DEF Arrive
      <4>2. pc[h] = "idle" /\ UNCHANGED <<mut, apiKey>>
        BY <1>1 DEF Arrive
      <4> QED
        BY <3>2, <4>1, <4>2
    <3> QED
      BY <1>1, <3>1, <3>2 DEF Arrive
  <2>2. ExchangeInv'
    <3>1. pc[h] \notin Exchanging /\ pc'[h] \notin Exchanging
      BY <1>1 DEF Arrive
    <3>2. /\ \A d \in Callers \ {h} : /\ pc'[d] = pc[d] /\ arg'[d] = arg[d]
                                       /\ now'[d] = now[d]
          /\ UNCHANGED <<secret, stored, lease, clock>>
      BY <1>1 DEF Arrive
    <3> QED
      BY <3>1, <3>2, ExchangeStays
  <2>3. PromiseInv'
    BY <1>1 DEF Arrive, PromiseInv, ConfiguredInv, KeyMatchesSecret,
       HandedOutIsFresh, LoopNotBehind, ConfiguredKeySignalsOnce,
       OfferSignalsLoop
  <2> QED
    BY <2>1, <2>2, <2>3
<1>2. ASSUME NEW h \in Handlers, OfferNoop(h)
     PROVE  IInv'
  <2>1. LockInv'
    <3>1. /\ pc[h] = "lockOffer" /\ mut = Free
          /\ arg' = [arg EXCEPT ![h] = NoKey]
          /\ UNCHANGED <<mut, apiKey>>
      BY <1>2 DEF OfferNoop
    <3>2. \/ pc' = [pc EXCEPT ![h] = "lockLatest"]
          \/ pc' = [pc EXCEPT ![h] = "idle"]
      BY <1>2 DEF OfferNoop, Offered, Finish
    <3>3. /\ pc'[h] \in {"lockLatest", "idle"}
          /\ \A d \in Callers \ {h} : pc'[d] = pc[d] /\ arg'[d] = arg[d]
      BY <3>1, <3>2
    <3> QED
      BY <3>1, <3>3
  <2>2. ExchangeInv'
    BY <1>2 DEF OfferNoop, Offered, Finish, ExchangeInv, StoredInv, NowInv,
       SecretInv, LeaseCovers
  <2>3. PromiseInv'
    <3>1. CASE /\ Goto(h, "lockLatest")
               /\ UNCHANGED <<now, got, attempt, wake>>
      BY <1>2, <3>1 DEF OfferNoop, PromiseInv, ConfiguredInv, KeyMatchesSecret,
         HandedOutIsFresh, LoopNotBehind, ConfiguredKeySignalsOnce,
         OfferSignalsLoop
    <3>2. CASE Finish(h)
      BY <1>2, <3>2 DEF OfferNoop, Finish, PromiseInv, ConfiguredInv,
         KeyMatchesSecret, HandedOutIsFresh, LoopNotBehind,
         ConfiguredKeySignalsOnce, OfferSignalsLoop
    <3> QED
      BY <1>2, <3>1, <3>2 DEF OfferNoop, Offered
  <2> QED
    BY <2>1, <2>2, <2>3
<1>3. ASSUME NEW h \in Handlers, OfferExchange(h)
     PROVE  IInv'
  <2>1. LockInv'
    BY <1>3 DEF OfferExchange, StartExchange
  <2>2. ExchangeInv'
    BY <1>3 DEF OfferExchange, StartExchange, ExchangeInv, StoredInv, NowInv,
       SecretInv, LeaseCovers
  <2>3. PromiseInv'
    BY <1>3 DEF OfferExchange, StartExchange, PromiseInv, ConfiguredInv,
       KeyMatchesSecret, HandedOutIsFresh, LoopNotBehind,
       ConfiguredKeySignalsOnce, OfferSignalsLoop
  <2> QED
    BY <2>1, <2>2, <2>3
<1>4. ASSUME NEW h \in Handlers, ForceExchange(h)
     PROVE  IInv'
  <2>1. LockInv'
    BY <1>4 DEF ForceExchange, StartExchange
  <2>2. ExchangeInv'
    BY <1>4 DEF ForceExchange, StartExchange, ExchangeInv, StoredInv, NowInv,
       SecretInv, LeaseCovers
  <2>3. PromiseInv'
    BY <1>4 DEF ForceExchange, StartExchange, PromiseInv, ConfiguredInv,
       KeyMatchesSecret, HandedOutIsFresh, LoopNotBehind,
       ConfiguredKeySignalsOnce, OfferSignalsLoop
  <2> QED
    BY <2>1, <2>2, <2>3
<1>5. ASSUME NEW h \in Handlers, NoSecretForID(h)
     PROVE  IInv'
  <2>1. LockInv'
    BY <1>5 DEF NoSecretForID, Retry
  <2>2. ExchangeInv'
    <3>1. pc[h] \notin Exchanging /\ pc'[h] \notin Exchanging
      BY <1>5 DEF NoSecretForID, Retry
    <3>2. /\ \A d \in Callers \ {h} : /\ pc'[d] = pc[d] /\ arg'[d] = arg[d]
                                       /\ now'[d] = now[d]
          /\ UNCHANGED <<secret, stored, lease, clock>>
      BY <1>5 DEF NoSecretForID, Retry
    <3> QED
      BY <3>1, <3>2, ExchangeStays
  <2>3. PromiseInv'
    BY <1>5 DEF NoSecretForID, Retry, PromiseInv, ConfiguredInv,
       KeyMatchesSecret, HandedOutIsFresh, LoopNotBehind,
       ConfiguredKeySignalsOnce, OfferSignalsLoop
  <2> QED
    BY <2>1, <2>2, <2>3
<1>6. ASSUME NEW h \in Handlers, ConnectionReset(h)
     PROVE  IInv'
  <2>1. LockInv'
    BY <1>6 DEF ConnectionReset, Retry
  <2>2. ExchangeInv'
    <3>1. pc[h] \notin Exchanging /\ pc'[h] \notin Exchanging
      BY <1>6 DEF ConnectionReset, Retry
    <3>2. /\ \A d \in Callers \ {h} : /\ pc'[d] = pc[d] /\ arg'[d] = arg[d]
                                       /\ now'[d] = now[d]
          /\ UNCHANGED <<secret, stored, lease, clock>>
      BY <1>6 DEF ConnectionReset, Retry
    <3> QED
      BY <3>1, <3>2, ExchangeStays
  <2>3. PromiseInv'
    BY <1>6 DEF ConnectionReset, Retry, PromiseInv, ConfiguredInv,
       KeyMatchesSecret, HandedOutIsFresh, LoopNotBehind,
       ConfiguredKeySignalsOnce, OfferSignalsLoop
  <2> QED
    BY <2>1, <2>2, <2>3
<1>7. ASSUME NEW h \in Handlers, Done(h)
     PROVE  IInv'
  <2>1. LockInv'
    BY <1>7 DEF Done, Finish
  <2>2. ExchangeInv'
    <3>1. pc[h] \notin Exchanging /\ pc'[h] \notin Exchanging
      BY <1>7 DEF Done, Finish
    <3>2. /\ \A d \in Callers \ {h} : /\ pc'[d] = pc[d] /\ arg'[d] = arg[d]
                                       /\ now'[d] = now[d]
          /\ UNCHANGED <<secret, stored, lease, clock>>
      BY <1>7 DEF Done, Finish
    <3> QED
      BY <3>1, <3>2, ExchangeStays
  <2>3. PromiseInv'
    BY <1>7 DEF Done, Finish, PromiseInv, ConfiguredInv, KeyMatchesSecret,
       HandedOutIsFresh, LoopNotBehind, ConfiguredKeySignalsOnce,
       OfferSignalsLoop
  <2> QED
    BY <2>1, <2>2, <2>3
<1>8. ASSUME NEW c \in Callers, LatestNoKey(c)
     PROVE  IInv'
  <2>1. LockInv'
    BY <1>8 DEF LatestNoKey, Finish
  <2>2. ExchangeInv'
    BY <1>8 DEF LatestNoKey, Finish, ExchangeInv, StoredInv, NowInv, SecretInv,
       LeaseCovers
  <2>3. PromiseInv'
    BY <1>8 DEF LatestNoKey, Finish, PromiseInv, ConfiguredInv,
       KeyMatchesSecret, HandedOutIsFresh, LoopNotBehind,
       ConfiguredKeySignalsOnce, OfferSignalsLoop
  <2> QED
    BY <2>1, <2>2, <2>3
<1>9. ASSUME NEW c \in Callers, LatestCached(c)
     PROVE  IInv'
  <2>1. LockInv'
    BY <1>9 DEF LatestCached, Return, UpToDate
  <2>2. ExchangeInv'
    <3>1. pc[c] \notin Exchanging /\ pc'[c] \notin Exchanging
      BY <1>9 DEF LatestCached, Return
    <3>2. /\ \A d \in Callers \ {c} : /\ pc'[d] = pc[d] /\ arg'[d] = arg[d]
                                       /\ now'[d] = now[d]
          /\ UNCHANGED <<secret, stored, lease, clock>>
      BY <1>9 DEF LatestCached, Return
    <3> QED
      BY <3>1, <3>2, ExchangeStays
  <2>3. PromiseInv'
    <3>1. CASE c = Loop
      BY <1>9, <3>1 DEF LatestCached, Return, PromiseInv, ConfiguredInv,
         KeyMatchesSecret, HandedOutIsFresh, LoopNotBehind,
         ConfiguredKeySignalsOnce, OfferSignalsLoop
    <3>2. CASE c # Loop
      <4>1. UpToDate
        BY <1>9 DEF LatestCached
      <4>2. /\ secret.id \in 1 .. Len(lease)
            /\ lease[secret.id] > clock + RefreshBuffer
        BY <4>1, UpToDateIsFresh
      <4>3. /\ got' = [got EXCEPT ![c] = secret]
            /\ now' = [now EXCEPT ![c] = clock]
            /\ pc' = [pc EXCEPT ![c] = "ready"]
            /\ UNCHANGED lease
        BY <1>9, <3>2 DEF LatestCached, Return
      <4>4. ASSUME NEW h \in Handlers, pc'[h] = "ready"
            PROVE  /\ got'[h].id \in 1 .. Len(lease')
                   /\ lease'[got'[h].id] > now'[h] + RefreshBuffer
        <5>1. CASE h = c
          BY <4>2, <4>3, <5>1
        <5>2. CASE h # c
          BY <4>3, <4>4, <5>2 DEF PromiseInv, HandedOutIsFresh
        <5> QED
          BY <5>1, <5>2
      <4>5. HandedOutIsFresh'
        BY <4>4 DEF HandedOutIsFresh
      <4> QED
        BY <1>9, <3>2, <4>5 DEF LatestCached, Return, PromiseInv,
           ConfiguredInv, KeyMatchesSecret, HandedOutIsFresh, LoopNotBehind,
           ConfiguredKeySignalsOnce, OfferSignalsLoop
    <3> QED
      BY <3>1, <3>2
  <2> QED
    BY <2>1, <2>2, <2>3
<1>10. ASSUME NEW c \in Callers, LatestExchange(c)
     PROVE  IInv'
  <2>1. LockInv'
    BY <1>10 DEF LatestExchange, StartExchange
  <2>2. ExchangeInv'
    BY <1>10 DEF LatestExchange, StartExchange, ExchangeInv, StoredInv, NowInv,
       SecretInv, LeaseCovers
  <2>3. PromiseInv'
    BY <1>10 DEF LatestExchange, StartExchange, PromiseInv, ConfiguredInv,
       KeyMatchesSecret, HandedOutIsFresh, LoopNotBehind,
       ConfiguredKeySignalsOnce, OfferSignalsLoop
  <2> QED
    BY <2>1, <2>2, <2>3
<1>11. ASSUME NEW c \in Callers, StoreSecret(c)
     PROVE  IInv'
  <2>1. LockInv'
    BY <1>11 DEF StoreSecret
  <2>2. ExchangeInv'
    <3>1. StoredInv'
      <4> SUFFICES ASSUME NEW d \in Callers, stored'[d] # 0
                   PROVE  /\ pc'[d] \in Exchanging
                          /\ arg'[d] \in Keys
                          /\ stored'[d] \in 1 .. Len(lease')
                          /\ lease'[stored'[d]] >= now'[d] + Lifetime
        BY DEF StoredInv
      <4>1. CASE d = c
        <5>1. now[c] <= clock /\ stored'[c] = Len(lease) + 1
          BY <1>11 DEF StoreSecret, ExchangeInv, NowInv
        <5> QED
          BY <1>11, <4>1, <5>1, StoredLease DEF StoreSecret
      <4>2. CASE d # c
        <5>1. /\ stored'[d] = stored[d]
              /\ UNCHANGED <<pc, arg, now>>
          BY <1>11, <4>2 DEF StoreSecret
        <5>2. /\ pc[d] \in Exchanging /\ arg[d] \in Keys
              /\ stored[d] \in 1 .. Len(lease)
              /\ lease[stored[d]] >= now[d] + Lifetime
          BY <5>1 DEF ExchangeInv, StoredInv
        <5>3. /\ stored[d] \in 1 .. Len(lease')
              /\ lease'[stored[d]] = lease[stored[d]]
          <6> HIDE DEF TypeOK
          <6> QED
            BY <1>11, <5>2, StoredLease
        <5> QED
          BY <5>1, <5>2, <5>3
      <4> QED
        BY <4>1, <4>2
    <3>2. NowInv'
      BY <1>11 DEF StoreSecret, ExchangeInv, NowInv
    <3>3. SecretInv'
      BY <1>11, StoredLease DEF StoreSecret, ExchangeInv, SecretInv,
         LeaseCovers
    <3> QED
      BY <3>1, <3>2, <3>3 DEF ExchangeInv
  <2>3. PromiseInv'
    <3>1. HandedOutIsFresh'
      BY <1>11, StoredLease DEF StoreSecret, PromiseInv, HandedOutIsFresh
    <3> QED
      BY <1>11, <3>1 DEF StoreSecret, PromiseInv, ConfiguredInv,
         KeyMatchesSecret, HandedOutIsFresh, LoopNotBehind,
         ConfiguredKeySignalsOnce, OfferSignalsLoop
  <2> QED
    BY <2>1, <2>2, <2>3
<1>12. ASSUME NEW c \in Callers, ExchangeOk(c)
     PROVE  IInv'
  <2>1. PICK s \in Secrets : s = NewSecret(c) /\ secret' = s
    BY <1>12, NewSecretType DEF ExchangeOk
  <2>2. /\ s.id = stored[c] /\ s.key = arg[c]
        /\ s.exp = now[c] + Lifetime - RefreshBuffer
    BY <2>1, NewSecretType
  <2>3. /\ mut = c /\ pc[c] \in Exchanging /\ arg[c] \in Keys
        /\ UNCHANGED <<dropOnUnauthorized, envVars>>
        /\ mut' = Free /\ stored' = [stored EXCEPT ![c] = 0]
        /\ arg' = [arg EXCEPT ![c] = NoKey]
    BY <1>12 DEF ExchangeOk, EndExchange, ExchangeInv, StoredInv
  <2>4. \A d \in Callers : d # c => pc[d] \notin Exchanging
    BY <2>3
  <2>5. SecretInv' /\ secret.exp <= s.exp
    <3>1. /\ stored[c] \in 1 .. Len(lease)
          /\ lease[stored[c]] >= now[c] + Lifetime
      BY <1>12 DEF ExchangeOk, ExchangeInv, StoredInv
    <3>2. /\ now[c] <= clock
          /\ secret.exp <= now[c] + (Lifetime - RefreshBuffer)
      BY <2>3 DEF ExchangeInv, NowInv
    <3>3. lease[stored[c]] \in Nat /\ now[c] \in Nat
      BY <3>1, LeaseType
    <3>4. LeaseCovers(s)'
      BY <2>2, <2>3, <3>1, <3>3 DEF LeaseCovers
    <3>5. s.exp <= clock + (Lifetime - RefreshBuffer) /\ secret.exp <= s.exp
      BY <2>2, <3>2, <3>3
    <3> QED
      BY <2>1, <2>3, <3>4, <3>5 DEF SecretInv, LeaseCovers
  <2>10. \A d \in Callers : stored'[d] = 0
    BY <2>3, <2>4 DEF ExchangeInv, StoredInv
  <2>6. ASSUME c # Loop, pc'[c] # "ready", UNCHANGED wake,
               \A d \in Callers \ {c} : /\ pc'[d] = pc[d] /\ got'[d] = got[d]
                                        /\ now'[d] = now[d]
        PROVE  HandedOutIsFresh' /\ LoopNotBehind'
    <3>1. HandedOutIsFresh'
      BY <2>3, <2>6 DEF PromiseInv, HandedOutIsFresh
    <3>2. LoopNotBehind'
      <4>1. pc'[Loop] = "sleep" => wake' <= secret.exp
        BY <2>6 DEF PromiseInv, LoopNotBehind
      <4>2. secret.exp <= secret'.exp
        BY <2>1, <2>5
      <4>3. wake' \in Int /\ secret.exp \in Int /\ secret'.exp \in Int
        OBVIOUS
      <4> HIDE DEF TypeOK, IInv
      <4> QED
        BY <4>1, <4>2, <4>3 DEF LoopNotBehind
    <3> QED
      BY <3>1, <3>2
  <2>7. CASE pc[c] = "xOffer" /\ OfferDone(c)
    <3>1. c \in Handlers /\ c # Loop /\ apiKey = NoKey /\ dropOnUnauthorized
      BY <2>7 DEF PromiseInv, ConfiguredInv
    <3>2. ConfiguredInv' /\ ConfiguredKeySignalsOnce'
      BY <2>3, <3>1 DEF ConfiguredInv, ConfiguredKeySignalsOnce
    <3>3. KeyMatchesSecret'
      BY <1>12, <2>1, <2>2, <2>7 DEF ExchangeOk, OfferDone, KeyMatchesSecret
    <3>4. CASE /\ \/ pc' = [pc EXCEPT ![c] = "panicked"]
                  \/ pc' = [pc EXCEPT ![c] = "lockLatest"]
               /\ UNCHANGED <<now, got, attempt, wake>>
      <4>1. \A d \in Callers : pc'[d] \notin Exchanging
        BY <2>4, <3>4
      <4>2. LockInv'
        BY <2>3, <3>1, <3>4, <4>1
      <4>3. ExchangeInv'
        BY <2>3, <2>4, <2>5, <4>1 DEF ExchangeInv, StoredInv, NowInv
      <4>4. HandedOutIsFresh' /\ LoopNotBehind'
        BY <2>6, <3>1, <3>4
      <4> QED
        BY <3>2, <3>3, <4>2, <4>3, <4>4 DEF PromiseInv
    <3>5. CASE Finish(c)
      <4>1. LockInv' /\ ExchangeInv'
        BY <2>1, <2>3, <2>4, <2>5, <2>7, <3>1, <3>5 DEF OfferDone, Finish,
           ExchangeInv, StoredInv, NowInv
      <4>2. HandedOutIsFresh' /\ LoopNotBehind'
        BY <2>6, <3>1, <3>5 DEF Finish
      <4> QED
        BY <3>2, <3>3, <4>1, <4>2 DEF PromiseInv
    <3> QED
      BY <2>7, <3>4, <3>5 DEF OfferDone, Offered
  <2>8. CASE /\ pc[c] = "xLatest" /\ Return(c, NewSecret(c))
             /\ UNCHANGED <<apiKey, chanClosed, now>>
    <3>0. \A d \in Callers : pc'[d] \notin Exchanging
      <4>1. \/ pc' = [pc EXCEPT ![c] = "sleep"]
            \/ pc' = [pc EXCEPT ![c] = "ready"]
        BY <2>8 DEF Return
      <4>2. pc'[c] \in {"sleep", "ready"} /\ \A d \in Callers \ {c} : pc'[d] = pc[d]
        BY <4>1
      <4> QED
        BY <2>4, <4>2
    <3>1. MutexInv' /\ ArgInv'
      BY <2>3, <3>0
    <3>2. CallInv'
      BY <2>3, <2>8 DEF Return
    <3>3. StoredInv' /\ NowInv'
      BY <2>10, <3>0 DEF StoredInv, NowInv
    <3>4. HandedOutIsFresh'
      <4>1. /\ stored[c] \in 1 .. Len(lease)
            /\ lease[stored[c]] > now[c] + RefreshBuffer
        BY <1>12, StoredIsFresh DEF ExchangeOk
      <4>4. CASE c = Loop
        BY <2>3, <2>8, <4>4 DEF Return, PromiseInv, HandedOutIsFresh
      <4>5. CASE c # Loop
        <5>1. /\ got' = [got EXCEPT ![c] = s]
              /\ pc' = [pc EXCEPT ![c] = "ready"]
              /\ UNCHANGED <<now, lease>>
          BY <2>1, <2>3, <2>8, <4>5 DEF Return
        <5>2. ASSUME NEW h \in Handlers, pc'[h] = "ready"
              PROVE  /\ got'[h].id \in 1 .. Len(lease')
                     /\ lease'[got'[h].id] > now'[h] + RefreshBuffer
          <6>1. CASE h = c
            BY <2>2, <4>1, <5>1, <6>1
          <6>2. CASE h # c
            BY <5>1, <5>2, <6>2 DEF PromiseInv, HandedOutIsFresh
          <6> QED
            BY <6>1, <6>2
        <5> QED
          BY <5>2 DEF HandedOutIsFresh
      <4> QED
        BY <4>4, <4>5
    <3>5. LoopNotBehind'
      BY <2>1, <2>5, <2>8 DEF Return, PromiseInv, LoopNotBehind
    <3>6. ConfiguredInv' /\ KeyMatchesSecret' /\ ConfiguredKeySignalsOnce'
      BY <1>12, <2>1, <2>2, <2>3, <2>8 DEF ExchangeOk, Return, PromiseInv,
         ConfiguredInv, KeyMatchesSecret, ConfiguredKeySignalsOnce,
         OfferSignalsLoop
    <3> QED
      BY <2>5, <3>1, <3>2, <3>3, <3>4, <3>5, <3>6 DEF ExchangeInv, PromiseInv
  <2>9. CASE /\ pc[c] = "xForce" /\ Goto(c, "lockLatest")
             /\ UNCHANGED <<apiKey, chanClosed, now, got, attempt, wake>>
    <3>1. LockInv' /\ ExchangeInv'
      BY <2>1, <2>3, <2>4, <2>5, <2>9 DEF ExchangeInv, StoredInv, NowInv
    <3>2. HandedOutIsFresh' /\ LoopNotBehind'
      BY <2>6, <2>9
    <3>3. ConfiguredInv' /\ KeyMatchesSecret' /\ ConfiguredKeySignalsOnce'
      BY <1>12, <2>1, <2>2, <2>3, <2>9 DEF ExchangeOk, PromiseInv,
         ConfiguredInv, KeyMatchesSecret, ConfiguredKeySignalsOnce,
         OfferSignalsLoop
    <3> QED
      BY <3>1, <3>2, <3>3 DEF PromiseInv
  <2> QED
    BY <1>12, <2>7, <2>8, <2>9 DEF ExchangeOk
<1>13. ASSUME NEW c \in Callers, ExchangeUnauthorized(c)
     PROVE  IInv'
  <2>1. LockInv'
    BY <1>13 DEF ExchangeUnauthorized, Finish, EndExchange
  <2>2. ExchangeInv'
    BY <1>13 DEF ExchangeUnauthorized, Finish, EndExchange, ExchangeInv,
       StoredInv, NowInv, SecretInv, LeaseCovers
  <2>3. PromiseInv'
    BY <1>13 DEF ExchangeUnauthorized, Finish, EndExchange, PromiseInv,
       ConfiguredInv, KeyMatchesSecret, HandedOutIsFresh, LoopNotBehind,
       ConfiguredKeySignalsOnce, OfferSignalsLoop
  <2> QED
    BY <2>1, <2>2, <2>3
<1>14. ASSUME NEW c \in Callers, ExchangeFailed(c)
     PROVE  IInv'
  <2>1. LockInv'
    BY <1>14 DEF ExchangeFailed, Finish, EndExchange
  <2>2. ExchangeInv'
    BY <1>14 DEF ExchangeFailed, Finish, EndExchange, ExchangeInv, StoredInv,
       NowInv, SecretInv, LeaseCovers
  <2>3. PromiseInv'
    BY <1>14 DEF ExchangeFailed, Finish, EndExchange, PromiseInv,
       ConfiguredInv, KeyMatchesSecret, HandedOutIsFresh, LoopNotBehind,
       ConfiguredKeySignalsOnce, OfferSignalsLoop
  <2> QED
    BY <2>1, <2>2, <2>3
<1>15. CASE LoopStart
  <2>1. LockInv'
    BY <1>15 DEF LoopStart
  <2>2. ExchangeInv'
    BY <1>15 DEF LoopStart, ExchangeInv, StoredInv, NowInv, SecretInv,
       LeaseCovers
  <2>3. PromiseInv'
    BY <1>15 DEF LoopStart, PromiseInv, ConfiguredInv, KeyMatchesSecret,
       HandedOutIsFresh, LoopNotBehind, ConfiguredKeySignalsOnce,
       OfferSignalsLoop
  <2> QED
    BY <2>1, <2>2, <2>3
<1>16. CASE LoopWake
  <2>1. LockInv'
    BY <1>16 DEF LoopWake
  <2>2. ExchangeInv'
    BY <1>16 DEF LoopWake, ExchangeInv, StoredInv, NowInv, SecretInv,
       LeaseCovers
  <2>3. PromiseInv'
    BY <1>16 DEF LoopWake, PromiseInv, ConfiguredInv, KeyMatchesSecret,
       HandedOutIsFresh, LoopNotBehind, ConfiguredKeySignalsOnce,
       OfferSignalsLoop
  <2> QED
    BY <2>1, <2>2, <2>3
<1>17. CASE LoopCancelled
  <2>1. LockInv'
    BY <1>17 DEF LoopCancelled, Finish
  <2>2. ExchangeInv'
    <3>1. pc[Loop] \notin Exchanging /\ pc'[Loop] \notin Exchanging
      BY <1>17 DEF LoopCancelled, Finish
    <3>2. /\ \A d \in Callers \ {Loop} : /\ pc'[d] = pc[d] /\ arg'[d] = arg[d]
                                          /\ now'[d] = now[d]
          /\ UNCHANGED <<secret, stored, lease, clock>>
      BY <1>17 DEF LoopCancelled, Finish
    <3> QED
      BY <3>1, <3>2, ExchangeStays
  <2>3. PromiseInv'
    BY <1>17 DEF LoopCancelled, Finish, PromiseInv, ConfiguredInv,
       KeyMatchesSecret, HandedOutIsFresh, LoopNotBehind,
       ConfiguredKeySignalsOnce, OfferSignalsLoop
  <2> QED
    BY <2>1, <2>2, <2>3
<1>18. CASE Tick
  <2>1. LockInv'
    BY <1>18 DEF Tick
  <2>2. ExchangeInv'
    BY <1>18 DEF Tick, ExchangeInv, StoredInv, NowInv, SecretInv, LeaseCovers
  <2>3. PromiseInv'
    BY <1>18 DEF Tick, PromiseInv, ConfiguredInv, KeyMatchesSecret,
       HandedOutIsFresh, LoopNotBehind, ConfiguredKeySignalsOnce,
       OfferSignalsLoop
  <2> QED
    BY <2>1, <2>2, <2>3
<1>19. ASSUME NEW k \in Keys, ToggleKey(k)
     PROVE  IInv'
  <2>1. LockInv'
    BY <1>19 DEF ToggleKey
  <2>2. ExchangeInv'
    BY <1>19 DEF ToggleKey, ExchangeInv, StoredInv, NowInv, SecretInv,
       LeaseCovers
  <2>3. PromiseInv'
    BY <1>19 DEF ToggleKey, PromiseInv, ConfiguredInv, KeyMatchesSecret,
       HandedOutIsFresh, LoopNotBehind, ConfiguredKeySignalsOnce,
       OfferSignalsLoop
  <2> QED
    BY <2>1, <2>2, <2>3
<1>20. CASE UNCHANGED vars
  BY <1>20 DEF vars, ExchangeInv, StoredInv, NowInv, SecretInv, LeaseCovers,
     PromiseInv, ConfiguredInv, KeyMatchesSecret, HandedOutIsFresh,
     LoopNotBehind, ConfiguredKeySignalsOnce, OfferSignalsLoop
<1>21. ASSUME NEW c \in Callers, RefuseKey(c)
     PROVE  IInv'
  <2>1. LockInv'
    BY <1>21 DEF RefuseKey
  <2>2. ExchangeInv'
    BY <1>21 DEF RefuseKey, ExchangeInv, StoredInv, NowInv, SecretInv,
       LeaseCovers
  <2>3. PromiseInv'
    BY <1>21 DEF RefuseKey, PromiseInv, ConfiguredInv, KeyMatchesSecret,
       HandedOutIsFresh, LoopNotBehind, ConfiguredKeySignalsOnce,
       OfferSignalsLoop
  <2> QED
    BY <2>1, <2>2, <2>3
<1> QED
  BY <1>1, <1>2, <1>3, <1>4, <1>5, <1>6, <1>7, <1>8, <1>9, <1>10, <1>11, <1>12,
     <1>13, <1>14, <1>15, <1>16, <1>17, <1>18, <1>19, <1>20, <1>21 DEF Next,
     Handle, Latest, Exchange

-----------------------------------------------------------------------------
\* Every variable keeps its type, in every instance.
THEOREM TypeCorrect == Spec => []TypeOK
<1>1. TypeOK /\ [Next]_vars => TypeOK'
  BY TypeStep
<1> QED
  BY <1>1, TypeInit, PTL DEF Spec

\* The inductive invariant holds.
THEOREM Invariance == Spec => []IInv
<1> QED
  BY IInvInit, IInvStep, PTL DEF Spec

\* The cached secret expires a refresh buffer before the secret service
\* drops it.
THEOREM LeaseOutlives == Spec => []LeaseOutlivesExpiration
<1>1. IInv => LeaseOutlivesExpiration
  BY DEF IInv, ExchangeInv, SecretInv, LeaseOutlivesExpiration
<1> QED
  BY <1>1, Invariance, PTL

\* Handlers encrypt with secrets the service keeps for a refresh buffer more.
THEOREM HandedOut == Spec => []HandedOutIsFresh
<1>1. IInv => HandedOutIsFresh
  BY DEF IInv, PromiseInv
<1> QED
  BY <1>1, Invariance, PTL

\* The key in force is the key the cached secret was got with.
THEOREM KeyAndSecret == Spec => []KeyMatchesSecret
<1>1. IInv => KeyMatchesSecret
  BY DEF IInv, PromiseInv
<1> QED
  BY <1>1, Invariance, PTL

\* At most one call is inside updateSecretFn.
THEOREM OneExchange == Spec => []NoConcurrentExchange
<1>1. IInv => NoConcurrentExchange
  BY DEF IInv, LockInv, MutexInv, NoConcurrentExchange
<1> QED
  BY <1>1, Invariance, PTL

\* The Loop's timer fires at the expiration of the cached secret or before.
THEOREM LoopInTime == Spec => []LoopNotBehind
<1>1. IInv => LoopNotBehind
  BY DEF IInv, PromiseInv
<1> QED
  BY <1>1, Invariance, PTL

\* With a configured key no request ever closes the channel again.
THEOREM ConfiguredNeverPanics == Spec => []ConfiguredKeySignalsOnce
<1>1. IInv => ConfiguredKeySignalsOnce
  BY DEF IInv, PromiseInv
<1> QED
  BY <1>1, Invariance, PTL
\* A key in force only ever goes away, because it was refused.
THEOREM KeyStable == Spec => KeyInForceIsStable
<1>1. IInv /\ [Next]_vars => [KeyTransition]_vars
  <2> SUFFICES ASSUME IInv, [Next]_vars, apiKey # NoKey, apiKey' # apiKey
               PROVE  /\ dropOnUnauthorized /\ apiKey' = NoKey
                      /\ \E c \in Callers : /\ mut = c
                                            /\ arg[c] = apiKey
                                            /\ refused[c]
    BY DEF KeyTransition
  <2> USE CallerFacts DEF smVars
  <2>1. ASSUME NEW h \in Handlers, Handle(h) PROVE FALSE
    BY <2>1 DEF Handle, Arrive, OfferNoop, OfferExchange, ForceExchange,
       StartExchange, NoSecretForID, ConnectionReset, Retry, Done
  <2>2. ASSUME NEW c \in Callers, Latest(c) \/ StoreSecret(c) \/ RefuseKey(c)
        PROVE  FALSE
    BY <2>2 DEF Latest, LatestNoKey, LatestCached, LatestExchange,
       StartExchange, StoreSecret, RefuseKey
  <2>3. ASSUME NEW c \in Callers, ExchangeOk(c) PROVE FALSE
    BY <2>3 DEF ExchangeOk, OfferDone, IInv, LockInv, ArgInv
  <2>4. ASSUME NEW c \in Callers, ExchangeFailed(c) PROVE FALSE
    BY <2>4 DEF ExchangeFailed
  <2>5. ASSUME NEW c \in Callers, ExchangeUnauthorized(c)
        PROVE  /\ dropOnUnauthorized /\ apiKey' = NoKey
               /\ mut = c /\ arg[c] = apiKey /\ refused[c]
    <3>1. mut = c /\ arg[c] = apiKey
      BY <2>5 DEF ExchangeUnauthorized, EndExchange, IInv, LockInv, MutexInv,
         ArgInv, Exchanging
    <3> QED
      BY <2>5, <3>1 DEF ExchangeUnauthorized
  <2>6. ASSUME LoopStart \/ LoopWake \/ LoopCancelled \/ Tick
               \/ \E k \in Keys : ToggleKey(k)
        PROVE  FALSE
    BY <2>6 DEF LoopStart, LoopWake, LoopCancelled, Tick, ToggleKey
  <2>7. ~ UNCHANGED vars
    BY DEF vars
  <2> QED
    BY <2>1, <2>2, <2>3, <2>4, <2>5, <2>6, <2>7 DEF Next, Exchange
<1> QED
  BY <1>1, Invariance, PTL DEF KeyInForceIsStable, Spec
=============================================================================
