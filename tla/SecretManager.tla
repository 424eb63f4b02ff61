---------------------------- MODULE SecretManager ----------------------------
(***************************************************************************)
(* The secret manager of the privatemode-proxy                             *)
(* (internal/oss/secretmanager) together with its callers: the HTTP        *)
(* handlers, which offer the API key of the request and then ask for the   *)
(* latest secret (and, on a retry, force a new one), and the Loop          *)
(* goroutine, which renews the secret in the background.                   *)
(*                                                                         *)
(* A call that needs no exchange is one step: it locks sm.mut, decides and *)
(* unlocks.  A call that runs updateSecretFn holds sm.mut from the step    *)
(* that starts the exchange to the step that ends it; in between time      *)
(* passes, keys are revoked, and the secret service stores the new secret  *)
(* under a lease of its own.                                               *)
(***************************************************************************)
EXTENDS Integers, Sequences

CONSTANTS
  Handlers,            \* HTTP requests in flight in the proxy
  Loop,                \* the goroutine running SecretManager.Loop
  Keys,                \* API keys, without the empty one
  NoKey,               \* the empty API key
  Free,                \* sm.mut is not held
  Lifetime,            \* secretLifetime, in units of the model's clock
  RefreshBuffer,       \* secretRefreshBuffer
  MaxClock,            \* bound: the clock stops here
  MaxSecrets           \* bound: secrets the secret service stores

Callers == Handlers \cup {Loop}

ASSUME CallersAssumption == Loop \notin Handlers /\ Free \notin Callers
ASSUME KeysAssumption == NoKey \notin Keys
ASSUME TimeAssumption ==
  /\ Lifetime \in Nat /\ RefreshBuffer \in Nat
  /\ RefreshBuffer < Lifetime
ASSUME BoundAssumption == MaxClock \in Nat /\ MaxSecrets \in Nat

VARIABLES
  \* fields of the SecretManager
  secret,      \* sm.secret, NoSecret for nil
  apiKey,      \* sm.apiKey
  chanClosed,  \* sm.apiKeyChan has been closed
  dropOnUnauthorized, \* sm.apiKeyDropOnUnauthorized: no API key was configured
  mut,         \* holder of sm.mut
  \* local state of the callers
  pc,
  arg,         \* API key of the running offer or exchange
  now,         \* clock reading taken by the call under the lock
  stored,      \* id the secret service stored for the running exchange, or 0
  refused,     \* an attempt of the running exchange ended in ErrUnauthorized
  got,         \* secret the handler encrypts its request with
  attempt,     \* attempt of the handler's request
  wake,        \* when the Loop's timer fires
  \* environment
  clock,
  lease,       \* lease[id]: until when the secret service keeps secret id
  valid        \* API keys the service accepts

smVars == <<secret, apiKey, chanClosed, dropOnUnauthorized>>
outcome == <<stored, refused>>
callVars == <<arg, now, outcome>>
envVars == <<clock, lease, valid>>
vars == <<smVars, mut, pc, callVars, got, attempt, wake, envVars>>

NoSecret == [id |-> 0, exp |-> 0, key |-> NoKey]

Waiting == {"lockOffer", "lockLatest", "lockForce"}
Exchanging == {"xOffer", "xLatest", "xForce"}
States == Waiting \cup Exchanging
            \cup {"idle", "ready", "panicked", "waitKey", "sleep", "exited"}

InitialSecret(k) == [id |-> 1, exp |-> Lifetime - RefreshBuffer, key |-> k]

\* Without a configured API key the manager starts empty.  With one, setup
\* offers it before the server starts and gives up if that fails.
Init ==
  /\ dropOnUnauthorized \in BOOLEAN
  /\ IF dropOnUnauthorized
     THEN /\ secret = NoSecret /\ apiKey = NoKey /\ chanClosed = FALSE
          /\ lease = <<>>
     ELSE \E k \in Keys :
          /\ secret = InitialSecret(k) /\ apiKey = k /\ chanClosed = TRUE
          /\ lease = <<Lifetime>>
  /\ mut = Free
  /\ pc = [c \in Callers |-> IF c = Loop THEN "waitKey" ELSE "idle"]
  /\ arg = [c \in Callers |-> NoKey]
  /\ now = [c \in Callers |-> 0]
  /\ stored = [c \in Callers |-> 0]
  /\ refused = [c \in Callers |-> FALSE]
  /\ got = [c \in Callers |-> NoSecret]
  /\ attempt = [c \in Callers |-> 1]
  /\ wake = 0
  /\ clock = 0
  /\ valid \in SUBSET Keys

-----------------------------------------------------------------------------
(* Helpers.                                                                *)

Goto(c, s) == pc' = [pc EXCEPT ![c] = s]

\* The request or Loop is over: an error, the answer, a cancelled context.
Finish(c) ==
  /\ Goto(c, IF c = Loop THEN "exited" ELSE "idle")
  /\ now' = [now EXCEPT ![c] = 0]
  /\ got' = [got EXCEPT ![c] = NoSecret]
  /\ attempt' = [attempt EXCEPT ![c] = 1]
  /\ wake' = IF c = Loop THEN 0 ELSE wake

\* Fault: the secret is still used at its expiration date.
UpToDateAtExpiration == secret.id # 0 /\ clock <= secret.exp

\* now < expirationDate
UpToDate == secret.id # 0 /\ clock < secret.exp

\* Fault: Loop sleeps for a whole refresh period, however old the secret is.
ReturnPeriodic(c, s) ==
  /\ IF c = Loop
     THEN /\ Goto(c, "sleep") /\ wake' = clock + Lifetime - RefreshBuffer
          /\ UNCHANGED got
     ELSE Goto(c, "ready") /\ got' = [got EXCEPT ![c] = s] /\ UNCHANGED wake
  /\ UNCHANGED attempt

\* The call returns s: a handler goes on with it, Loop arms its timer.
Return(c, s) ==
  /\ IF c = Loop
     THEN Goto(c, "sleep") /\ wake' = s.exp /\ UNCHANGED got
     ELSE Goto(c, "ready") /\ got' = [got EXCEPT ![c] = s] /\ UNCHANGED wake
  /\ UNCHANGED attempt

\* The call takes sm.mut, reads the clock and starts updateSecretFn with key k.
StartExchange(c, s, k) ==
  /\ mut = Free
  /\ mut' = c
  /\ now' = [now EXCEPT ![c] = clock]
  /\ arg' = [arg EXCEPT ![c] = k]
  /\ Goto(c, s)
  /\ UNCHANGED <<smVars, outcome, got, attempt, wake, envVars>>

\* updateSecretFn returned: the deferred unlock runs.
EndExchange(c) ==
  /\ pc[c] \in Exchanging
  /\ mut' = Free
  /\ arg' = [arg EXCEPT ![c] = NoKey]
  /\ stored' = [stored EXCEPT ![c] = 0]
  /\ refused' = [refused EXCEPT ![c] = FALSE]
  /\ UNCHANGED envVars

-----------------------------------------------------------------------------
(* Requests and their handlers.                                            *)

\* GetHandler: a request with a bearer token offers it, one without goes
\* straight to its endpoint.
Arrive(h) ==
  /\ pc[h] = "idle"
  /\ \/ /\ \E k \in Keys : arg' = [arg EXCEPT ![h] = k]
        /\ Goto(h, "lockOffer")
     \/ Goto(h, "lockLatest") /\ UNCHANGED arg
  /\ UNCHANGED <<smVars, mut, now, outcome, got, attempt, wake, envVars>>

\* After the offer: encrypted endpoints ask for the secret, the others forward.
Offered(h) ==
  \/ /\ Goto(h, "lockLatest")
     /\ UNCHANGED <<now, got, attempt, wake>>
  \/ Finish(h)

OfferNoop(h) ==
  /\ pc[h] = "lockOffer" /\ mut = Free
  /\ apiKey # NoKey
  /\ arg' = [arg EXCEPT ![h] = NoKey]
  /\ Offered(h)
  /\ UNCHANGED <<smVars, mut, outcome, envVars>>

OfferExchange(h) ==
  /\ pc[h] = "lockOffer"
  /\ apiKey = NoKey
  /\ StartExchange(h, "xOffer", arg[h])

LatestNoKey(c) ==
  /\ pc[c] = "lockLatest" /\ mut = Free
  /\ apiKey = NoKey
  /\ Finish(c)
  /\ UNCHANGED <<smVars, mut, arg, outcome, envVars>>

LatestCached(c) ==
  /\ pc[c] = "lockLatest" /\ mut = Free
  /\ apiKey # NoKey
  /\ UpToDate
  /\ now' = [now EXCEPT ![c] = clock]
  /\ Return(c, secret)
  /\ UNCHANGED <<smVars, mut, arg, outcome, envVars>>

LatestExchange(c) ==
  /\ pc[c] = "lockLatest"
  /\ apiKey # NoKey
  /\ ~UpToDate
  /\ StartExchange(c, "xLatest", apiKey)

\* ForceUpdate does not look at the key: it exchanges with the empty one, too.
ForceExchange(h) ==
  /\ pc[h] = "lockForce"
  /\ StartExchange(h, "xForce", apiKey)

\* The forwarder asks the retry callback, which calls the manager again.
Retry(h, s) ==
  /\ pc[h] = "ready" /\ attempt[h] <= 1
  /\ attempt' = [attempt EXCEPT ![h] = @ + 1]
  /\ Goto(h, s)
  /\ now' = [now EXCEPT ![h] = 0]
  /\ got' = [got EXCEPT ![h] = NoSecret]
  /\ UNCHANGED <<smVars, mut, arg, outcome, wake, envVars>>

\* The inference-proxy does not know the secret: only the first attempt is
\* attempt, with a secret that is forced to be new (noSecretForIDCallback).
NoSecretForID(h) == Retry(h, "lockForce")

\* The connection was reset: the first attempt is attempt with a new cipher
\* for the latest secret (connectionResetCallback).
ConnectionReset(h) == Retry(h, "lockLatest")

\* The handler wrote its answer; net/http recovers a panic of a handler.
Done(h) ==
  /\ pc[h] \in {"ready", "panicked"}
  /\ Finish(h)
  /\ UNCHANGED <<smVars, mut, arg, outcome, envVars>>

-----------------------------------------------------------------------------
(* updateSecretFn, which makes several attempts, and the three ways it     *)
(* ends.                                                                   *)

\* The secret service accepts the key and stores a secret before it answers.
\* If the answer is lost the next attempt stores another one.
StoreSecret(c) ==
  /\ pc[c] \in Exchanging
  /\ arg[c] \in valid
  /\ Len(lease) < MaxSecrets
  /\ lease' = Append(lease, clock + Lifetime)
  /\ stored' = [stored EXCEPT ![c] = Len(lease) + 1]
  /\ UNCHANGED <<smVars, mut, pc, arg, now, refused, got, attempt, wake, clock,
                 valid>>

\* An attempt ends in ErrUnauthorized: the service answered with a 401.  The
\* key may be accepted again before the call ends.
RefuseKey(c) ==
  /\ pc[c] \in Exchanging
  /\ arg[c] \notin valid
  /\ refused' = [refused EXCEPT ![c] = TRUE]
  /\ UNCHANGED <<smVars, mut, pc, arg, now, stored, got, attempt, wake,
                 envVars>>

\* Fault: the expiration is counted from the end of the exchange.
NewSecretAtReturn(c) ==
  [id |-> stored[c], exp |-> clock + Lifetime - RefreshBuffer, key |-> arg[c]]

NewSecret(c) ==
  [id |-> stored[c], exp |-> now[c] + Lifetime - RefreshBuffer, key |-> arg[c]]

\* Fault: the key is accepted without a signal.
OfferDoneSilently(c) ==
  /\ apiKey' = arg[c]
  /\ UNCHANGED chanClosed
  /\ Offered(c)

\* close(sm.apiKeyChan) panics on a channel that is closed already.
OfferDone(c) ==
  /\ apiKey' = arg[c]
  /\ chanClosed' = TRUE
  /\ IF chanClosed
     THEN Goto(c, "panicked") /\ UNCHANGED <<now, got, attempt, wake>>
     ELSE Offered(c)

ExchangeOk(c) ==
  /\ stored[c] # 0
  /\ secret' = NewSecret(c)
  /\ \/ pc[c] = "xOffer" /\ OfferDone(c)
     \/ /\ pc[c] = "xLatest" /\ Return(c, NewSecret(c))
        /\ UNCHANGED <<apiKey, chanClosed, now>>
     \/ /\ pc[c] = "xForce" /\ Goto(c, "lockLatest")
        /\ UNCHANGED <<apiKey, chanClosed, now, got, attempt, wake>>
  /\ EndExchange(c)
  /\ UNCHANGED dropOnUnauthorized

\* Fault: a refused key is dropped even if it was configured.
ExchangeUnauthorizedDrop(c) ==
  /\ refused[c]
  /\ apiKey' = NoKey
  /\ Finish(c)
  /\ EndExchange(c)
  /\ UNCHANGED <<secret, chanClosed, dropOnUnauthorized>>

\* The call failed, and the errors of its attempts include ErrUnauthorized.
ExchangeUnauthorized(c) ==
  /\ refused[c]
  /\ apiKey' = IF dropOnUnauthorized THEN NoKey ELSE apiKey
  /\ Finish(c)
  /\ EndExchange(c)
  /\ UNCHANGED <<secret, chanClosed, dropOnUnauthorized>>

\* Fault: an offer keeps its key although the exchange failed.
ExchangeFailedKeepKey(c) ==
  /\ ~refused[c]
  /\ apiKey' = IF pc[c] = "xOffer" THEN arg[c] ELSE apiKey
  /\ Finish(c)
  /\ EndExchange(c)
  /\ UNCHANGED <<secret, chanClosed, dropOnUnauthorized>>

\* Fault: the error path leaves sm.mut locked.
ExchangeFailedLocked(c) ==
  /\ pc[c] \in Exchanging /\ ~refused[c]
  /\ Finish(c)
  /\ arg' = [arg EXCEPT ![c] = NoKey]
  /\ stored' = [stored EXCEPT ![c] = 0]
  /\ UNCHANGED <<smVars, mut, refused, envVars>>

\* Any other error: network, attestation, verification, cancelled context.
\* What the service stored stays there until its lease ends.
ExchangeFailed(c) ==
  /\ ~refused[c]
  /\ Finish(c)
  /\ EndExchange(c)
  /\ UNCHANGED smVars

-----------------------------------------------------------------------------
(* Loop.                                                                   *)

LoopStart ==
  /\ pc[Loop] = "waitKey" /\ chanClosed
  /\ Goto(Loop, "lockLatest")
  /\ UNCHANGED <<smVars, mut, callVars, got, attempt, wake, envVars>>

LoopWake ==
  /\ pc[Loop] = "sleep" /\ clock >= wake
  /\ Goto(Loop, "lockLatest")
  /\ wake' = 0
  /\ UNCHANGED <<smVars, mut, callVars, got, attempt, envVars>>

LoopCancelled ==
  /\ pc[Loop] \in {"waitKey", "sleep"}
  /\ Finish(Loop)
  /\ UNCHANGED <<smVars, mut, arg, outcome, envVars>>

-----------------------------------------------------------------------------
(* Environment.                                                            *)

Tick ==
  /\ clock < MaxClock
  /\ clock' = clock + 1
  /\ UNCHANGED <<smVars, mut, pc, callVars, got, attempt, wake, lease, valid>>

\* An API key is revoked, or accepted again.
ToggleKey(k) ==
  /\ valid' = IF k \in valid THEN valid \ {k} ELSE valid \cup {k}
  /\ UNCHANGED <<smVars, mut, pc, callVars, got, attempt, wake, clock, lease>>

-----------------------------------------------------------------------------
Handle(h) ==
  \/ Arrive(h) \/ OfferNoop(h) \/ OfferExchange(h) \/ ForceExchange(h)
  \/ NoSecretForID(h) \/ ConnectionReset(h) \/ Done(h)

Latest(c) == LatestNoKey(c) \/ LatestCached(c) \/ LatestExchange(c)

Exchange(c) == ExchangeOk(c) \/ ExchangeUnauthorized(c) \/ ExchangeFailed(c)

Next ==
  \/ \E h \in Handlers : Handle(h)
  \/ \E c \in Callers :
        Latest(c) \/ StoreSecret(c) \/ RefuseKey(c) \/ Exchange(c)
  \/ LoopStart \/ LoopWake \/ LoopCancelled
  \/ Tick
  \/ \E k \in Keys : ToggleKey(k)

\* sync.Mutex hands itself to a waiter that starves, goroutines are scheduled,
\* and a network call ends; nobody has to send a request.
Acquire(c) ==
  \/ c \in Handlers /\ (OfferNoop(c) \/ OfferExchange(c) \/ ForceExchange(c))
  \/ Latest(c)

Fairness ==
  /\ \A c \in Callers : SF_vars(Acquire(c)) /\ WF_vars(Exchange(c))
  /\ WF_vars(LoopStart) /\ WF_vars(LoopWake)

Spec == Init /\ [][Next]_vars
FairSpec == Spec /\ Fairness

-----------------------------------------------------------------------------
(* Properties.                                                             *)

Secrets == [id : Nat, exp : Int, key : Keys \cup {NoKey}]

\* Every variable keeps its type.
TypeOK ==
  /\ secret \in Secrets
  /\ apiKey \in Keys \cup {NoKey}
  /\ chanClosed \in BOOLEAN
  /\ dropOnUnauthorized \in BOOLEAN
  /\ mut \in Callers \cup {Free}
  /\ pc \in [Callers -> States]
  /\ arg \in [Callers -> Keys \cup {NoKey}]
  /\ now \in [Callers -> Nat]
  /\ stored \in [Callers -> Nat]
  /\ refused \in [Callers -> BOOLEAN]
  /\ got \in [Callers -> Secrets]
  /\ attempt \in [Callers -> {1, 2}]
  /\ wake \in Int
  /\ clock \in Nat
  /\ lease \in Seq(Nat)
  /\ valid \in SUBSET Keys

\* The cached secret expires a full refresh buffer before the secret service
\* drops it, although the two sides read their clocks at different moments.
LeaseCovers(s) ==
  /\ s.id \in 1 .. Len(lease)
  /\ s.exp + RefreshBuffer <= lease[s.id]

LeaseOutlivesExpiration == secret.id # 0 => LeaseCovers(secret)

\* A handler encrypts with a secret that, when its call read the clock, the
\* secret service was going to keep for more than the refresh buffer.
HandedOutIsFresh ==
  \A h \in Handlers : pc[h] = "ready" =>
    /\ got[h].id \in 1 .. Len(lease)
    /\ lease[got[h].id] > now[h] + RefreshBuffer

\* The manager holds a key only together with a secret got with that key:
\* offers, drops and renewals never leave the key of one and the secret of
\* another behind.
KeyMatchesSecret == apiKey # NoKey => secret.id # 0 /\ secret.key = apiKey

\* The updater is not thread-safe: no two calls are inside updateSecretFn.
NoConcurrentExchange ==
  \A c, d \in Callers : pc[c] \in Exchanging /\ pc[d] \in Exchanging => c = d

\* The Loop's timer never fires after the secret has expired, whoever
\* replaced the secret while the Loop was asleep.
LoopNotBehind == pc[Loop] = "sleep" => wake <= secret.exp

\* A key in force is never replaced by another one: it only goes away, only
\* when no key was configured, and only because an attempt of the exchange
\* that used this very key was refused.
KeyTransition ==
  apiKey # NoKey /\ apiKey' # apiKey =>
    /\ dropOnUnauthorized
    /\ apiKey' = NoKey
    /\ \E c \in Callers : /\ mut = c
                          /\ arg[c] = apiKey
                          /\ refused[c]
KeyInForceIsStable == [][KeyTransition]_vars

\* Every call of the secret manager comes back to its caller.
CallsReturn ==
  \A c \in Callers :
    pc[c] \in Waiting \cup Exchanging ~> pc[c] \notin Waiting \cup Exchanging

\* Once the timer is due the Loop has a secret that is up to date again, or
\* it has given up.
LoopRefreshes ==
  pc[Loop] = "sleep" /\ clock >= wake
    ~> pc[Loop] = "exited" \/ (pc[Loop] = "sleep" /\ clock < wake)

\* Accepting a key starts the Loop.
AcceptedKeyStartsLoop == apiKey # NoKey ~> pc[Loop] # "waitKey"

\* "signals the Loop that an API key has been set" (secretmanager.go:31, 98):
\* accepting a key ends in that signal, never in a panic.
OfferSignalsLoop == \A h \in Handlers : pc[h] # "panicked"

\* With a configured API key the channel is closed once, at startup.
ConfiguredKeySignalsOnce == ~dropOnUnauthorized => OfferSignalsLoop
=============================================================================
