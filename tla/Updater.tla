------------------------------ MODULE Updater ------------------------------
(***************************************************************************)
(* How the privatemode-proxy obtains a secret while the deployment changes *)
(* under it: Updater.UpdateSecret (internal/oss/secretmanager/updater),    *)
(* which caches the mesh CA, with what it calls: caAdapter.GetMeshCA, the  *)
(* manifest log on disk, GetAttestedMeshCA and ExchangeSecret.             *)
(*                                                                         *)
(* Calls come one after the other, because the secret manager makes them   *)
(* under its mutex.  The process may stop at any step; files stay.         *)
(***************************************************************************)
EXTENDS Naturals, FiniteSets

CONSTANTS
  Manifests,
  Attempts,    \* retry.Attempts; 3 in the code
  MaxCAs,      \* bound on deployments
  MaxLines,    \* bound on the lines of log.txt
  None,        \* nil
  Torn         \* a manifest file that was not written completely

ASSUME UpdaterAssumption ==
  /\ None \notin Manifests /\ Torn \notin Manifests
  /\ Attempts \in Nat \ {0} /\ MaxCAs \in Nat \ {0} /\ MaxLines \in Nat
  /\ None \notin [ca : 1..MaxCAs, mf : Manifests, updated : BOOLEAN]

VARIABLES
  live,        \* deployments that requests may reach
  cas,         \* number of deployments so far
  published,   \* the manifest the CDN has, or the one in the file given by flag
  keyOK,       \* the API key is accepted
  static,      \* such a file is given: the CDN is not asked
  logExists, lines,  \* log.txt and its number of lines
  partial,     \* its last line has no end
  files,       \* manifest files by version
  meshCA,      \* Updater.meshCA, known by the deployment it belongs to
  manifest,    \* caAdapter.manifest
  pc,          \* where the call is
  attempt,
  retried,     \* in the second exchange of an attempt
  cancelled,   \* the context of the call
  expected,    \* expectedMfBytes
  version,     \* WriteEntry's version
  refused,     \* some attempt has ended with ErrUnauthorized
  result,      \* of the last call
  disturbed,   \* something else than the code has had its part in the call
  cut,         \* a line of the log was not written to its end, ever
  trusted      \* manifests whose mesh CA was accepted, by any process

env == <<live, cas, published, keyOK, static>>
disk == <<logExists, lines, partial, files, cut>>
cached == <<meshCA, manifest>>
locals == <<attempt, retried, cancelled, expected, version, refused>>
call == <<pc, locals, result, disturbed>>
vars == <<env, disk, cached, call, trusted>>

\* A deployment has a mesh CA of its own; updated means that its coordinator
\* has had another manifest before.
Deployment == [ca : 1..MaxCAs, mf : Manifests, updated : BOOLEAN]

Busy == pc \notin {"off", "idle"}

\* Fault: nobody minds that log.txt is missing.
CoexistAlways == TRUE

Coexist == DOMAIN files # {} => logExists

\* One deployment, which the client's manifest describes, and a usable log.
Settled ==
  /\ \E d \in live : live = {d} /\ d.mf = published /\ ~d.updated
  /\ ~static => Coexist

Init ==
  /\ \E m \in Manifests : live = {[ca |-> 1, mf |-> m, updated |-> FALSE]}
  /\ cas = 1 /\ published \in Manifests /\ keyOK \in BOOLEAN
  /\ static \in BOOLEAN
  /\ logExists = FALSE /\ lines = 0 /\ partial = FALSE /\ cut = FALSE /\ files = [v \in {} |-> Torn]
  /\ meshCA = None /\ manifest = None
  /\ pc = "off" /\ attempt = 1 /\ retried = FALSE /\ cancelled = FALSE
  /\ expected = None /\ version = 0 /\ refused = FALSE /\ result = "none"
  /\ disturbed = FALSE /\ trusted = {}

-----------------------------------------------------------------------------
(* UpdateSecret.                                                           *)

Start ==
  /\ pc = "idle" /\ lines + Attempts + 1 <= MaxLines
  /\ pc' = "try" /\ result' = "none" /\ disturbed' = ~Settled
  /\ UNCHANGED <<env, disk, cached, locals, trusted>>

NoLocals ==
  /\ attempt' = 1 /\ retried' = FALSE /\ cancelled' = FALSE /\ refused' = FALSE
  /\ expected' = None /\ version' = 0 /\ disturbed' = FALSE

Return(r) == pc' = "idle" /\ result' = r /\ NoLocals

\* The error tells of every attempt's error.
ReturnError(unauthorized) == Return(IF unauthorized THEN "unauthorized" ELSE "failed")

NextAttempt(unauthorized, cause) ==
  /\ pc' = "try" /\ refused' = (refused \/ unauthorized) /\ disturbed' = (disturbed \/ cause)
  /\ retried' = FALSE /\ expected' = None /\ version' = 0
  /\ UNCHANGED <<cancelled, result>>

\* The function given to retry returns an error; cause says whether something
\* has happened to make it fail.
AttemptFails(unauthorized, cause) ==
  \/ attempt < Attempts /\ attempt' = attempt + 1 /\ NextAttempt(unauthorized, cause)
  \/ attempt = Attempts /\ ReturnError(refused \/ unauthorized)

\* An attempt begins, or finds the context cancelled.
Try ==
  /\ pc = "try"
  /\ \/ cancelled /\ ReturnError(refused)
     \/ /\ ~cancelled
        /\ pc' = IF meshCA = None THEN "fetch" ELSE "exchange"
        /\ UNCHANGED <<locals, result, disturbed>>
  /\ UNCHANGED <<env, disk, cached, trusted>>

FetchManifest ==
  /\ pc = "fetch"
  /\ expected' = published
  /\ pc' = IF static THEN "attest" ELSE "open"
  /\ UNCHANGED <<env, disk, cached, attempt, retried, cancelled, version, refused, result, disturbed, trusted>>

\* WriteEntry up to counting the lines; a last line without an end counts.
OpenLog ==
  /\ pc = "open"
  /\ \/ /\ Coexist
        /\ logExists' = TRUE /\ version' = lines + 1 /\ pc' = "line"
        /\ UNCHANGED <<attempt, retried, cancelled, expected, refused, result, disturbed>>
     \/ ~Coexist /\ AttemptFails(FALSE, FALSE) /\ UNCHANGED logExists
  /\ UNCHANGED <<env, lines, partial, files, cut, cached, trusted>>

\* A text that begins or continues the last line of log.txt.
Extend == lines' = IF partial THEN lines ELSE lines + 1

WriteLine ==
  /\ pc = "line"
  /\ Extend /\ partial' = FALSE /\ pc' = "file"
  /\ UNCHANGED <<env, logExists, files, cut, cached, locals, result, disturbed, trusted>>

\* The disk is full in the middle of the line.
WriteLineCut ==
  /\ pc = "line"
  /\ Extend /\ partial' = TRUE /\ cut' = TRUE /\ AttemptFails(FALSE, TRUE)
  /\ UNCHANGED <<env, logExists, files, cached, trusted>>

Store(content) ==
  files' = [v \in DOMAIN files \cup {version} |-> IF v = version THEN content ELSE files[v]]

WriteFile ==
  /\ pc = "file"
  /\ Store(expected) /\ pc' = "attest"
  /\ UNCHANGED <<env, logExists, lines, partial, cut, cached, locals, result, disturbed, trusted>>

\* The file has been emptied, but not written.
WriteFileCut ==
  /\ pc = "file"
  /\ Store(Torn) /\ AttemptFails(FALSE, TRUE)
  /\ UNCHANGED <<env, logExists, lines, partial, cut, cached, trusted>>

\* A request, or a file operation that leaves no trace, fails in updateCA.
UpdateCAFails ==
  /\ pc \in {"fetch", "open", "line", "file", "attest"}
  /\ AttemptFails(FALSE, TRUE)
  /\ UNCHANGED <<env, disk, cached, trusted>>

\* Fault: the attested manifest is not compared with the expected one.
MatchesAny(d) == ~d.updated

\* A coordinator with one manifest in its history, which is the expected one.
Matches(d) == ~d.updated /\ d.mf = expected

\* GetAttestedMeshCA, of a deployment that answers, and the end of GetMeshCA.
Attest(d) ==
  /\ pc = "attest"
  /\ \/ /\ keyOK /\ Matches(d)
        /\ meshCA' = d /\ pc' = "exchange"
        /\ manifest' = IF static THEN manifest ELSE expected
        /\ trusted' = IF static THEN trusted ELSE trusted \cup {expected}
        /\ expected' = None /\ version' = 0
        /\ UNCHANGED <<attempt, retried, cancelled, refused, result, disturbed>>
     \/ /\ ~(keyOK /\ Matches(d))
        /\ AttemptFails(~keyOK, FALSE) /\ UNCHANGED <<cached, trusted>>
  /\ UNCHANGED <<env, disk>>

\* Fault: only a missing mesh CA is fetched.
ExchangeFailsForGood(unauthorized, cause) == AttemptFails(unauthorized, cause)

\* The first time in an attempt, whatever the error, the mesh CA is renewed.
ExchangeFails(unauthorized, cause) ==
  \/ retried /\ AttemptFails(unauthorized, cause)
  \/ /\ ~retried
     /\ retried' = TRUE /\ pc' = "fetch" /\ disturbed' = (disturbed \/ cause)
     /\ UNCHANGED <<attempt, cancelled, expected, version, refused, result>>

\* ExchangeSecret, with a deployment that answers with its own certificate.
ExchangeSecret(d) ==
  /\ pc = "exchange"
  /\ \/ keyOK /\ d = meshCA /\ Return("ok")
     \/ ~(keyOK /\ d = meshCA) /\ ExchangeFails(~keyOK, FALSE)
  /\ UNCHANGED <<env, disk, cached, trusted>>

\* The request or its answer is lost.
ExchangeLost ==
  /\ pc = "exchange"
  /\ ExchangeFails(FALSE, TRUE)
  /\ UNCHANGED <<env, disk, cached, trusted>>

-----------------------------------------------------------------------------
(* The process and its surroundings.                                       *)

Boot ==
  /\ pc = "off" /\ pc' = "idle"
  /\ UNCHANGED <<env, disk, cached, locals, result, disturbed, trusted>>

\* The process stops, between any two steps.
Stop ==
  /\ pc # "off" /\ pc' = "off"
  /\ meshCA' = None /\ manifest' = None /\ result' = "none" /\ NoLocals
  /\ UNCHANGED <<env, disk, trusted>>

Cancel ==
  /\ Busy /\ ~cancelled /\ cancelled' = TRUE /\ disturbed' = TRUE
  /\ UNCHANGED <<env, disk, cached, pc, attempt, retried, expected, version, refused, result, trusted>>

\* The user removes log.txt.
RemoveLog ==
  /\ pc = "off" /\ logExists
  /\ logExists' = FALSE /\ lines' = 0 /\ partial' = FALSE
  /\ UNCHANGED <<env, files, cut, cached, call, trusted>>

Around ==
  /\ disturbed' = Busy
  /\ UNCHANGED <<static, disk, cached, pc, locals, result, trusted>>

\* A new deployment starts beside the old one, a coordinator is given another
\* manifest and with it another mesh CA, or an old deployment is shut down.
Deploy(m) ==
  /\ cas < MaxCAs /\ cas' = cas + 1
  /\ live' = live \cup {[ca |-> cas + 1, mf |-> m, updated |-> FALSE]}
  /\ Around /\ UNCHANGED <<published, keyOK>>

SetManifest(d, m) ==
  /\ cas < MaxCAs /\ cas' = cas + 1
  /\ live' = (live \ {d}) \cup {[ca |-> cas + 1, mf |-> m, updated |-> TRUE]}
  /\ Around /\ UNCHANGED <<published, keyOK>>

Retire(d) ==
  /\ live # {d} /\ live' = live \ {d}
  /\ Around /\ UNCHANGED <<cas, published, keyOK>>

Publish(m) ==
  /\ ~static /\ m # published /\ published' = m
  /\ Around /\ UNCHANGED <<live, cas, keyOK>>

ChangeKey ==
  /\ keyOK' = ~keyOK
  /\ Around /\ UNCHANGED <<live, cas, published>>

-----------------------------------------------------------------------------
UpdateSecret ==
  \/ Try \/ FetchManifest \/ OpenLog \/ WriteLine \/ WriteFile
  \/ \E d \in live : Attest(d) \/ ExchangeSecret(d)

Failure == WriteLineCut \/ WriteFileCut \/ UpdateCAFails \/ ExchangeLost

Surroundings ==
  \/ Boot \/ Stop \/ Cancel \/ RemoveLog \/ ChangeKey
  \/ \E d \in live : Retire(d) \/ \E m \in Manifests : SetManifest(d, m)
  \/ \E m \in Manifests : Deploy(m) \/ Publish(m)

Next == Start \/ UpdateSecret \/ Failure \/ Surroundings

Spec == Init /\ [][Next]_vars

-----------------------------------------------------------------------------
(* Properties.                                                             *)

EnvType ==
  /\ live \subseteq Deployment /\ live # {} /\ cas \in 1..MaxCAs
  /\ published \in Manifests /\ keyOK \in BOOLEAN /\ static \in BOOLEAN

DiskType ==
  /\ logExists \in BOOLEAN /\ lines \in Nat /\ partial \in BOOLEAN /\ cut \in BOOLEAN
  /\ DOMAIN files \subseteq Nat /\ files \in [DOMAIN files -> Manifests \cup {Torn}]

CacheType == meshCA \in Deployment \cup {None} /\ manifest \in Manifests \cup {None}

CallType ==
  /\ pc \in {"off", "idle", "try", "fetch", "open", "line", "file", "attest", "exchange"}
  /\ attempt \in 1..Attempts /\ retried \in BOOLEAN /\ cancelled \in BOOLEAN
  /\ expected \in Manifests \cup {None} /\ version \in Nat /\ refused \in BOOLEAN
  /\ result \in {"none", "ok", "failed", "unauthorized"} /\ disturbed \in BOOLEAN

\* Every variable keeps its type; a call makes at most Attempts attempts.
TypeOK == EnvType /\ DiskType /\ CacheType /\ CallType /\ trusted \subseteq Manifests

CurrentManifest == IF static THEN published ELSE manifest

\* The manifest shown to the user is that of the mesh CA in use, whatever the
\* CDN and the deployments have done since and however calls have failed.
ShownIsAttested ==
  meshCA # None => meshCA.mf = CurrentManifest /\ ~meshCA.updated

\* Every manifest the proxy has ever trusted, in this process or one before,
\* is still in its file, unless a line of the log was cut off.
TrustedIsTraceable ==
  ~cut => \A m \in trusted : \E v \in DOMAIN files : files[v] = m

\* A call during which nothing changes or fails gives the result its key
\* deserves, though the cached mesh CA may be that of a deployment long gone.
ResultIsDeserved ==
  [][~disturbed /\ UpdateSecret /\ pc' = "idle" =>
       result' = IF keyOK THEN "ok" ELSE "unauthorized"]_vars
=============================================================================
