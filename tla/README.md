# Verification of the Privatemode proxy and its secret handling

This directory holds TLA+ models of the Privatemode services, the TLC runs that
check them on small instances, and TLAPS proofs for every value of their
constants. Paths are relative to the repository.

## 1. The system

A client's `privatemode-proxy` attests the deployment, agrees on an *inference
secret* with the `secret-service`, and encrypts requests with it. The
`secret-service` keeps the secrets in an embedded etcd cluster, under a lease.
Each `inference-proxy` copies the secrets from etcd, decrypts requests, passes
them to the model server and encrypts the answers. The `attestation-agent`
verifies GPUs in the workers.

| Component | State | Operations | Interacts with | Hard behaviour | Correct when |
|---|---|---|---|---|---|
| Secret manager (`internal/oss/secretmanager`) | secret, API key, closed channel, mutex | `OfferAPIKey`, `LatestSecret`, `ForceUpdate`, `Loop` | request handlers, updater | calls race, the exchange takes time, keys get refused, timer | key and secret belong together, a secret in use outlives its lease's buffer, the Loop renews in time |
| Updater and attestation (`updater`, `attest`, `secretclient`, `setup/tlsconfig.go`) | cached mesh CA, current manifest | `UpdateSecret`, `GetMeshCA`, `ExchangeSecret` | coordinator, secret service | manifest update between two calls, retry | the manifest shown is the one attested, every trusted manifest stays on disk, one good answer needs one good call |
| Proxy server (`privatemode-proxy/internal/server`) | request cipher per request | handlers, retry callbacks, shard key, cache salt, OCSP headers | secret manager, forwarder | retry after a partly written answer | one answer per request, a retried request has a new cipher, equal prefixes give equal shard keys |
| Forwarder (`internal/oss/forwarder`) | request body, attempts | `Forward`, `sendWithRetry`, mutators | both proxies | retries, streaming, cancelled requests | bounded retries, every selected field mutated, nothing else |
| Request encryption (`internal/oss/crypto`, `inference-proxy/internal/cipher`) | sequence numbers, nonce, id | encrypt and decrypt, both directions | proxy server, adapters, secrets | reordered or repeated messages, lost secret | each end accepts exactly what the other sent, in order |
| Secret sync (`inference-proxy/internal/etcd`, `secrets`) | map, revision, watch | fetch, watch, restart, `Get` with fallback, `close` | etcd, cipher | redelivery, half-applied responses, lock held over the network, shutdown | the map is one revision of etcd and catches up; a lookup is not wrong because the watch is late |
| Secret store (`secret-service/internal/etcd`, `userapi`) | keys, leases | `SetSecrets`, `DeleteSecrets`, `ExchangeSecret` | etcd, proxies | error although committed, late commit, expiry | all or nothing, nothing is overwritten, time to live holds |
| etcd membership (`secret-service/main.go`, `etcd/builder`) | place in the start-up, peers seen | bootstrap, join, remove stale member, auth set-up | etcd, the other pods, Kubernetes | crash and rejoin, two bootstraps, lists that have changed since | one cluster, no running member is removed, pods get in |
| OCSP policy (`internal/oss/ocsp`, `ocspheader`, `adapter/inference`) | statuses, policy | `AcceptedBy`, `CombineStatuses`, header check | attestation agent, proxies | order of statuses, grace period edge, dates cut to seconds | never better than the worst certificate, refused only for a reason |
| Attestation agent (`attestation-agent`) | the GPU it is at, its report and reference values, statuses | verify, enable, write statuses | GPU driver, OCSP, RIM services | failure at any GPU, replayed reports, duplicate indices | no GPU ready before all are verified |
| Manifest log (`privatemode-proxy/internal/manifestlog`) | log file, manifests | `WriteEntry` | updater | stop between two writes, cut writes, removed log | no version is used twice |
| Disk mounter, desktop app, packaging | | | | mostly I/O | not modelled |

The secrets' life connects them: `ExchangeSecret` stores a secret (SecretStore)
under a lease that SecretManager's expiration dates rely on; the store's
changes, all at once and never overwriting, are the history SecretSync follows;
an `inference-proxy` that does not know a secret answers with an error that
makes the proxy force a new one (`ForceUpdate` in SecretManager and Exchange).
`PROJECT.json` lists every component and every hazard with its line.

## 2. Modules

| Module | Models | Kind |
|---|---|---|
| `SecretManager` | the secret manager, its handlers and the Loop | specification and properties |
| `SecretManager_proofs` | | proofs |
| `SecretSync` | the inference-proxy's copy of the secrets | specification and properties |
| `SecretSync_proofs` | | proofs |
| `AtomicStore` | what the secret store promises | abstract specification |
| `SecretStore` | the secret service's calls on etcd | specification, refines `AtomicStore` |
| `SecretStore_proofs` | | proofs, with the refinement |
| `AnswerPrefix` | what an encrypted request promises the application | abstract specification |
| `Exchange` | one request through both proxies and back, with retries | specification, refines `AnswerPrefix` |
| `Exchange_proofs` | | proofs, with the refinement |
| `Updater` | how the proxy obtains a secret: attempts, mesh CA, manifest log | specification and properties |
| `Updater_proofs` | | proofs |
| `Membership` | how the secret service's pods form one etcd cluster | specification and properties |
| `Membership_proofs` | | proofs |
| `GPUReport` | what the attestation agent makes of a report and reference values | operators |
| `GPUAttestation` | the agent, the status file, and the OCSP policy of requests | specification and properties |
| `GPUAttestation_proofs` | | proofs |
| `ShardKeys` | the shard key algorithm | operators, with their reference definition |
| `FieldEncryption` | bodies of requests and answers through the mutators of both proxies | specification and properties |
| `FieldEncryption_proofs` | | proofs, of `ShardKeys` too |
| `MC...` | | TLC instances: symmetry, reports, requests and answers (SecretSync, Exchange and Membership have none and are checked directly) |

Definitions marked "Mutant" are plausible bugs of the code: each property of a
passing run is violated when one of them replaces the definition it stands for
(`mutants` in `PROJECT.json`), so no property holds for lack of behaviour.

### SecretManager

State: the manager's fields, the holder of `sm.mut`, and for each caller a
program counter and its locals. A call that needs no exchange is one step,
because it runs under the mutex from lock to unlock. A call with an exchange
starts it (`...Exchange`), makes attempts and ends it; between these steps the
clock runs, keys are revoked and accepted again, and other callers wait. An
attempt may store the new secret under a lease of its own (`StoreSecret`, also
when its answer is lost and another follows) or end with a 401 (`RefuseKey`).
The call ends with the last secret stored (`ExchangeOk`), with an error that
includes the 401 of any of its attempts (`ExchangeUnauthorized`), or with another
one (`ExchangeFailed`). The key is dropped for a 401 even if the service accepts
it again when the call returns. `Updater` has the inside of an exchange.

Bounds: two handlers, two keys, the clock from 0 to 2 with a lifetime of 2 and
a refresh buffer of 1 (so a secret expires in the middle of the run), three
stored secrets. Two handlers suffice to race any two operations against each
other and the Loop. The liveness run has one handler and one key and a clock up
to 3, so a secret expires after the Loop has renewed it.

Fairness: strong for taking the mutex, because Go's `sync.Mutex` hands itself to
a waiter that has starved for 1 ms; weak for the end of an exchange and for the
Loop's own steps. That a network call ends is an assumption about the network
and the callers' contexts: the HTTP client has no timeout of its own. Nobody is
assumed to send requests, and time is not assumed to pass.

### SecretSync

State: the history of etcd's contents by revision (a secret is known by the
revision that stored it), the map, where a watch starts, the response being
applied (`todo`, the set of changes left, in revision order), the watcher's
waiting for the write lock, and each reader. `Deliver` hands over the changes of
any number of revisions; `Apply` is one `Set` or `Delete` under the write lock;
`Restart` is either kind of failed watch; `Miss` and `Fallback` hold the read
lock while etcd answers, as `Secrets.Get` does, and an announced writer keeps new
readers out, as Go's RWMutex does. A lookup whose request to etcd fails
(`FallbackFails`) reports the same "not found" as one whose secret is absent
(secrets.go:42-44), so `LookupIsFresh` says of "not found" only that etcd lacked the
secret at a moment of the lookup or could not be asked. Of a secret that is found
it says that etcd had it at a revision no older than the map was when the lookup
began. `since`, `seen` and `unasked` record what it compares with. Lookups are
not ordered among each other: the fallback may report a deletion that the map
shows only later. `ZeroResponse` is the receive from a channel
that the context has closed. The store changes as `AtomicStore` allows.

Bounds: two ids, three revisions (two changes after the first fetch: stored and
deleted, or two in one revision) and one reader. Two readers with one id and
three revisions, and with two ids and two revisions, were checked as well; the
proofs cover all of them.

Fairness: goroutines run, etcd answers a Get or fails it, a blocked reader gets
in after a writer (RWMutex guarantees it), and a watch that keeps failing is
still, again and again, given everything it has missed (strong fairness of
`Deliver(Len(hist))`); failing watches are not excluded.

### SecretStore and AtomicStore

A call grants a lease (if it has a time to live), proposes one transaction and
revokes the lease when it fails. The transaction commits at any time after it is
proposed, also after its caller has given up; a lease expires at any time. A
lease is known by its call. `deleted` is a history variable for what deletes
have named. `AtomicStore` is the abstract promise; `ImplementsAtomicStore` is
checked and proved with the mapping `content <- owner`.

Bounds: two ids, three calls, each either kind: two sets of overlapping ids and
a delete between them.

A failed call may leave its secrets behind: its transaction commits although it
got an error, and the revocation uses the same dead context (etcd.go:140). With
a lease they go away when it expires (`LeaseBinds`).

### Exchange and AnswerPrefix

This module composes four parts: the handler of the `privatemode-proxy`, the
forwarder's retry loop, the two ciphers, and a session of the `inference-proxy`
for each send.

Client state: where the handler is (`pc`), the number of sends, the
`RequestCipher` (`rc`), the header of the next send and what has been decrypted
(`got`). `Send` is one round of `sendWithRetry`: encrypt all fields, send.
`Callback` is the retry callback with its condition `attempt <= 1`;
`ForceUpdate` and `InitAfterUpdate` are `ResetSecret` and
`noSecretForIDCallback`, `InitAfterReset` and `Backoff` are
`connectionResetCallback` and its delay. `Break` is a connection lost after the
status has been written, which the code answers by ending the stream; `pc` is
then "broken", and "cut" after a part that did not open. These names are the
model's: to the application such a stream looks like one that is "done".

Session state, by send: where it is (`at`), its `responseCipher`, the fields it
has decrypted (`read`), what the workload has answered (`made`, `mode`) and its
error. The workload's answer may break off, or have a line that is too long
(`AnswerBreaks`); the session then ends its stream, as it does when it has lost
its secret, and `at` is "cut". A session that the client has given up runs on
beside the next one; that the server cancels it only makes it stop earlier.

Secrets: the client's `latest` one, and `known`, the ids the lookup of the
`inference-proxy` finds. `Lose` and `Regain` stand for expiry, deletion and an
unreachable etcd, which SecretSync and SecretStore model in detail.

Encryption is a record that opens only with its key id, nonce and sequence
number, as AES-GCM does with its additional data. A nonce is a counter: 12
random bytes are assumed to differ. `text` and `by` are what a message is about
and who made it; the ciphers do not look at them. `carrier` covers both ends of
what can lie between them: an "ordered" one is a TCP connection; on a "loose"
one the fields of a send arrive in any order, repeatedly or not at all, and
response parts may come from any session of the request. What the code promises
over the loose one is what the sequence numbers are for. The fields
of a send stay with that send, as no carrier puts parts of two bodies into one
document, and HTTP keeps requests apart from responses. So the check that all
fields of a body name one cipher (cipher.go:117-123) is never put to the test, and
nothing is claimed of it.

Bounds: two fields and two parts are the fewest that can be swapped; two sends
are the code's limit; a second secret is the one that replaces a lost one.

A retry after a reset takes the latest secret, which may be newer than that of
the first send, though a comment says the secret is kept (server.go:441).
`HeaderNamesCipher` says what matters: header and body name the same one.

Fairness: weak, for the handler and each session, which are goroutines that run
on. Nothing is assumed of connections, cancellation or secrets; `Terminates`
holds with a session that loses its secret for good.

### Updater

This module is the inside of SecretManager's exchange: `UpdateSecret` with
`GetMeshCA` in both its modes (the manifest from the CDN, or `static` from a
file), the manifest log, the attestation and `ExchangeSecret`. The secret
manager calls it under its mutex, so one call runs at a time; what interleaves
are the deployments, the CDN, the API key, the caller's context and the end of
the process, each between any two steps.

State: the updater's mesh CA, known by the deployment it belongs to (`meshCA`),
the adapter's `manifest`, the place of the call (`pc`) with its locals, and the
workspace: whether `log.txt` exists, how many lines it has, whether its last
line is `partial`, and the manifest `files` by version. `OpenLog` is `WriteEntry`
up to the counting of lines, `WriteLine` and `WriteFile` are its two writes, and
each of them may also be cut short, as on a full disk, or fail without a trace
(`UpdateCAFails`). `Attest` and `ExchangeSecret` are answered by any deployment
that is live, not always by the same one: requests go to one address behind
which an old and a new deployment run during an update. Certificates and
attestation documents are what they prove: a coordinator with one manifest in
its history, and a secret service whose certificate the mesh CA issued.
`AttemptFails` is an error returned to the retry library; the error of the last
attempt carries those of all attempts, so one refused attempt suffices for
`ErrUnauthorized` (`refused`). The delay between attempts is not modelled, nor
is a change of the mode during a process.

Three variables record history: `trusted`, the manifests whose mesh CA was accepted;
`cut`, whether a log line was ever cut off; and `disturbed`, whether anything but
the code had a part in this call. `ResultIsDeserved` is about calls that were
not disturbed: the deployment was settled when they began and nothing failed or
changed. The cached mesh CA may still be one of long ago.

`log.txt` is removed only while the proxy is off. `TrustedIsTraceable` excludes
logs with a cut line: `countLines` counts it, the next entry is joined to it, and
after a restart a version number is used twice (manifestlog.go:51).

Bounds: two manifests and two mesh CAs give an update and a stale cache; two
attempts (the code has three) give a first and a last one; four lines of the
log give two calls of two entries, enough to reuse a version. `MaxLines`
guards `Start`, so that a call is never stopped by the bound. Liveness is not
checked here: a call is a bounded number of requests, and that it ends rests, as
in SecretManager, on the requests ending.

### Membership

The start-up of a pod of the secret service, from `run` to a server that is
ready: join the cluster if there is one (ask for the members, remove the entry
of an earlier life, add itself, start a server with the list), else bootstrap
(pod 0) or wait and try again (the others). `phase` is the place in this code,
`first` tells the first attempt from later ones, `known` is the answer of
`getPeers`, `home` the cluster a pod talks to. etcd is external and modelled by
what the code meets of it: `entry`, the member list, which answers only with a
quorum; the checks of `MemberRemove` and `MemberAdd` (`MayRemove`, `MayAdd`);
the comparison of a new server's configuration with the list (`ConfigFits`); and
the name a member publishes when it is ready. Kubernetes creates a pod once
the lower ones run (or serve, with `InTurn`, as a readiness probe would have
it), and starts a pod again that has ended, with an empty disk.

`RejoinsCalmCluster` is what the code promises of rejoining and is violated; the
run `membership` checks `JoinsCalmCluster`, which excludes just that entry
without a name. More was seen on the way and is in the model. There is no
readiness probe, so a pod may join before a lower one: its list is then not the
cluster's and its start is refused (`UndisturbedStartFits` says when the list
fits). A cluster of two that loses one has no quorum and never removes the lost
one. Pod 0 bootstraps a second cluster if its first attempt fails though a
cluster runs, which takes a fault (`OneCluster`, `OnlyFirstBootstraps`).
`configureAuth` uses a context without a deadline.

Bounds: three pods, the size of the deployment; two clusters, so that there can
be a wrong one; one fault (a crash, a lost answer or a local error) at any
moment, and none for `OneCluster`; one step of the auth set-up, as all of its
requests after the status fail alike when repeated. The run is without
`InTurn`, as deployment.yaml has no probe.

Fairness: weak for each pod's own steps, as a goroutine runs on, for Kubernetes'
restart of a pod that ended, and for a server with a quorum publishing its name;
strong for `WaitTimeout`, as the two minutes of waiting pass however often a tick
comes before. Faults are never assumed to happen.

### GPUReport and GPUAttestation

The agent's loop over the GPUs, one action for each call that can fail: report,
OCSP requests (one step each), reference values of driver and VBIOS,
comparison, readiness of all GPUs at once, status file; `Fail` at any place ends
a run, and Kubernetes begins another. The inference proxy starts after the agent
and reads the file once. Clients send requests with policies made from their
flags; `VerifyOCSP` compares them with the file. Revocations and time run beside
all this, with several ticks to a second, since headers and OCSP responses carry
whole seconds. Reports, certificates and reference values are records of what
their bytes say and who signed them; `GPUReport` is the parsing into maps (the last
entry of a key stays), the versions, the reference values of both documents and
their comparison.

`answers` and `evidence` are history variables: what the responder said, and
what each GPU was verified by. `ResponderAssumption` says that NVIDIA's responder
knows the certificates the agent asks it about: those of a GPU's chain but the
leaf, which the code leaves out because it is made on demand (ocsp.go:91), and of
the chains that sign reference values. Of a certificate it does not know nothing
could be said, and every request would be refused.

Seen on the way: GPUs stay ready if writing the file fails; a revocation after
the agent's check is not noticed by a running proxy; with no GPU the file is
empty and every request passes; the OCSP and RIM clients have no time-out; the
comparison is called with driver and VBIOS swapped (main.go:160), which changes
nothing; an unknown status behind a revoked one is kept from requests only by
the check of the flags in cmd.go:171.

Bounds: two GPUs, one report for each check that can refuse it, two RIM
documents of each kind, four certificates of which two get revoked, one
unanswered OCSP request, two runs of the agent, and two ticks to the second with a
clock to 3, so that a date falls into, on and after a grace period of 0 or 1.

### ShardKeys and FieldEncryption

A request's body from the application to the workload and the answer back,
through the mutators of both proxies: salt and shard key, the order in which
fields are sealed, plain fields by endpoint and client version, forms with the
first value of each name (`FormValues`: `Request.FormValue` puts values of the
URL's query before those of the form, on both sides) and files in the order of a
map, whole bodies, the validators, and answers line by line with the scanner's
limit. A document is a function from names to fields; a sealed field tells who
sealed it with which sequence number and opens for the reader who is there
(`Exchange` shows that sessions keep these numbers). An order of fields is the
function that gives each field its number, the count of those sorted before it;
a form has one such order for each way a map may list its files. A shard key
character is the text up to its boundary in place of six bits of its hash;
`ShardKeysFit` compares keys of this and earlier requests with the reference
definition of the boundaries.

Seen on the way: of repeated form fields only the first value arrives; a value in
the URL's query goes before the form's: the client seals it and leaves the URL
as it is, so the inference proxy finds it bare and refuses the request; two files
in one form are refused if the two sides visit them in different orders; file
names are replaced by the field's; a request with plain fields only gets no
answer, because nothing can be sealed for it; a line of an answer over 64 KiB
ends the stream, with the error only in the log; nobody checks the length of
`--promptCacheSalt` (cmd.go:114), and with one that is too short every completion
without a salt of its own is sent and then refused by the inference proxy.

Bounds: lengths of the code are constants with small values that keep their
divisibility; texts end before, at and after each boundary, and two requests
give a pair of keys; two forms come with a URL that has a value of theirs;
default salts are none, one that is long enough and one that is too short. Names
of JSON fields do not repeat and have no meaning for gjson.

## 3. Runs

| Run | Question | Result |
|---|---|---|
| `sm_safety` | do key, secret, lease and timer stay consistent under races? | holds |
| `sm_live` | does every call return, does the Loop start and renew? | holds |
| `sm_panic` | does accepting a key always signal the Loop? | violated: second key after a refused one panics (finding) |
| `sync_safety` | is the map one revision of etcd, does it catch up, are lookups fresh, do they return? | holds |
| `sync_close` | does the process end? | violated: `close` blocks (finding) |
| `store_safety` | all or nothing, nothing overwritten, time to live | holds |
| `exchange` | are answers unmixed and in order over retries and secret changes, and short only for a reason? | holds |
| `updater` | do shown, trusted and logged manifests agree, and does an undisturbed call give the right result? | holds |
| `membership` | one cluster, no running member lost, start-ups end, pods get in? | holds |
| `membership_rejoin` | does a pod always get back in, as a comment says? | violated: an entry without a name stays for ever (finding) |
| `gpu` | are ready GPUs verified, and requests served and refused for what the responder said? | holds |
| `field_encryption` | do both proxies agree on what is encrypted, does the request arrive, do shard keys fit? | holds |

The type invariants of the modules with proofs are proved, for all instances,
and not repeated in the runs; likewise safety properties like `AllOrNothing` or
`NoConcurrentExchange` that are theorems and follow from what the runs check.

The application cannot rely on a stream being whole: after status 200 every error
is only logged and the stream ends like a complete one (forwarder.go:195-202),
whether the session lost its secret, the connection to the workload or to the
client broke, or a line exceeded 64 KiB. `ShortForAReason` says that these are
the causes: without them, and on a connection that keeps order, the answer is whole,
because over retries and renewed secrets the ciphers of both sides stay in step and no
sealed part fails to open. `AnswerArrives`, too, says "all of them" only for answers
that end with the model's `pc = "done"`.

Deadlock checking is off where the system may stop: the process ends in
SecretSync, calls are made once in SecretStore, requests end in Exchange,
GPUAttestation and FieldEncryption, and pods that serve do nothing in
Membership.

## 4. Proofs

The theorems of the `_proofs` modules hold for all sets of handlers, keys, ids,
readers and calls, every lifetime and buffer with `RefreshBuffer < Lifetime`, and
without the bounds the runs need. The assumptions are the `ASSUME`s of the
specifications. Most say that model values differ and times are numbers. Three say more:
`ResponderAssumption` (above), which only `RefusedForAReason` rests on;
`ShardKeysAssumption`, that the ranges of the shard key are not empty and hold
whole blocks, as those of constants.go:103-120 do; and
`DocumentsAssumption`, that applications and the workload write documents with
finitely many fields, sealed by nobody, and that no name is confidential in one
place and plain in another.

Each proof follows one argument: an inductive invariant `IInv`, a lemma that it
holds initially, lemmas that each group of actions keeps it, and the theorems as
consequences. `IInv` was checked with TLC before it was proved.

* `SecretManager_proofs`: the properties are not inductive alone. `IInv` adds
  that whoever exchanges holds the mutex, that a stored but not yet returned
  secret has a lease counted from after the call's clock reading, and how the
  phases of callers relate to the key and the channel.
* `SecretSync_proofs`: `CacheIsOneRevision` needs to know which changes are still
  to come. `HistoryIsChained` states, as an invariant of the growing history, that
  an entry unchanged over a range of revisions is equal at both ends, which would
  otherwise take an induction; `ApplyInv` says that a change delivered twice is
  applied while the map is still at its revision, hence changes nothing. For
`LookupFresh`, `MapInv` says that each entry of the map is from a revision not
before the one last processed, and `ReadInv` that this one only grows while a
lookup runs.
* `SecretStore_proofs`: only a committed set owns secrets and what it owns
  together with what was deleted by name is all it stored (`OwnInv`); every step
  is then one of `AtomicStore` or a stutter.
* `Exchange_proofs`: send number `a` uses the cipher with nonce `a`, and the
  responses made under a nonce are numbered by one session (`ClientInv`,
  `ReqInv`, `SessInv`, `ReplyInv`). What opens under the client's cipher is thus
  the next part of the last send's answer, whichever message the carrier
  brought. `WholeInv` carries the lengths along an ordered carrier, and
that the ciphers are in step there: every part opens, so a stream ends before its
answer only where `ShortForAReason` says (`ShortAnswer`). The
  refinement maps `answer` to `made`, `delivered` to `Len(got)`, `source` to the
  last send once something was read and `closed` to a final `pc`.
* `Updater_proofs`: the files are those the log has counted, and the version
  about to be written has none yet (`LogInv`); removing the log is harmless only
  because files without a log are refused. `CallInv` follows an undisturbed
  call: with a good key it is in its first attempt, having at most renewed the
  mesh CA, with a bad one every attempt was refused. The proof holds for any
  number of attempts, in particular the code's three.

* `Membership_proofs`: `ServesAsMember` needs that whoever talks to a cluster has a
  home and that only pod 0 is in the phases that bootstrap; one lemma about a
  pod's end (`LeaveInv`) serves every error path. `OneCluster` needs to know
  why a server ends without a fault: a member is added only while all others
  run, so at most one member does not (`InOrder`), so a quorum is lost only while
  pod 0 is alone in its cluster, and then the cluster ends with it.
* `GPUAttestation_proofs`: four invariants, proved apart. `StatusInv` says where in the
  loop a component's responses have been combined, `FileInv` that the agent does not
  run again once the file was read, `RequestInv` that a request's header is the one
  made of its flags; with the lemmas that the combination tells the worst and that
  a cut date loses less than a second, served requests are within their policies.
  `ReasonInv` keeps a reason for each bad response: a revocation that stays, or a
  request the responder did not answer; combined and cut statuses go back to
  one of them, so a refused request has one too (`ToldIsSaid`).
  `EvidenceInv` follows nonce, report and reference values around the loop, and
  `ValidIsMeasured` shows that an accepted report has a reference value for every
  active resource.

* `FieldEncryption_proofs`: the body on its way is the prepared one, sealed in one
  of the orders the mutators may visit its fields in (`BodyInv`); an order depends on
  the names only, and both sides seal and leave the same ones, so the reader's
  order is the writer's unless a form has several files (`AdapterReads`) or the URL
puts a value of its own in the place of a sealed one, which then does not open
(`AdapterForm`). For the
  answer, `WireInv` says that the lines under way are the next full lines of
  the answer, the first sealed from the number the client has got to, each
  from where the one before it ended, the last up to the inference proxy's
  number: no line is refused for its number. A failure is traced back to its reason
  through these. `KeyInv` says which key a request has; that keys share what
  texts share (`SharedAreCommon`) is the correctness of the loop: a round lies
  on a boundary, the next round on the next boundary (`NextIsBoundary`), hence
  rounds and boundaries correspond one to one.

All safety invariants the passing runs check are theorems or follow from
theorems. Only model-checked are liveness (`StartupEnds`, `JoinsCalmCluster`,
`LookupsReturn`, ...), which rests on fairness, and the refuted properties of
the three runs with a finding. The loop of the shard key takes induction over
its rounds: the library's induction theorem is out of the provers' reach, as its
parameter is an operator, but the least number of a set is not (`LeastNumber`),
which gives induction in the form of sets (`Induction`) and, with it, that the
recursive function `Round` exists (`RoundDef`).

## 5. Not modelled

* Cryptography (HPKE, AES-GCM, certificates, signatures) and wire formats: data that
  the properties tell apart only by what opens or verifies.
* Nested field selectors and the select mutator of the models endpoint: no
  encrypted endpoint uses them. Collisions of shard key characters (six bits).
* Routing tables, health checks, request dumps, copying of headers, logging, the
  shutdown of HTTP servers: no state beyond the call.
* Inside etcd: a watch that lags by more than 1000 revisions splits its events over
  several responses; leader elections, beyond having a quorum or not.
* The disk mounter (one sequence of system calls), the desktop app (user interface
  and a C binding) and packaging.

Worth doing next: manager, store and sync composed over one clock, with theorems
about how long a secret in use stays known.
