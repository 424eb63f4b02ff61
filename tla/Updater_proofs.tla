--------------------------- MODULE Updater_proofs ---------------------------
(***************************************************************************)
(* What Updater promises for all manifests, numbers of attempts and        *)
(* histories of deployments, and whatever the log has grown to.            *)
(***************************************************************************)
EXTENDS Updater, TLAPS

\* What the places of a call say about its locals and the log.
PhaseInv ==
  /\ ~Busy => attempt = 1 /\ ~cancelled /\ ~refused
  /\ pc = "try" \/ ~Busy => ~retried
  /\ pc \in {"open", "line", "file"} => ~static
  /\ pc \in {"line", "file"} => logExists
  /\ pc \in {"open", "line", "file", "attest"} => expected \in Manifests
  /\ static /\ pc = "attest" => expected = published

\* The log counts the files: the next version has none yet.
LogInv ==
  ~cut =>
    /\ ~partial
    /\ logExists => \A v \in DOMAIN files : v <= lines
    /\ pc = "line" => version = lines + 1
    /\ pc = "file" => version = lines /\ version \notin DOMAIN files
    /\ pc = "attest" /\ ~static => \E v \in DOMAIN files : files[v] = expected

\* A call that nothing has disturbed: with a good key it is still in its first
\* attempt, with a bad one every attempt before was refused.
CallInv ==
  Busy /\ ~disturbed =>
    /\ Settled /\ ~cancelled
    /\ keyOK => attempt = 1 /\ ~refused
    /\ keyOK /\ pc \in {"open", "line", "file", "attest"} => expected = published
    /\ keyOK /\ pc = "exchange" /\ retried => meshCA \in live
    /\ ~keyOK /\ attempt > 1 => refused

IInv == TypeOK /\ PhaseInv /\ ShownIsAttested /\ LogInv /\ TrustedIsTraceable /\ CallInv

LEMMA InitIInv == Init => IInv
<1> SUFFICES ASSUME Init PROVE IInv
  OBVIOUS
<1> USE UpdaterAssumption
<1>0. PICK m \in Manifests : live = {[ca |-> 1, mf |-> m, updated |-> FALSE]}
  BY DEF Init
<1>1. EnvType
  BY <1>0 DEF Init, EnvType, Deployment
<1>2. DiskType
  <2>1. DOMAIN files = {}
    BY DEF Init
  <2>2. logExists \in BOOLEAN /\ partial \in BOOLEAN /\ cut \in BOOLEAN /\ lines \in Nat
    BY DEF Init
  <2>3. files \in [DOMAIN files -> Manifests \cup {Torn}]
    BY <2>1 DEF Init
  <2> QED BY <2>1, <2>2, <2>3 DEF DiskType
<1>3. CacheType /\ CallType /\ trusted \subseteq Manifests
  <2>1. retried \in BOOLEAN /\ cancelled \in BOOLEAN /\ refused \in BOOLEAN /\ disturbed \in BOOLEAN
    BY DEF Init
  <2>2. CallType
    BY <2>1 DEF Init, CallType
  <2> QED BY <2>2 DEF Init, CacheType
<1>4. PhaseInv /\ ShownIsAttested /\ LogInv /\ TrustedIsTraceable /\ CallInv
  BY DEF Init, PhaseInv, Busy, ShownIsAttested, LogInv, TrustedIsTraceable, CallInv
<1> QED BY <1>1, <1>2, <1>3, <1>4 DEF IInv, TypeOK

-----------------------------------------------------------------------------
(* The parts that most actions leave alone.                                *)

LEMMA EnvStays == UNCHANGED env /\ EnvType => EnvType'
BY DEF env, EnvType

LEMMA DiskStays == UNCHANGED disk /\ DiskType => DiskType'
BY DEF disk, DiskType

LEMMA CacheStays == UNCHANGED cached /\ CacheType => CacheType'
BY DEF cached, CacheType

LEMMA CallStays == UNCHANGED call /\ CallType => CallType'
BY DEF call, locals, CallType

-----------------------------------------------------------------------------
(* Type correctness.                                                       *)

LEMMA ReturnType ==
  ASSUME NEW r \in {"ok", "failed", "unauthorized"}, Return(r)
  PROVE  CallType'
<1>1. pc' = "idle" /\ result' \in {"none", "ok", "failed", "unauthorized"}
  BY DEF Return
<1>2. attempt' \in 1..Attempts /\ expected' \in Manifests \cup {None} /\ version' \in Nat
  BY UpdaterAssumption DEF Return, NoLocals
<1>3. retried' \in BOOLEAN /\ cancelled' \in BOOLEAN /\ refused' \in BOOLEAN /\ disturbed' \in BOOLEAN
  BY DEF Return, NoLocals
<1> QED BY <1>1, <1>2, <1>3 DEF CallType

\* An attempt that fails leaves the call's state in its types.
LEMMA AttemptFailsType ==
  ASSUME CallType, NEW u \in BOOLEAN, NEW c \in BOOLEAN, AttemptFails(u, c)
  PROVE  CallType'
<1>1. CASE attempt < Attempts /\ attempt' = attempt + 1 /\ NextAttempt(u, c)
  <2>1. pc' = "try" /\ expected' = None /\ version' = 0 /\ UNCHANGED <<cancelled, result>>
    BY <1>1 DEF NextAttempt
  <2>2. attempt' \in 1..Attempts
    BY <1>1, UpdaterAssumption DEF CallType
  <2>3. retried' \in BOOLEAN /\ refused' \in BOOLEAN /\ disturbed' \in BOOLEAN
    BY <1>1 DEF NextAttempt
  <2> QED BY <2>1, <2>2, <2>3 DEF CallType
<1>2. CASE ReturnError(refused \/ u)
  BY <1>2, ReturnType DEF ReturnError
<1> QED BY <1>1, <1>2 DEF AttemptFails

LEMMA ExchangeFailsType ==
  ASSUME CallType, NEW u \in BOOLEAN, NEW c \in BOOLEAN, ExchangeFails(u, c)
  PROVE  CallType'
<1>1. CASE AttemptFails(u, c)
  BY <1>1, AttemptFailsType
<1>2. CASE /\ retried' = TRUE /\ pc' = "fetch" /\ disturbed' = (disturbed \/ c)
           /\ UNCHANGED <<attempt, cancelled, expected, version, refused, result>>
  <2>1. retried' \in BOOLEAN /\ disturbed' \in BOOLEAN
    BY <1>2
  <2> QED BY <1>2, <2>1 DEF CallType
<1> QED BY <1>1, <1>2 DEF ExchangeFails

\* Writing a file changes no other.
LEMMA StoreFile ==
  ASSUME DiskType, version \in Nat, NEW content \in Manifests \cup {Torn}, Store(content)
  PROVE  /\ DOMAIN files' = DOMAIN files \cup {version}
         /\ DOMAIN files' \subseteq Nat
         /\ files' \in [DOMAIN files' -> Manifests \cup {Torn}]
         /\ files'[version] = content
         /\ \A v \in DOMAIN files : v # version => files'[v] = files[v]
BY DEF DiskType, Store

LEMMA TypeStep == TypeOK /\ PhaseInv /\ [Next]_vars => TypeOK'
<1> SUFFICES ASSUME TypeOK, PhaseInv, [Next]_vars PROVE TypeOK'
  OBVIOUS
<1>0. EnvType /\ DiskType /\ CacheType /\ CallType /\ trusted \subseteq Manifests
  BY DEF TypeOK
<1> USE <1>0, EnvStays, DiskStays, CacheStays, CallStays
<1>1. CASE Start
  <2>1. disturbed' \in BOOLEAN
    BY <1>1 DEF Start
  <2>2. CallType'
    BY <1>1, <2>1 DEF Start, locals, CallType
  <2> QED BY <1>1, <2>2 DEF Start, TypeOK
<1>2. CASE Try
  <2>1. CASE ReturnError(refused)
    BY <1>2, <2>1, ReturnType DEF Try, ReturnError, TypeOK
  <2>2. CASE /\ pc' = IF meshCA = None THEN "fetch" ELSE "exchange"
             /\ UNCHANGED <<locals, result, disturbed>>
    <3>1. CallType'
      BY <2>2 DEF locals, CallType
    <3> QED BY <1>2, <3>1 DEF Try, TypeOK
  <2> QED BY <1>2, <2>1, <2>2 DEF Try
<1>3. CASE FetchManifest
  <2>1. CallType'
    BY <1>3 DEF FetchManifest, CallType, EnvType
  <2> QED BY <1>3, <2>1 DEF FetchManifest, TypeOK
<1>4. CASE OpenLog
  <2>1. CASE logExists' = TRUE /\ version' = lines + 1 /\ pc' = "line"
             /\ UNCHANGED <<attempt, retried, cancelled, expected, refused, result, disturbed>>
    <3>1. CallType' /\ logExists' \in BOOLEAN
      BY <2>1 DEF CallType, DiskType
    <3> QED BY <1>4, <3>1 DEF OpenLog, TypeOK, DiskType
  <2>2. CASE AttemptFails(FALSE, FALSE) /\ UNCHANGED logExists
    BY <1>4, <2>2, AttemptFailsType DEF OpenLog, TypeOK, DiskType
  <2> QED BY <1>4, <2>1, <2>2 DEF OpenLog
<1>5. CASE WriteLine
  <2>1. lines' \in Nat
    BY <1>5 DEF WriteLine, Extend, DiskType
  <2>2. partial' \in BOOLEAN /\ UNCHANGED <<logExists, files, cut>>
    BY <1>5 DEF WriteLine
  <2>3. DiskType'
    BY <2>1, <2>2 DEF DiskType
  <2>4. CallType'
    BY <1>5 DEF WriteLine, locals, CallType
  <2> QED BY <1>5, <2>3, <2>4 DEF WriteLine, TypeOK
<1>6. CASE WriteFile
  <2>1. DiskType'
    BY <1>6, StoreFile DEF WriteFile, PhaseInv, CallType, DiskType
  <2>2. CallType'
    BY <1>6 DEF WriteFile, locals, CallType
  <2> QED BY <1>6, <2>1, <2>2 DEF WriteFile, TypeOK
<1>7. ASSUME NEW d \in live, Attest(d) PROVE TypeOK'
  <2>1. d \in Deployment /\ (~keyOK) \in BOOLEAN
    BY DEF EnvType
  <2>2. CASE keyOK /\ Matches(d) /\ pc' = "exchange" /\ meshCA' = d
    <3>1. CallType'
      BY <1>7, <2>2, UpdaterAssumption DEF Attest, CallType
    <3>2. expected \in Manifests
      BY <1>7 DEF Attest, PhaseInv
    <3>3. CacheType' /\ trusted' \subseteq Manifests
      BY <1>7, <2>1, <2>2, <3>2 DEF Attest, CacheType
    <3> QED BY <1>7, <3>1, <3>3 DEF Attest, TypeOK
  <2>3. CASE AttemptFails(~keyOK, FALSE) /\ UNCHANGED <<cached, trusted>>
    BY <1>7, <2>1, <2>3, AttemptFailsType DEF Attest, TypeOK
  <2> QED BY <1>7, <2>2, <2>3 DEF Attest
<1>8. ASSUME NEW d \in live, ExchangeSecret(d) PROVE TypeOK'
  <2>1. (~keyOK) \in BOOLEAN
    OBVIOUS
  <2>2. CASE Return("ok")
    BY <1>8, <2>2, ReturnType DEF ExchangeSecret, TypeOK
  <2>3. CASE ExchangeFails(~keyOK, FALSE)
    BY <1>8, <2>1, <2>3, ExchangeFailsType DEF ExchangeSecret, TypeOK
  <2> QED BY <1>8, <2>2, <2>3 DEF ExchangeSecret
<1>9. CASE Failure
  <2>1. CASE WriteLineCut
    <3>1. lines' \in Nat
      BY <2>1 DEF WriteLineCut, Extend, DiskType
    <3>2. partial' \in BOOLEAN /\ cut' \in BOOLEAN /\ UNCHANGED <<logExists, files>>
      BY <2>1 DEF WriteLineCut
    <3>3. DiskType'
      BY <3>1, <3>2 DEF DiskType
    <3> QED BY <2>1, <3>3, AttemptFailsType DEF WriteLineCut, TypeOK
  <2>2. CASE WriteFileCut
    <3>1. DiskType'
      BY <2>2, StoreFile DEF WriteFileCut, CallType, DiskType
    <3> QED BY <2>2, <3>1, AttemptFailsType DEF WriteFileCut, TypeOK
  <2>3. CASE UpdateCAFails
    BY <2>3, AttemptFailsType DEF UpdateCAFails, TypeOK
  <2>4. CASE ExchangeLost
    BY <2>4, ExchangeFailsType DEF ExchangeLost, TypeOK
  <2> QED BY <1>9, <2>1, <2>2, <2>3, <2>4 DEF Failure
<1>10. CASE Boot
  <2>1. CallType'
    BY <1>10 DEF Boot, locals, CallType
  <2> QED BY <1>10, <2>1 DEF Boot, TypeOK
<1>11. CASE Stop
  <2>1. retried' \in BOOLEAN /\ cancelled' \in BOOLEAN /\ refused' \in BOOLEAN /\ disturbed' \in BOOLEAN
    BY <1>11 DEF Stop, NoLocals
  <2>2. CallType' /\ CacheType'
    BY <1>11, <2>1, UpdaterAssumption DEF Stop, NoLocals, CallType, CacheType
  <2> QED BY <1>11, <2>2 DEF Stop, TypeOK
<1>12. CASE Cancel
  <2>1. cancelled' \in BOOLEAN /\ disturbed' \in BOOLEAN
    BY <1>12 DEF Cancel
  <2>2. CallType'
    BY <1>12, <2>1 DEF Cancel, CallType
  <2> QED BY <1>12, <2>2 DEF Cancel, TypeOK
<1>13. CASE RemoveLog
  <2>1. logExists' \in BOOLEAN /\ partial' \in BOOLEAN /\ lines' = 0 /\ UNCHANGED <<files, cut>>
    BY <1>13 DEF RemoveLog
  <2>2. DiskType'
    BY <2>1 DEF DiskType
  <2> QED BY <1>13, <2>2 DEF RemoveLog, TypeOK
<1>14. ASSUME Around, EnvType' PROVE TypeOK'
  <2>1. disturbed' \in BOOLEAN
    BY <1>14 DEF Around, Busy
  <2>2. CallType'
    BY <1>14, <2>1 DEF Around, locals, CallType
  <2> QED BY <1>14, <2>2 DEF Around, TypeOK
<1>15. CASE ChangeKey
  <2>1. keyOK' \in BOOLEAN
    BY <1>15 DEF ChangeKey
  <2> QED BY <1>14, <1>15, <2>1 DEF ChangeKey, Around, EnvType
<1>16. ASSUME NEW d \in live, Retire(d) PROVE TypeOK'
  BY <1>14, <1>16 DEF Retire, Around, EnvType
<1>17. ASSUME NEW d \in live, NEW m \in Manifests, SetManifest(d, m) PROVE TypeOK'
  <2>1. [ca |-> cas + 1, mf |-> m, updated |-> TRUE] \in Deployment
    BY <1>17, UpdaterAssumption DEF SetManifest, Deployment, EnvType
  <2>2. EnvType'
    <3>1. live' \subseteq Deployment /\ live' # {}
      BY <1>17, <2>1 DEF SetManifest, EnvType
    <3>2. cas' \in 1..MaxCAs
      BY <1>17, UpdaterAssumption DEF SetManifest, EnvType
    <3>3. UNCHANGED <<published, keyOK, static>>
      BY <1>17 DEF SetManifest, Around
    <3> QED BY <3>1, <3>2, <3>3 DEF EnvType
  <2> QED BY <1>14, <1>17, <2>2 DEF SetManifest
<1>18. ASSUME NEW m \in Manifests, Deploy(m) PROVE TypeOK'
  <2>1. [ca |-> cas + 1, mf |-> m, updated |-> FALSE] \in Deployment
    BY <1>18, UpdaterAssumption DEF Deploy, Deployment, EnvType
  <2>2. EnvType'
    <3>1. live' \subseteq Deployment /\ live' # {}
      BY <1>18, <2>1 DEF Deploy, EnvType
    <3>2. cas' \in 1..MaxCAs
      BY <1>18, UpdaterAssumption DEF Deploy, EnvType
    <3>3. UNCHANGED <<published, keyOK, static>>
      BY <1>18 DEF Deploy, Around
    <3> QED BY <3>1, <3>2, <3>3 DEF EnvType
  <2> QED BY <1>14, <1>18, <2>2 DEF Deploy
<1>19. ASSUME NEW m \in Manifests, Publish(m) PROVE TypeOK'
  BY <1>14, <1>19 DEF Publish, Around, EnvType
<1>20. CASE UNCHANGED vars
  BY <1>20 DEF vars, TypeOK
<1> QED BY <1>1, <1>2, <1>3, <1>4, <1>5, <1>6, <1>7, <1>8, <1>9, <1>10, <1>11, <1>12,
           <1>13, <1>15, <1>16, <1>17, <1>18, <1>19, <1>20 DEF Next, UpdateSecret, Surroundings

-----------------------------------------------------------------------------
(* The phases of a call.                                                   *)

\* A failed attempt ends the call or begins another attempt.
LEMMA FailedAttempt ==
  ASSUME NEW u, NEW c, AttemptFails(u, c)
  PROVE  /\ pc' \in {"try", "idle"} /\ ~retried'
         /\ pc' = "idle" => attempt' = 1 /\ ~cancelled' /\ ~refused'
BY DEF AttemptFails, NextAttempt, ReturnError, Return, NoLocals

\* Nothing is known of the locals between attempts and calls.
LEMMA PhaseOutside ==
  ASSUME pc' \in {"try", "idle"}, ~retried', pc' = "idle" => attempt' = 1 /\ ~cancelled' /\ ~refused'
  PROVE  PhaseInv'
BY DEF PhaseInv, Busy

LEMMA PhaseStep == TypeOK /\ PhaseInv /\ [Next]_vars => PhaseInv'
<1> SUFFICES ASSUME TypeOK, PhaseInv, [Next]_vars PROVE PhaseInv'
  OBVIOUS
<1> USE DEF env, disk, cached, locals, call, Busy
<1>1. CASE Start
  BY <1>1 DEF Start, PhaseInv
<1>2. CASE Try
  <2>1. CASE ReturnError(refused)
    BY <2>1, PhaseOutside DEF ReturnError, Return, NoLocals
  <2>2. CASE pc' = (IF meshCA = None THEN "fetch" ELSE "exchange")
    BY <2>2 DEF PhaseInv
  <2> QED BY <1>2, <2>1, <2>2 DEF Try
<1>3. CASE FetchManifest
  BY <1>3 DEF FetchManifest, PhaseInv, TypeOK, EnvType
<1>4. CASE OpenLog
  <2>1. CASE AttemptFails(FALSE, FALSE)
    BY <2>1, FailedAttempt, PhaseOutside
  <2>2. CASE logExists' = TRUE /\ pc' = "line" /\ expected' = expected
    BY <1>4, <2>2 DEF OpenLog, PhaseInv
  <2> QED BY <1>4, <2>1, <2>2 DEF OpenLog
<1>5. CASE WriteLine
  BY <1>5 DEF WriteLine, PhaseInv
<1>6. CASE WriteFile
  BY <1>6 DEF WriteFile, PhaseInv
<1>7. ASSUME NEW d \in live, Attest(d) PROVE PhaseInv'
  <2>1. CASE AttemptFails(~keyOK, FALSE)
    BY <2>1, FailedAttempt, PhaseOutside
  <2>2. CASE pc' = "exchange"
    BY <2>2 DEF PhaseInv
  <2> QED BY <1>7, <2>1, <2>2 DEF Attest
<1>8. ASSUME NEW u, NEW c, ExchangeFails(u, c) PROVE PhaseInv'
  <2>1. CASE AttemptFails(u, c)
    BY <2>1, FailedAttempt, PhaseOutside
  <2>2. CASE pc' = "fetch"
    BY <2>2 DEF PhaseInv
  <2> QED BY <1>8, <2>1, <2>2 DEF ExchangeFails
<1>9. ASSUME NEW d \in live, ExchangeSecret(d) PROVE PhaseInv'
  <2>1. CASE Return("ok")
    BY <2>1, PhaseOutside DEF Return, NoLocals
  <2> QED BY <1>8, <1>9, <2>1 DEF ExchangeSecret
<1>10. CASE Failure
  <2>1. CASE AttemptFails(FALSE, TRUE)
    BY <2>1, FailedAttempt, PhaseOutside
  <2> QED BY <1>8, <1>10, <2>1 DEF Failure, WriteLineCut, WriteFileCut, UpdateCAFails, ExchangeLost
<1>11. CASE Boot \/ Stop \/ Cancel \/ RemoveLog
  BY <1>11 DEF Boot, Stop, Cancel, RemoveLog, NoLocals, PhaseInv
<1>12. CASE Around /\ (~static => UNCHANGED logExists) /\ (static => UNCHANGED published)
  BY <1>12 DEF Around, PhaseInv
<1>13. CASE ChangeKey \/ (\E d \in live : Retire(d) \/ \E m \in Manifests : SetManifest(d, m))
            \/ (\E m \in Manifests : Deploy(m) \/ Publish(m))
  BY <1>12, <1>13 DEF ChangeKey, Retire, SetManifest, Deploy, Publish, Around
<1>14. CASE UNCHANGED vars
  BY <1>14 DEF vars, PhaseInv
<1> QED BY <1>1, <1>2, <1>3, <1>4, <1>5, <1>6, <1>7, <1>9, <1>10, <1>11, <1>13, <1>14
        DEF Next, UpdateSecret, Surroundings

-----------------------------------------------------------------------------
(* The manifest shown and the mesh CA in use.                              *)

LEMMA ShownStep == TypeOK /\ PhaseInv /\ ShownIsAttested /\ [Next]_vars => ShownIsAttested'
<1> SUFFICES ASSUME TypeOK, PhaseInv, ShownIsAttested, [Next]_vars PROVE ShownIsAttested'
  OBVIOUS
<1> USE DEF ShownIsAttested, CurrentManifest
<1>1. CASE UNCHANGED <<meshCA, manifest, static>> /\ (static => published' = published)
  BY <1>1
<1>2. ASSUME NEW d \in live, Attest(d) PROVE ShownIsAttested'
  <2>1. CASE UNCHANGED cached
    BY <1>1, <1>2, <2>1 DEF cached, Attest, env
  <2>2. CASE keyOK /\ Matches(d) /\ meshCA' = d
    <3>1. meshCA'.mf = expected /\ ~meshCA'.updated /\ static' = static
      BY <1>2, <2>2 DEF Attest, Matches, env
    <3>2. static => expected = published'
      BY <1>2 DEF Attest, PhaseInv, env
    <3>3. ~static => manifest' = expected
      BY <1>2, <2>2 DEF Attest
    <3> QED BY <3>1, <3>2, <3>3
  <2> QED BY <1>2, <2>1, <2>2 DEF Attest
<1>3. CASE Stop
  BY <1>3 DEF Stop
<1>4. CASE Publish(published) \/ \E m \in Manifests : Publish(m)
  BY <1>1, <1>4 DEF Publish, Around, cached
<1>5. CASE Start \/ Try \/ FetchManifest \/ OpenLog \/ WriteLine \/ WriteFile \/ Failure
           \/ \E d \in live : ExchangeSecret(d)
  BY <1>1, <1>5 DEF Start, Try, FetchManifest, OpenLog, WriteLine, WriteFile, Failure, WriteLineCut,
     WriteFileCut, UpdateCAFails, ExchangeLost, ExchangeSecret, env, cached
<1>6. CASE Boot \/ Cancel \/ RemoveLog \/ ChangeKey \/ UNCHANGED vars
           \/ (\E d \in live : Retire(d) \/ \E m \in Manifests : SetManifest(d, m))
           \/ (\E m \in Manifests : Deploy(m))
  BY <1>1, <1>6 DEF Boot, Cancel, RemoveLog, ChangeKey, Retire, SetManifest, Deploy, Around, vars, env, cached
<1> QED BY <1>2, <1>3, <1>4, <1>5, <1>6 DEF Next, UpdateSecret, Surroundings

-----------------------------------------------------------------------------
(* The log.                                                                *)

LogPart == LogInv /\ TrustedIsTraceable

\* What LogPart depends on, between the steps of WriteEntry.
LEMMA LogStays ==
  ASSUME LogPart, UNCHANGED <<disk, trusted>>, pc' \notin {"line", "file", "attest"}
  PROVE  LogPart'
BY DEF LogPart, LogInv, TrustedIsTraceable, disk

LEMMA LogStep == TypeOK /\ PhaseInv /\ LogPart /\ [Next]_vars => LogPart'
<1> SUFFICES ASSUME TypeOK, PhaseInv, LogPart, [Next]_vars PROVE LogPart'
  OBVIOUS
<1>0. DiskType /\ CallType
  BY DEF TypeOK
<1>1. CASE Start \/ Try
  BY <1>1, LogStays DEF Start, Try, ReturnError, Return
<1>2. CASE FetchManifest
  <2>1. ~static' => pc' = "open"
    BY <1>2 DEF FetchManifest, env
  <2>2. UNCHANGED <<disk, trusted>> /\ pc' \in {"open", "attest"}
    BY <1>2 DEF FetchManifest
  <2> QED BY <2>1, <2>2 DEF LogPart, LogInv, TrustedIsTraceable, disk
<1>3. CASE OpenLog
  <2>1. CASE AttemptFails(FALSE, FALSE) /\ UNCHANGED logExists
    BY <1>3, <2>1, FailedAttempt, LogStays DEF OpenLog, disk
  <2>2. CASE Coexist /\ logExists' = TRUE /\ version' = lines + 1 /\ pc' = "line"
    BY <1>0, <1>3, <2>2 DEF OpenLog, Coexist, LogPart, LogInv, TrustedIsTraceable, DiskType
  <2> QED BY <1>3, <2>1, <2>2 DEF OpenLog
<1>4. CASE WriteLine
  <2>1. ~cut => lines' = lines + 1 /\ version' = lines' /\ \A v \in DOMAIN files : v <= lines
    BY <1>4 DEF WriteLine, Extend, LogPart, LogInv, PhaseInv, locals
  <2>2. UNCHANGED <<files, cut, trusted>> /\ ~partial' /\ pc' = "file"
    BY <1>4 DEF WriteLine
  <2> QED BY <1>0, <2>1, <2>2 DEF LogPart, LogInv, TrustedIsTraceable, DiskType
<1>5. CASE WriteFile
  <2>1. expected \in Manifests \cup {Torn} /\ version \in Nat
    BY <1>0, <1>5 DEF WriteFile, PhaseInv, CallType
  <2>2. /\ DOMAIN files' = DOMAIN files \cup {version} /\ files'[version] = expected
        /\ \A v \in DOMAIN files : v # version => files'[v] = files[v]
    BY <1>0, <1>5, <2>1, StoreFile DEF WriteFile
  <2>3. /\ UNCHANGED <<logExists, lines, partial, cut, expected, trusted>> /\ pc' = "attest"
    BY <1>5 DEF WriteFile, locals
  <2>4. ~cut => logExists /\ version = lines /\ version \notin DOMAIN files
    BY <1>5 DEF WriteFile, LogPart, LogInv, PhaseInv
  <2>5. LogInv'
    BY <1>0, <2>2, <2>3, <2>4 DEF LogPart, LogInv, DiskType
  <2>6. TrustedIsTraceable'
    BY <2>2, <2>3, <2>4 DEF LogPart, TrustedIsTraceable
  <2> QED BY <2>5, <2>6 DEF LogPart
<1>6. ASSUME NEW d \in live, Attest(d) PROVE LogPart'
  <2>1. CASE AttemptFails(~keyOK, FALSE) /\ UNCHANGED <<cached, trusted>>
    BY <1>6, <2>1, FailedAttempt, LogStays DEF Attest
  <2>2. CASE pc' = "exchange" /\ trusted' = IF static THEN trusted ELSE trusted \cup {expected}
    BY <1>6, <2>2 DEF Attest, LogPart, LogInv, TrustedIsTraceable, disk
  <2> QED BY <1>6, <2>1, <2>2 DEF Attest
<1>7. ASSUME NEW u, NEW c, ExchangeFails(u, c) PROVE pc' \notin {"line", "file", "attest"}
  BY <1>7, FailedAttempt DEF ExchangeFails
<1>8. ASSUME NEW d \in live, ExchangeSecret(d) PROVE LogPart'
  BY <1>7, <1>8, LogStays DEF ExchangeSecret, Return
<1>9. CASE Failure
  <2>1. CASE WriteLineCut
    BY <2>1 DEF WriteLineCut, LogPart, LogInv, TrustedIsTraceable
  <2>2. CASE WriteFileCut
    <3>1. version \in Nat /\ Torn \in Manifests \cup {Torn}
      BY <1>0 DEF CallType
    <3>2. /\ DOMAIN files' = DOMAIN files \cup {version}
          /\ \A v \in DOMAIN files : v # version => files'[v] = files[v]
      BY <1>0, <2>2, <3>1, StoreFile DEF WriteFileCut
    <3>3. /\ UNCHANGED <<logExists, lines, partial, cut, trusted>>
          /\ pc' \notin {"line", "file", "attest"}
      BY <2>2, FailedAttempt DEF WriteFileCut
    <3>4. ~cut => logExists /\ version = lines /\ version \notin DOMAIN files
      BY <2>2 DEF WriteFileCut, LogPart, LogInv, PhaseInv
    <3>5. LogInv'
      BY <1>0, <3>2, <3>3, <3>4 DEF LogPart, LogInv, DiskType
    <3>6. TrustedIsTraceable'
      BY <3>2, <3>3, <3>4 DEF LogPart, TrustedIsTraceable
    <3> QED BY <3>5, <3>6 DEF LogPart
  <2>3. CASE UpdateCAFails
    BY <2>3, FailedAttempt, LogStays DEF UpdateCAFails
  <2>4. CASE ExchangeLost
    BY <1>7, <2>4, LogStays DEF ExchangeLost
  <2> QED BY <1>9, <2>1, <2>2, <2>3, <2>4 DEF Failure
<1>10. CASE Boot \/ Stop
  BY <1>10, LogStays DEF Boot, Stop
<1>11. CASE RemoveLog
  BY <1>11 DEF RemoveLog, LogPart, LogInv, TrustedIsTraceable, call
<1>12. CASE UNCHANGED <<disk, trusted, static, pc, expected, version>>
  BY <1>12 DEF LogPart, LogInv, TrustedIsTraceable, disk
<1>13. CASE Cancel \/ ChangeKey \/ UNCHANGED vars
            \/ (\E d \in live : Retire(d) \/ \E m \in Manifests : SetManifest(d, m))
            \/ (\E m \in Manifests : Deploy(m) \/ Publish(m))
  BY <1>12, <1>13 DEF Cancel, ChangeKey, Retire, SetManifest, Deploy, Publish, Around, vars, env, call, locals
<1> QED BY <1>1, <1>2, <1>3, <1>4, <1>5, <1>6, <1>8, <1>9, <1>10, <1>11, <1>13
        DEF Next, UpdateSecret, Surroundings

-----------------------------------------------------------------------------
(* Calls that nothing disturbs.                                            *)

LEMMA CallStep == TypeOK /\ PhaseInv /\ CallInv /\ [Next]_vars => CallInv'
<1> SUFFICES ASSUME TypeOK, PhaseInv, CallInv, [Next]_vars, Busy', ~disturbed' PROVE CallInv'
  BY DEF CallInv
<1>0. EnvType /\ DiskType /\ CallType
  BY DEF TypeOK
<1>1. ASSUME Busy, Settled, NEW u, u = ~keyOK, AttemptFails(u, FALSE), ~keyOK \/ ~Busy',
             UNCHANGED <<env, logExists>>, DOMAIN files' = DOMAIN files
      PROVE  CallInv'
  <2>1. attempt' = attempt + 1 /\ NextAttempt(u, FALSE)
    BY <1>1 DEF AttemptFails, ReturnError, Return, Busy
  <2>2. ~disturbed /\ refused' /\ pc' = "try" /\ ~retried' /\ cancelled' = cancelled /\ ~keyOK'
    BY <1>1, <2>1 DEF NextAttempt, env
  <2>3. ~cancelled
    BY <1>1, <2>2 DEF CallInv
  <2>4. Settled'
    BY <1>1 DEF Settled, Coexist, env
  <2> QED BY <2>2, <2>3, <2>4 DEF CallInv
<1>2. CASE Start
  <2>1. Settled
    BY <1>2 DEF Start
  <2>2. Settled'
    BY <1>2, <2>1 DEF Start, Settled, Coexist, env, disk
  <2>3. attempt' = 1 /\ ~cancelled' /\ ~refused' /\ pc' = "try"
    BY <1>2 DEF Start, PhaseInv, Busy, locals
  <2> QED BY <2>2, <2>3 DEF CallInv
<1>3. ASSUME Busy, ~disturbed, UNCHANGED <<env, logExists, attempt, cancelled, refused>>,
             DOMAIN files' = DOMAIN files \/ logExists,
             keyOK /\ pc' \in {"open", "line", "file", "attest"} => expected' = published,
             keyOK /\ pc' = "exchange" /\ retried' => meshCA' \in live
      PROVE  CallInv'
  <2>1. Settled'
    BY <1>3 DEF CallInv, Settled, Coexist, env
  <2> QED BY <1>3, <2>1 DEF CallInv, env
<1>4. CASE Try
  <2>1. pc' # "idle" /\ pc' \in {"fetch", "exchange"} /\ ~retried' /\ UNCHANGED <<locals, disturbed>>
    BY <1>4 DEF Try, Busy, PhaseInv, ReturnError, Return, locals
  <2> QED BY <1>3, <1>4, <2>1 DEF Try, Busy, locals, disk
<1>5. CASE FetchManifest
  BY <1>3, <1>5 DEF FetchManifest, Busy, env, disk
<1>6. CASE OpenLog
  <2>1. Busy /\ ~static
    BY <1>6 DEF OpenLog, Busy, PhaseInv
  <2>2. CASE AttemptFails(FALSE, FALSE) /\ ~Coexist
    <3>1. ~disturbed
      BY <2>2 DEF AttemptFails, NextAttempt, ReturnError, Return, Busy
    <3> QED BY <2>1, <2>2, <3>1 DEF CallInv, Settled
  <2>3. CASE Coexist /\ logExists' = TRUE /\ pc' = "line"
             /\ UNCHANGED <<attempt, retried, cancelled, expected, refused, result, disturbed>>
    <3>1. UNCHANGED <<env, files>> /\ Settled /\ pc = "open"
      BY <1>6, <2>1, <2>3 DEF OpenLog, CallInv
    <3>2. Settled'
      BY <2>3, <3>1 DEF Settled, Coexist, env
    <3> QED BY <2>1, <2>3, <3>1, <3>2 DEF CallInv, env
  <2> QED BY <1>6, <2>2, <2>3 DEF OpenLog
<1>7. CASE WriteLine
  BY <1>3, <1>7 DEF WriteLine, Busy, locals, CallInv
<1>8. CASE WriteFile
  BY <1>3, <1>8 DEF WriteFile, Busy, locals, CallInv, PhaseInv
<1>9. ASSUME NEW d \in live, Attest(d) PROVE CallInv'
  <2>1. Busy /\ UNCHANGED <<env, disk>>
    BY <1>9 DEF Attest, Busy
  <2>2. CASE ~(keyOK /\ Matches(d)) /\ AttemptFails(~keyOK, FALSE)
    <3>1. ~disturbed
      BY <2>2 DEF AttemptFails, NextAttempt, ReturnError, Return, Busy
    <3>2. Settled /\ (keyOK => expected = published)
      BY <1>9, <2>1, <3>1 DEF CallInv, Attest
    <3>3. ~keyOK
      BY <2>2, <3>2 DEF Settled, Matches
    <3> QED BY <1>1, <2>1, <2>2, <3>2, <3>3 DEF disk
  <2>3. CASE meshCA' = d /\ pc' = "exchange"
             /\ UNCHANGED <<attempt, retried, cancelled, refused, result, disturbed>>
    BY <1>3, <2>1, <2>3 DEF disk
  <2> QED BY <1>9, <2>2, <2>3 DEF Attest
<1>10. ASSUME NEW d \in live, ExchangeSecret(d) PROVE CallInv'
  <2>1. Busy /\ UNCHANGED <<env, disk, cached>> /\ ~(keyOK /\ d = meshCA) /\ ExchangeFails(~keyOK, FALSE)
    BY <1>10 DEF ExchangeSecret, Busy, Return
  <2>2. CASE retried /\ AttemptFails(~keyOK, FALSE)
    <3>1. ~disturbed
      BY <2>2 DEF AttemptFails, NextAttempt, ReturnError, Return, Busy
    <3>2. Settled /\ (keyOK => meshCA \in live)
      BY <1>10, <2>1, <2>2, <3>1 DEF CallInv, ExchangeSecret
    <3>3. ~keyOK
      BY <2>1, <3>2 DEF Settled
    <3> QED BY <1>1, <2>1, <2>2, <3>2, <3>3 DEF disk
  <2>3. CASE retried' = TRUE /\ pc' = "fetch" /\ disturbed' = (disturbed \/ FALSE)
             /\ UNCHANGED <<attempt, cancelled, expected, version, refused, result>>
    BY <1>3, <2>1, <2>3 DEF disk
  <2> QED BY <2>1, <2>2, <2>3 DEF ExchangeFails
<1>11. CASE Failure
  <2>1. disturbed' \/ pc' = "idle"
    BY <1>11 DEF Failure, WriteLineCut, WriteFileCut, UpdateCAFails, ExchangeLost, ExchangeFails,
       AttemptFails, NextAttempt, ReturnError, Return
  <2> QED BY <2>1 DEF Busy
<1>12. CASE Boot \/ Stop \/ Cancel \/ RemoveLog
  BY <1>12 DEF Boot, Stop, Cancel, RemoveLog, call, Busy
<1>13. CASE ChangeKey \/ (\E d \in live : Retire(d) \/ \E m \in Manifests : SetManifest(d, m))
            \/ (\E m \in Manifests : Deploy(m) \/ Publish(m))
  BY <1>13 DEF ChangeKey, Retire, SetManifest, Deploy, Publish, Around, Busy
<1>14. CASE UNCHANGED vars
  <2>1. Busy /\ ~disturbed
    BY <1>14 DEF vars, call, Busy
  <2> QED BY <1>14, <2>1 DEF vars, env, disk, cached, call, locals, CallInv, Settled, Coexist
<1> QED BY <1>2, <1>4, <1>5, <1>6, <1>7, <1>8, <1>9, <1>10, <1>11, <1>12, <1>13, <1>14
        DEF Next, UpdateSecret, Surroundings

-----------------------------------------------------------------------------
(* Results.                                                                *)

\* The inductive invariant behind the results below.
THEOREM Invariance == Spec => []IInv
<1>1. IInv /\ [Next]_vars => IInv'
  BY TypeStep, PhaseStep, ShownStep, LogStep, CallStep DEF IInv, LogPart
<1> QED BY InitIInv, <1>1, PTL DEF Spec

\* The variables keep their types, and a call makes at most Attempts attempts.
THEOREM TypeCorrect == Spec => []TypeOK
<1>1. IInv => TypeOK
  BY DEF IInv
<1> QED BY Invariance, <1>1, PTL

\* The manifest shown to the user is the one the mesh CA in use was attested with.
THEOREM ManifestShown == Spec => []ShownIsAttested
<1>1. IInv => ShownIsAttested
  BY DEF IInv
<1> QED BY Invariance, <1>1, PTL

\* A manifest once trusted stays in its file, whatever stops, fails or is
\* removed, as long as every line of the log is written to its end.
THEOREM ManifestKept == Spec => []TrustedIsTraceable
<1>1. IInv => TrustedIsTraceable
  BY DEF IInv
<1> QED BY Invariance, <1>1, PTL

\* A call that nothing disturbs succeeds with a good key and is refused with a
\* bad one, however old the cached mesh CA is.
THEOREM CallsDeserved == Spec => ResultIsDeserved
<1>1. ASSUME IInv, [Next]_vars, ~disturbed, UpdateSecret, pc' = "idle"
      PROVE  result' = IF keyOK THEN "ok" ELSE "unauthorized"
  <2>1. Busy
    BY <1>1 DEF UpdateSecret, Try, FetchManifest, OpenLog, WriteLine, WriteFile, Attest, ExchangeSecret, Busy
  <2>2. Settled /\ ~cancelled /\ (~keyOK /\ attempt > 1 => refused)
    BY <1>1, <2>1 DEF IInv, CallInv
  <2>3. ASSUME AttemptFails(~keyOK, FALSE), ~keyOK PROVE result' = "unauthorized"
    BY <1>1, <2>3 DEF AttemptFails, NextAttempt, ReturnError, Return
  <2>4. CASE Try
    BY <1>1, <2>2, <2>4 DEF Try
  <2>5. CASE FetchManifest \/ WriteLine \/ WriteFile
    BY <1>1, <2>5 DEF FetchManifest, WriteLine, WriteFile
  <2>6. CASE OpenLog
    BY <1>1, <2>2, <2>6 DEF OpenLog, Settled, IInv, PhaseInv
  <2>7. ASSUME NEW d \in live, Attest(d) PROVE result' = IF keyOK THEN "ok" ELSE "unauthorized"
    <3>1. keyOK => Matches(d)
      BY <1>1, <2>1, <2>2, <2>7 DEF IInv, CallInv, Settled, Matches, Attest
    <3>2. AttemptFails(~keyOK, FALSE) /\ ~(keyOK /\ Matches(d))
      BY <1>1, <2>7 DEF Attest
    <3> QED BY <2>3, <3>1, <3>2
  <2>8. ASSUME NEW d \in live, ExchangeSecret(d) PROVE result' = IF keyOK THEN "ok" ELSE "unauthorized"
    <3>1. CASE keyOK /\ Return("ok")
      BY <3>1 DEF Return
    <3>2. CASE ~(keyOK /\ d = meshCA) /\ ExchangeFails(~keyOK, FALSE)
      <4>1. retried /\ AttemptFails(~keyOK, FALSE)
        BY <1>1, <3>2 DEF ExchangeFails
      <4>2. ~keyOK
        BY <1>1, <2>1, <2>2, <2>8, <3>2, <4>1 DEF IInv, CallInv, Settled, ExchangeSecret
      <4> QED BY <2>3, <4>1, <4>2
    <3> QED BY <2>8, <3>1, <3>2 DEF ExchangeSecret
  <2> QED BY <1>1, <2>4, <2>5, <2>6, <2>7, <2>8 DEF UpdateSecret
<1>2. IInv /\ [Next]_vars => [~disturbed /\ UpdateSecret /\ pc' = "idle" =>
         result' = IF keyOK THEN "ok" ELSE "unauthorized"]_vars
  BY <1>1
<1> QED BY Invariance, <1>2, PTL DEF Spec, ResultIsDeserved

=============================================================================
