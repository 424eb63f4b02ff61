------------------------------ MODULE Membership ------------------------------
(* How the pods of the secret service form one etcd cluster: run and         *)
(* joinOrBootstrapEtcd (secret-service/main.go), New (etcd.go),              *)
(* BootstrapCluster, JoinExistingCluster and the cluster configuration       *)
(* (builder.go, config.go). A pod finds the cluster, removes the entry of    *)
(* its earlier life, adds itself and starts a server that must find exactly  *)
(* the members it was configured with; pod 0 bootstraps a cluster of its own *)
(* if its first attempt to join fails.                                       *)
(*                                                                           *)
(* etcd is external. What the pods see of it: a member list that answers     *)
(* only with a quorum, the checks of a membership change, the comparison of  *)
(* a new server's configuration with the list, and a name that a member      *)
(* publishes when it is ready. Kubernetes is external too: it starts pods    *)
(* and starts them again, with nothing kept (no volumes in deployment.yaml). *)
(* One attempt to join talks to one cluster. Waiting times are not counted:  *)
(* a call that cannot succeed times out, and faults may time out any other.  *)
EXTENDS Integers, FiniteSets

CONSTANTS
  LastPod,      \* pods are numbered 0 .. LastPod, as in a StatefulSet
  Clusters,     \* clusters that can exist at the same time
  NoCluster,    \* no cluster
  AuthSteps,    \* requests of configureAuth after the status (7 in the code)
  MaxFaults,    \* bound: crashes, lost calls and local errors in a behaviour
  InTurn        \* whether a pod is created only once all lower pods serve

ASSUME MembershipAssumption ==
  /\ LastPod \in Nat
  /\ NoCluster \notin Clusters
  /\ IsFiniteSet(Clusters)
  /\ AuthSteps \in Nat \ {0}
  /\ MaxFaults \in Nat
  /\ InTurn \in BOOLEAN

Pods == 0..LastPod

\* What the member list holds of a pod. A member that has not published its
\* name is "added" (not running) or "starting"; "dead" is named, not running.
Entries == {"none", "added", "starting", "live", "dead"}
Running == {"starting", "live"}

Phases == {"down", "list", "remove", "add", "start", "ready", "wait", "boot",
           "auth", "serving", "stopping"}

VARIABLES
  entry,    \* entry[c][p]: what cluster c's member list holds of pod p
  auth,     \* auth[c]: requests of configureAuth that c has applied
  phase,    \* where a pod's start-up is
  first,    \* whether this is the first attempt of the start-up (step 1)
  home,     \* the cluster a pod talks to or runs a member of
  known,    \* the answer of getPeers
  created,  \* pods that Kubernetes has created
  faults    \* faults left

vars == <<entry, auth, phase, first, home, known, created, faults>>

-----------------------------------------------------------------------------
(* etcd, external                                                            *)

Members(c) == {p \in Pods : entry[c][p] # "none"}
RunningIn(c) == {p \in Pods : entry[c][p] \in Running}
Named(c) == {p \in Pods : entry[c][p] \in {"live", "dead"}}

HasQuorum(c) == 2 * Cardinality(RunningIn(c)) > Cardinality(Members(c))

\* The internal service leads to any pod whose server is ready.
Reachable(c) == HasQuorum(c) /\ \E p \in Pods : entry[c][p] = "live"

\* A member is removed if enough of the others have ever started and, unless
\* it is down, if the ones that stay connected are enough.
MayRemove(c, p) ==
  /\ HasQuorum(c)
  /\ \/ entry[c][p] \notin Running
     \/ Cardinality(RunningIn(c)) - 1 >= 1 + (Cardinality(Members(c)) - 1) \div 2
  /\ 2 * Cardinality(Named(c) \ {p}) > Cardinality(Members(c) \ {p})

\* A member is added if its peer URL is new, the members have started (one of
\* two will do) and all of them are connected.
MayAdd(c, p) ==
  /\ HasQuorum(c)
  /\ entry[c][p] = "none"
  /\ Members(c) = RunningIn(c)
  /\ \/ Cardinality(Named(c)) >= (Cardinality(Members(c)) + 1) \div 2 + 1
     \/ Cardinality(Named(c)) = 1 /\ Cardinality(Members(c)) = 1

\* The member list after p's server has stopped, however it was stopped. The
\* last one takes the cluster with it: nothing is kept on disk.
Stopped(p) ==
  [c \in Clusters |->
     LET left == [entry[c] EXCEPT ![p] = CASE @ = "starting" -> "added"
                                           [] @ = "live" -> "dead"
                                           [] OTHER -> @]
     IN IF RunningIn(c) \subseteq {p} THEN [q \in Pods |-> "none"] ELSE left]

-----------------------------------------------------------------------------
(* Configuration                                                             *)

\* deployment.yaml passes --may-bootstrap to the pod whose name ends in 0.
MayBootstrap == {0}

NoPeers == [named |-> {}, unnamed |-> {}]

\* getPeers maps names to URLs: members without a name share the key "", so
\* one of them is left, whichever comes last in the list.
Peers(c) ==
  LET anonymous == Members(c) \ Named(c)
  IN {[named |-> Named(c), unnamed |-> u] :
        u \in IF anonymous = {} THEN {{}} ELSE {{p} : p \in anonymous}}

\* Mutant: the loop ends one pod early.
InitialCluster_lower(p) == known[p].named \cup known[p].unnamed \cup 0..(p - 1)

\* initialCluster: the known peers and all pods up to this one.
InitialCluster(p) == known[p].named \cup known[p].unnamed \cup 0..p

\* The server refuses two names for one URL, and a cluster whose list differs.
ConfigFits(p, c) ==
  /\ known[p].unnamed \cap (known[p].named \cup 0..p) = {}
  /\ InitialCluster(p) = Members(c)
  /\ entry[c][p] = "added"
  /\ (RunningIn(c) \ {p}) # {}

-----------------------------------------------------------------------------

TypeOK ==
  /\ entry \in [Clusters -> [Pods -> Entries]]
  /\ auth \in [Clusters -> 0..AuthSteps]
  /\ phase \in [Pods -> Phases]
  /\ first \in [Pods -> BOOLEAN]
  /\ home \in [Pods -> Clusters \cup {NoCluster}]
  /\ known \in [Pods -> [named : SUBSET Pods, unnamed : SUBSET Pods]]
  /\ created \in SUBSET Pods
  /\ faults \in 0..MaxFaults

Init ==
  /\ entry = [c \in Clusters |-> [p \in Pods |-> "none"]]
  /\ auth = [c \in Clusters |-> 0]
  /\ phase = [p \in Pods |-> "down"]
  /\ first = [p \in Pods |-> TRUE]
  /\ home = [p \in Pods |-> NoCluster]
  /\ known = [p \in Pods |-> NoPeers]
  /\ created = {}
  /\ faults = MaxFaults

-----------------------------------------------------------------------------
(* Joining                                                                   *)

\* OrderedReady: a pod is created after the lower ones run; there is no
\* readiness probe, so that they serve is more than Kubernetes waits for.
Turn(p) ==
  \A q \in 0..(p - 1) : phase[q] = "serving" \/ (~InTurn /\ phase[q] # "down")

Start(p) ==
  /\ phase[p] = "down"
  /\ p \in created \/ Turn(p)
  /\ created' = created \cup {p}
  /\ phase' = [phase EXCEPT ![p] = "list"]
  /\ first' = [first EXCEPT ![p] = TRUE]
  /\ UNCHANGED <<entry, auth, home, known, faults>>

\* Mutant: every pod may bootstrap.
AfterJoinError_all(p) == IF first[p] THEN "boot" ELSE "wait"

\* Where an error that is a JoinError leads: step 2 or step 3 after the first
\* attempt, the next tick after a later one.
AfterJoinError(p) ==
  IF first[p] /\ p \in MayBootstrap THEN "boot" ELSE "wait"

\* Any other error ends the first attempt and the process; later ones go on.
AfterOtherError(p) == IF first[p] THEN "down" ELSE "wait"

\* The pod's server, if any, is closed (or dies) and the pod goes to ph.
Leave(p, ph) ==
  /\ entry' = Stopped(p)
  /\ phase' = [phase EXCEPT ![p] = ph]
  /\ home' = [home EXCEPT ![p] = NoCluster]
  /\ known' = [known EXCEPT ![p] = NoPeers]
  /\ UNCHANGED <<auth, first, created>>

\* getPeers: names, URLs and ids before anything is changed.
GetPeers(p) ==
  /\ phase[p] = "list"
  /\ \E c \in {d \in Clusters : Reachable(d)} :
       /\ home' = [home EXCEPT ![p] = c]
       /\ \E peers \in Peers(c) : known' = [known EXCEPT ![p] = peers]
  /\ phase' = [phase EXCEPT ![p] = "remove"]
  /\ UNCHANGED <<entry, auth, first, created, faults>>

\* Mutants: the entry of any pod may be taken; the entry is never found.
TryRemoveMember_any(p) ==
  /\ phase[p] = "remove"
  /\ \E q \in known[p].named :
       entry' = IF MayRemove(home[p], q)
                THEN [entry EXCEPT ![home[p]][q] = "none"]
                ELSE entry
  /\ phase' = [phase EXCEPT ![p] = "add"]
  /\ UNCHANGED <<auth, first, home, known, created, faults>>

TryRemoveMember_never(p) ==
  /\ phase[p] = "remove"
  /\ phase' = [phase EXCEPT ![p] = "add"]
  /\ UNCHANGED <<entry, auth, first, home, known, created, faults>>

\* Without an entry of its name there is nothing to remove.
TryRemoveMember(p) ==
  /\ phase[p] = "remove"
  /\ p \in known[p].named => MayRemove(home[p], p)
  /\ entry' = IF p \in known[p].named
              THEN [entry EXCEPT ![home[p]][p] = "none"]
              ELSE entry
  /\ phase' = [phase EXCEPT ![p] = "add"]
  /\ UNCHANGED <<auth, first, home, known, created, faults>>

MemberAdd(p) ==
  /\ phase[p] = "add"
  /\ MayAdd(home[p], p)
  /\ entry' = [entry EXCEPT ![home[p]][p] = "added"]
  /\ phase' = [phase EXCEPT ![p] = "start"]
  /\ UNCHANGED <<auth, first, home, known, created, faults>>

\* embed.StartEtcd asks the peers it was configured with, whichever cluster
\* they are in by now.
StartEtcd(p) ==
  /\ phase[p] = "start"
  /\ \E c \in Clusters :
       /\ ConfigFits(p, c)
       /\ entry' = [entry EXCEPT ![c][p] = "starting"]
       /\ home' = [home EXCEPT ![p] = c]
  /\ phase' = [phase EXCEPT ![p] = "ready"]
  /\ UNCHANGED <<auth, first, known, created, faults>>

\* Whether the step of JoinExistingCluster that p is at can succeed.
CanSucceed(p) ==
  \/ phase[p] = "list" /\ \E c \in Clusters : Reachable(c)
  \/ phase[p] = "remove" /\ (p \in known[p].named => MayRemove(home[p], p))
  \/ phase[p] = "add" /\ MayAdd(home[p], p)
  \/ phase[p] = "start" /\ \E c \in Clusters : ConfigFits(p, c)

\* A refused call, one out of time (the 10 s of joinCtx), or, as a fault, any
\* call; its effect is lost with it or, if it took place, only the answer.
JoinFails(p) ==
  /\ phase[p] \in {"list", "remove", "add", "start"}
  /\ IF CanSucceed(p) THEN faults > 0 /\ faults' = faults - 1
                      ELSE faults' = faults
  /\ Leave(p, AfterJoinError(p))

AnswerLost(p) ==
  /\ faults > 0
  /\ faults' = faults - 1
  /\ \/ /\ phase[p] = "remove" /\ p \in known[p].named
        /\ MayRemove(home[p], p)
        /\ entry' = [entry EXCEPT ![home[p]][p] = "none"]
     \/ /\ phase[p] = "add"
        /\ MayAdd(home[p], p)
        /\ entry' = [entry EXCEPT ![home[p]][p] = "added"]
  /\ phase' = [phase EXCEPT ![p] = AfterJoinError(p)]
  /\ home' = [home EXCEPT ![p] = NoCluster]
  /\ known' = [known EXCEPT ![p] = NoPeers]
  /\ UNCHANGED <<auth, first, created>>

\* Step 3: the ticker tries again, until two minutes are over.
Tick(p) ==
  /\ phase[p] = "wait"
  /\ phase' = [phase EXCEPT ![p] = "list"]
  /\ first' = [first EXCEPT ![p] = FALSE]
  /\ UNCHANGED <<entry, auth, home, known, created, faults>>

\* Mutant: every tick starts the two minutes again.
WaitTimeout_reset(p) ==
  /\ phase[p] = "wait" /\ first[p]
  /\ faults' = faults
  /\ Leave(p, "down")

WaitTimeout(p) ==
  /\ phase[p] = "wait"
  /\ faults' = faults
  /\ Leave(p, "down")

-----------------------------------------------------------------------------
(* Bootstrapping                                                             *)

\* Step 2: a new cluster of the pods up to this one.
Bootstrap(p) ==
  /\ phase[p] = "boot"
  /\ \E c \in {d \in Clusters : Members(d) = {}} :
       /\ entry' = [entry EXCEPT ![c] =
            [q \in Pods |-> IF q = p THEN "starting"
                            ELSE IF q < p THEN "added" ELSE "none"]]
       /\ auth' = [auth EXCEPT ![c] = 0]
       /\ home' = [home EXCEPT ![p] = c]
  /\ phase' = [phase EXCEPT ![p] = "auth"]
  /\ UNCHANGED <<first, known, created, faults>>

\* Each request of configureAuth is committed by the cluster.
ConfigureAuth(p) ==
  /\ phase[p] = "auth"
  /\ HasQuorum(home[p])
  /\ auth' = [auth EXCEPT ![home[p]] = @ + 1]
  /\ phase' = [phase EXCEPT ![p] = IF auth[home[p]] + 1 = AuthSteps
                                   THEN "ready" ELSE "auth"]
  /\ UNCHANGED <<entry, first, home, known, created, faults>>

\* An error closes the server and ends the process.
ConfigureAuthFails(p) ==
  /\ phase[p] = "auth"
  /\ IF HasQuorum(home[p]) THEN faults > 0 /\ faults' = faults - 1
                           ELSE faults' = faults
  /\ Leave(p, "down")

-----------------------------------------------------------------------------
(* Running                                                                   *)

\* A server with a quorum publishes its name, and is ready (external).
Publish(p) ==
  /\ home[p] # NoCluster
  /\ entry[home[p]][p] = "starting"
  /\ HasQuorum(home[p])
  /\ entry' = [entry EXCEPT ![home[p]][p] = "live"]
  /\ UNCHANGED <<auth, phase, first, home, known, created, faults>>

\* New returns once the server is ready.
Ready(p) ==
  /\ phase[p] = "ready"
  /\ entry[home[p]][p] = "live"
  /\ phase' = [phase EXCEPT ![p] = "serving"]
  /\ known' = [known EXCEPT ![p] = NoPeers]
  /\ UNCHANGED <<entry, auth, first, home, created, faults>>

\* After 60 s it closes the server; this is not a JoinError.
ReadyTimeout(p) ==
  /\ phase[p] = "ready"
  /\ IF entry[home[p]][p] = "live" \/ HasQuorum(home[p])
     THEN faults > 0 /\ faults' = faults - 1
     ELSE faults' = faults
  /\ Leave(p, AfterOtherError(p))

\* New cannot make the directory or read the certificate.
LocalError(p) ==
  /\ faults > 0
  /\ faults' = faults - 1
  /\ phase[p] = "list"
  /\ Leave(p, AfterOtherError(p))

\* The user server or the health server fails and stops the other one; then
\* run returns, and closes etcd on its way.
ServerFails(p) ==
  /\ phase[p] = "serving"
  /\ faults > 0
  /\ faults' = faults - 1
  /\ phase' = [phase EXCEPT ![p] = "stopping"]
  /\ UNCHANGED <<entry, auth, first, home, known, created>>

Exit(p) ==
  /\ phase[p] = "stopping"
  /\ faults' = faults
  /\ Leave(p, "down")

\* The pod is killed: nothing of it is left but its entry.
Crash(p) ==
  /\ phase[p] # "down"
  /\ faults > 0
  /\ faults' = faults - 1
  /\ Leave(p, "down")

\* Steps a pod takes if nothing else happens.
PodStep(p) ==
  \/ Start(p) \/ GetPeers(p) \/ TryRemoveMember(p) \/ MemberAdd(p)
  \/ StartEtcd(p) \/ JoinFails(p) \/ Tick(p) \/ WaitTimeout(p)
  \/ Bootstrap(p) \/ ConfigureAuth(p) \/ ConfigureAuthFails(p)
  \/ Publish(p) \/ Ready(p) \/ ReadyTimeout(p) \/ Exit(p)

Fault(p) ==
  AnswerLost(p) \/ LocalError(p) \/ ServerFails(p) \/ Crash(p)

Next == \E p \in Pods : PodStep(p) \/ Fault(p)

Spec == Init /\ [][Next]_vars

\* Pods are started by Kubernetes and run at their own pace; a server with a
\* quorum publishes; the two minutes of step 3 pass, however often a tick
\* comes before.
Fairness ==
  \A p \in Pods :
    WF_vars(PodStep(p)) /\ WF_vars(Publish(p)) /\ SF_vars(WaitTimeout(p))

FairSpec == Spec /\ Fairness

-----------------------------------------------------------------------------
(* Properties                                                                *)

\* The cluster p would join is in order: all its other members are up and
\* named, lower pods are among them, no second cluster runs.
Calm(p, c) ==
  /\ Members(c) \ {p} # {}
  /\ \A q \in Members(c) \ {p} : entry[c][q] = "live"
  /\ 0..(p - 1) \subseteq Members(c)
  /\ HasQuorum(c) \/ phase[p] = "start"
  /\ \A d \in Clusters \ {c} : RunningIn(d) = {}

\* A pod serves as a named member of exactly one cluster, whatever became of
\* its earlier entries: no join, its own or another's, takes the entry of a
\* server that runs (tryRemoveMember, builder.go:132).
ServesAsMember ==
  \A p \in Pods :
    /\ phase[p] \in {"serving", "stopping"} => entry[home[p]][p] = "live"
    /\ \A c \in Clusters :
         entry[c][p] \in Running
           <=> home[p] = c /\ phase[p] \in {"auth", "ready", "serving", "stopping"}

\* Without a fault there is never more than one cluster: only pod 0 bootstraps,
\* and only when the one it had is gone (joinOrBootstrapEtcd, main.go:146).
OneCluster ==
  faults = MaxFaults =>
    \A c, d \in Clusters : RunningIn(c) # {} /\ RunningIn(d) # {} => c = d

\* A pod that joins a cluster in order starts with the members the cluster has:
\* if nobody else joined since it asked for the list, and all had names then,
\* what it saw, itself and the lower pods are the list it is checked against,
\* whether or not it was in it before (initialCluster, config.go:117).
UndisturbedStartFits ==
  \A p \in Pods :
    /\ phase[p] = "start"
    /\ entry[home[p]][p] = "added"
    /\ known[p].unnamed = {}
    /\ known[p].named \ {p} = Members(home[p]) \ {p}
    /\ Calm(p, home[p])
    => ConfigFits(p, home[p])

\* No start-up hangs: it ends serving, or the process exits and is started
\* again (the time-outs of main.go:137 and :162, etcd.go:104).
StartupEnds ==
  \A p \in Pods : phase[p] # "down" ~> phase[p] \in {"serving", "stopping", "down"}

\* Whatever happened before: if from some time on the cluster is in order and
\* holds no unnamed entry of p but the one p is about to start, p gets in.
JoinsCalmCluster ==
  \A p \in Pods :
    <>[](\E c \in Clusters :
           Calm(p, c) /\ (entry[c][p] = "added" => phase[p] = "start"))
      => []<>(phase[p] = "serving")

\* JoinExistingCluster "works both when the node joins the existing cluster for
\* the first time, but also when it has previously ungracefully left the
\* cluster and is now rejoining" (builder.go:60): as long as the cluster is in
\* order, every pod gets in.
RejoinsCalmCluster ==
  \A p \in Pods :
    <>[](\E c \in Clusters : Calm(p, c)) => []<>(phase[p] = "serving")
=============================================================================
