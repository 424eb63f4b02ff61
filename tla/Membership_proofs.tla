--------------------------- MODULE Membership_proofs ---------------------------
(* Type correctness of Membership, that a pod serves as a named member of one  *)
(* cluster, that without a fault there is one cluster only, and that an        *)
(* undisturbed start fits the member list, for any number of pods and          *)
(* clusters, any number of faults and pods created in any order.               *)
(*                                                                             *)
(* ServesAsMember alone is not inductive: a step that touches the list of      *)
(* home[p] must know that home[p] is a cluster, and that nobody else is in the *)
(* phase that bootstraps. Leave is the step of many actions: it has a lemma.   *)
EXTENDS Membership, FiniteSetTheorems, TLAPS

Active == {"auth", "ready", "serving", "stopping"}

\* A pod that has asked a cluster or runs a member of it has a home.
HomeKnown ==
  \A p \in Pods : phase[p] \in {"remove", "add", "start"} \cup Active => home[p] \in Clusters

\* Only pods with --may-bootstrap do.
BootstrapAllowed ==
  \A p \in Pods : phase[p] \in {"boot", "auth"} => p \in MayBootstrap

AuthUnfinished ==
  \A p \in Pods : phase[p] = "auth" => auth[home[p]] < AuthSteps

\* The inductive invariant.
IInv == TypeOK /\ ServesAsMember /\ HomeKnown /\ BootstrapAllowed /\ AuthUnfinished

LEMMA InitInv == Init => IInv
<1> SUFFICES ASSUME Init PROVE IInv
  OBVIOUS
<1> USE MembershipAssumption DEF Init
<1>1. TypeOK
  BY DEF TypeOK, Pods, Entries, Phases, NoPeers
<1>2. ServesAsMember
  BY DEF ServesAsMember, Running
<1>3. HomeKnown /\ BootstrapAllowed /\ AuthUnfinished
  BY DEF HomeKnown, BootstrapAllowed, AuthUnfinished, Active
<1>4. QED
  BY <1>1, <1>2, <1>3 DEF IInv

\* A pod whose server stops, for whatever reason, leaves the others as they are.
LEMMA LeaveInv ==
  ASSUME IInv, NEW p \in Pods, NEW ph \in {"down", "wait", "boot"}, Leave(p, ph),
         ph = "boot" => p \in MayBootstrap, faults' \in 0..MaxFaults
  PROVE  IInv'
<1> USE MembershipAssumption DEF IInv, Leave
<1>1. entry' \in [Clusters -> [Pods -> Entries]]
  BY DEF TypeOK, Stopped, Entries
<1>2. TypeOK'
  BY <1>1 DEF TypeOK, Phases, NoPeers
<1>3. ASSUME NEW q \in Pods \ {p}, NEW c \in Clusters
      PROVE  /\ entry[c][q] \in Running => entry'[c][q] = entry[c][q]
             /\ entry[c][q] \notin Running => entry'[c][q] \notin Running
  BY DEF TypeOK, Stopped, RunningIn, Running
<1>4. ASSUME NEW c \in Clusters PROVE entry'[c][p] \notin Running
  BY DEF TypeOK, Stopped, Running
<1>5. phase'[p] \notin Active /\ \A q \in Pods \ {p} : phase'[q] = phase[q] /\ home'[q] = home[q]
  BY DEF TypeOK, Active
<1>6. ServesAsMember'
  <2>1. ASSUME NEW q \in Pods, q # p
        PROVE  /\ phase'[q] \in {"serving", "stopping"} => entry'[home'[q]][q] = "live"
               /\ \A c \in Clusters :
                    entry'[c][q] \in Running <=> home'[q] = c /\ phase'[q] \in Active
    BY <2>1, <1>3, <1>5 DEF ServesAsMember, HomeKnown, Active, Running
  <2>2. /\ phase'[p] \in {"serving", "stopping"} => entry'[home'[p]][p] = "live"
        /\ \A c \in Clusters :
             entry'[c][p] \in Running <=> home'[p] = c /\ phase'[p] \in Active
    BY <1>4, <1>5 DEF Active
  <2>3. QED
    BY <2>1, <2>2 DEF ServesAsMember, Active
<1>7. HomeKnown'
  BY <1>5 DEF HomeKnown, TypeOK, Active
<1>8. BootstrapAllowed' /\ AuthUnfinished'
  BY <1>5 DEF BootstrapAllowed, AuthUnfinished, TypeOK
<1>9. QED
  BY <1>2, <1>6, <1>7, <1>8

\* A step of a pod without a server that only touches its own entries, and
\* starts no server, keeps what the others have.
LEMMA IdleInv ==
  ASSUME IInv, NEW p \in Pods, phase[p] \notin Active, TypeOK',
         phase'[p] \notin Active,
         phase'[p] \in {"remove", "add", "start"} => home'[p] \in Clusters,
         phase'[p] = "boot" => p \in MayBootstrap,
         \A d \in Clusters : entry'[d][p] \in Running => entry'[d][p] = entry[d][p],
         \A q \in Pods \ {p} : /\ phase'[q] = phase[q] /\ home'[q] = home[q]
                               /\ \A d \in Clusters : entry'[d][q] = entry[d][q],
         UNCHANGED auth
  PROVE  IInv'
<1> USE MembershipAssumption DEF IInv
<1>1. \A d \in Clusters : entry[d][p] \notin Running
  BY DEF ServesAsMember, Active
<1>2. ServesAsMember'
  BY <1>1 DEF ServesAsMember, HomeKnown, Active
<1>3. HomeKnown'
  BY DEF HomeKnown
<1>4. BootstrapAllowed' /\ AuthUnfinished'
  BY DEF BootstrapAllowed, AuthUnfinished, Active
<1>5. QED
  BY <1>2, <1>3, <1>4

LEMMA StepInv ==
  ASSUME IInv, NEW p \in Pods, PodStep(p) \/ Fault(p)
  PROVE  IInv'
<1> USE MembershipAssumption DEF IInv
<1> DEFINE Known == [named : SUBSET Pods, unnamed : SUBSET Pods]
<1>t. TypeOK /\ faults \in Nat /\ MaxFaults \in Nat
  BY DEF TypeOK
<1>1. CASE Start(p)
  <2>1. TypeOK'
    BY <1>1 DEF Start, TypeOK, Phases
  <2>2. ServesAsMember'
    BY <1>1 DEF Start, TypeOK, ServesAsMember
  <2>3. HomeKnown' /\ BootstrapAllowed' /\ AuthUnfinished'
    BY <1>1 DEF Start, TypeOK, HomeKnown, BootstrapAllowed, AuthUnfinished, Active
  <2>4. QED
    BY <2>1, <2>2, <2>3
<1>2. CASE GetPeers(p)
  <2>0. PICK c \in Clusters :
          home' = [home EXCEPT ![p] = c] /\ \E peers \in Peers(c) : known' = [known EXCEPT ![p] = peers]
    BY <1>2 DEF GetPeers
  <2>1. PICK peers \in Peers(c) : known' = [known EXCEPT ![p] = peers]
    BY <2>0
  <2>2. peers \in Known
    BY DEF Peers, Members, Named
  <2>3. known' \in [Pods -> Known]
    BY <2>1, <2>2 DEF TypeOK
  <2>4. phase[p] = "list" /\ phase' = [phase EXCEPT ![p] = "remove"] /\ entry' = entry
        /\ UNCHANGED <<auth, first, created, faults>>
    BY <1>2 DEF GetPeers
  <2>5. TypeOK'
    BY <2>0, <2>3, <2>4 DEF TypeOK, Phases
  <2>6. /\ phase'[p] = "remove" /\ home'[p] = c
        /\ \A q \in Pods \ {p} : phase'[q] = phase[q] /\ home'[q] = home[q]
    BY <2>0, <2>4 DEF TypeOK
  <2>7. QED
    BY <2>4, <2>5, <2>6, IdleInv DEF Active
<1>3. CASE TryRemoveMember(p)
  <2>1. phase[p] = "remove" /\ phase' = [phase EXCEPT ![p] = "add"]
        /\ UNCHANGED <<auth, first, home, known, created, faults>>
    BY <1>3 DEF TryRemoveMember
  <2>2. home[p] \in Clusters
    BY <2>1 DEF HomeKnown
  <2>3. entry' = [entry EXCEPT ![home[p]][p] = "none"] \/ entry' = entry
    BY <1>3 DEF TryRemoveMember
  <2>4. /\ entry' \in [Clusters -> [Pods -> Entries]]
        /\ \A q \in Pods \ {p}, d \in Clusters : entry'[d][q] = entry[d][q]
        /\ \A d \in Clusters : entry'[d][p] \in Running => entry'[d][p] = entry[d][p]
    <3>1. CASE entry' = [entry EXCEPT ![home[p]][p] = "none"]
      BY <3>1, <2>2 DEF TypeOK, Running, Entries
    <3>2. CASE entry' = entry
      BY <3>2 DEF TypeOK
    <3>3. QED
      BY <2>3, <3>1, <3>2
  <2>5. /\ TypeOK'
        /\ phase'[p] = "add" /\ \A q \in Pods \ {p} : phase'[q] = phase[q]
    BY <2>1, <2>4 DEF TypeOK, Phases
  <2>6. QED
    BY <2>1, <2>2, <2>4, <2>5, IdleInv DEF Active
<1>4. CASE MemberAdd(p)
  <2>1. phase[p] = "add" /\ phase' = [phase EXCEPT ![p] = "start"]
        /\ UNCHANGED <<auth, first, home, known, created, faults>>
        /\ entry' = [entry EXCEPT ![home[p]][p] = "added"]
    BY <1>4 DEF MemberAdd
  <2>2. home[p] \in Clusters
    BY <2>1 DEF HomeKnown
  <2>3. TypeOK'
    BY <2>1, <2>2 DEF TypeOK, Phases, Entries
  <2>4. /\ phase'[p] = "start"
        /\ \A q \in Pods \ {p} : /\ phase'[q] = phase[q]
                                 /\ \A d \in Clusters : entry'[d][q] = entry[d][q]
        /\ \A d \in Clusters : entry'[d][p] \in Running => entry'[d][p] = entry[d][p]
    BY <2>1, <2>2 DEF TypeOK, Running
  <2>5. QED
    BY <2>1, <2>2, <2>3, <2>4, IdleInv DEF Active
<1>5. CASE StartEtcd(p)
  <2>1. PICK c \in Clusters :
          entry' = [entry EXCEPT ![c][p] = "starting"] /\ home' = [home EXCEPT ![p] = c]
    BY <1>5 DEF StartEtcd
  <2>2. phase[p] = "start" /\ phase' = [phase EXCEPT ![p] = "ready"]
        /\ UNCHANGED <<auth, first, known, created, faults>>
    BY <1>5 DEF StartEtcd
  <2>3. entry' \in [Clusters -> [Pods -> Entries]]
    BY <2>1 DEF TypeOK, Entries
  <2>4. TypeOK'
    BY <2>1, <2>2, <2>3 DEF TypeOK, Phases
  <2>5. /\ phase'[p] = "ready" /\ home'[p] = c
        /\ \A d \in Clusters : entry'[d][p] = IF d = c THEN "starting" ELSE entry[d][p]
        /\ \A q \in Pods \ {p} : phase'[q] = phase[q] /\ home'[q] = home[q]
                                 /\ \A d \in Clusters : entry'[d][q] = entry[d][q]
    BY <2>1, <2>2 DEF TypeOK
  <2>6. \A d \in Clusters : entry[d][p] \notin Running
    BY <2>2 DEF ServesAsMember
  <2>7. ServesAsMember'
    BY <2>5, <2>6 DEF ServesAsMember, HomeKnown, Active, Running
  <2>8. HomeKnown' /\ BootstrapAllowed' /\ AuthUnfinished'
    BY <2>2, <2>5 DEF HomeKnown, BootstrapAllowed, AuthUnfinished
  <2>9. QED
    BY <2>4, <2>7, <2>8
<1>6. CASE JoinFails(p)
  <2>1. AfterJoinError(p) \in {"wait", "boot"} /\ (AfterJoinError(p) = "boot" => p \in MayBootstrap)
    BY DEF AfterJoinError
  <2>2. faults' \in 0..MaxFaults
    BY <1>6, <1>t DEF JoinFails, TypeOK
  <2>3. QED
    BY <1>6, <2>1, <2>2, LeaveInv DEF JoinFails
<1>7. CASE AnswerLost(p)
  <2>1. AfterJoinError(p) \in {"wait", "boot"} /\ (AfterJoinError(p) = "boot" => p \in MayBootstrap)
    BY DEF AfterJoinError
  <2>2. phase[p] \in {"remove", "add"}
        /\ \E e \in {"none", "added"} : entry' = [entry EXCEPT ![home[p]][p] = e]
    BY <1>7 DEF AnswerLost
  <2>3. phase' = [phase EXCEPT ![p] = AfterJoinError(p)]
        /\ home' = [home EXCEPT ![p] = NoCluster]
        /\ known' = [known EXCEPT ![p] = NoPeers]
        /\ UNCHANGED <<auth, first, created>>
    BY <1>7 DEF AnswerLost
  <2>4. faults' \in 0..MaxFaults
    BY <1>7, <1>t DEF AnswerLost, TypeOK
  <2>5. home[p] \in Clusters
    BY <2>2 DEF HomeKnown
  <2>6. PICK e \in {"none", "added"} : entry' = [entry EXCEPT ![home[p]][p] = e]
    BY <2>2
  <2>7. TypeOK'
    BY <2>1, <2>3, <2>4, <2>5, <2>6 DEF TypeOK, Phases, Entries, NoPeers
  <2>8. /\ phase'[p] = AfterJoinError(p)
        /\ \A q \in Pods \ {p} : /\ phase'[q] = phase[q] /\ home'[q] = home[q]
                                 /\ \A d \in Clusters : entry'[d][q] = entry[d][q]
        /\ \A d \in Clusters : entry'[d][p] \in Running => entry'[d][p] = entry[d][p]
    BY <2>3, <2>5, <2>6 DEF TypeOK, Running
  <2>9. QED
    BY <2>1, <2>2, <2>3, <2>7, <2>8, IdleInv DEF Active
<1>8. CASE Tick(p)
  <2>1. TypeOK'
    BY <1>8 DEF Tick, TypeOK, Phases
  <2>2. ServesAsMember'
    BY <1>8 DEF Tick, TypeOK, ServesAsMember
  <2>3. HomeKnown' /\ BootstrapAllowed' /\ AuthUnfinished'
    BY <1>8 DEF Tick, TypeOK, HomeKnown, BootstrapAllowed, AuthUnfinished, Active
  <2>4. QED
    BY <2>1, <2>2, <2>3
<1>9. CASE WaitTimeout(p)
  BY <1>9, <1>t, LeaveInv DEF WaitTimeout, TypeOK
<1>10. CASE Bootstrap(p)
  <2>1. PICK c \in Clusters :
          /\ Members(c) = {}
          /\ entry' = [entry EXCEPT ![c] =
               [q \in Pods |-> IF q = p THEN "starting" ELSE IF q < p THEN "added" ELSE "none"]]
          /\ auth' = [auth EXCEPT ![c] = 0]
          /\ home' = [home EXCEPT ![p] = c]
    BY <1>10 DEF Bootstrap
  <2>2. phase[p] = "boot" /\ phase' = [phase EXCEPT ![p] = "auth"]
        /\ UNCHANGED <<first, known, created, faults>>
    BY <1>10 DEF Bootstrap
  <2>3. entry' \in [Clusters -> [Pods -> Entries]]
    BY <2>1 DEF TypeOK, Entries
  <2>4. TypeOK'
    BY <2>1, <2>2, <2>3 DEF TypeOK, Phases
  <2>5. /\ phase'[p] = "auth" /\ home'[p] = c
        /\ \A d \in Clusters : entry'[d][p] = IF d = c THEN "starting" ELSE entry[d][p]
        /\ \A q \in Pods \ {p} :
             /\ phase'[q] = phase[q] /\ home'[q] = home[q]
             /\ \A d \in Clusters \ {c} : entry'[d][q] = entry[d][q]
             /\ entry'[c][q] \notin Running /\ entry[c][q] \notin Running
    BY <2>1, <2>2 DEF TypeOK, Members, Running
  <2>6. \A d \in Clusters : entry[d][p] \notin Running
    BY <2>2 DEF ServesAsMember
  <2>7. ServesAsMember'
    <3>1. ASSUME NEW q \in Pods, q # p
          PROVE  /\ phase'[q] \in {"serving", "stopping"} => entry'[home'[q]][q] = "live"
                 /\ \A d \in Clusters :
                      entry'[d][q] \in Running <=> home'[q] = d /\ phase'[q] \in Active
      BY <3>1, <2>5 DEF ServesAsMember, HomeKnown, Active, Running
    <3>2. /\ phase'[p] \in {"serving", "stopping"} => entry'[home'[p]][p] = "live"
          /\ \A d \in Clusters :
               entry'[d][p] \in Running <=> home'[p] = d /\ phase'[p] \in Active
      BY <2>5, <2>6 DEF Active, Running
    <3>3. QED
      BY <3>1, <3>2 DEF ServesAsMember, Active
  <2>8. HomeKnown' /\ BootstrapAllowed'
    BY <2>2, <2>5 DEF HomeKnown, BootstrapAllowed
  <2>9. AuthUnfinished'
    BY <2>1, <2>2, <2>5 DEF AuthUnfinished, BootstrapAllowed, MayBootstrap, TypeOK
  <2>10. QED
    BY <2>4, <2>7, <2>8, <2>9
<1>11. CASE ConfigureAuth(p)
  <2>1. home[p] \in Clusters /\ auth[home[p]] < AuthSteps /\ p \in MayBootstrap
    BY <1>11 DEF ConfigureAuth, HomeKnown, AuthUnfinished, BootstrapAllowed, Active
  <2>2. auth[home[p]] \in Nat
    BY <2>1 DEF TypeOK
  <2>3. TypeOK'
    BY <1>11, <2>1, <2>2 DEF ConfigureAuth, TypeOK, Phases
  <2>4. ServesAsMember'
    BY <1>11 DEF ConfigureAuth, TypeOK, ServesAsMember
  <2>5. HomeKnown' /\ BootstrapAllowed'
    BY <1>11 DEF ConfigureAuth, TypeOK, HomeKnown, BootstrapAllowed, Active
  <2>6. AuthUnfinished'
    BY <1>11, <2>1, <2>2 DEF ConfigureAuth, TypeOK, AuthUnfinished, BootstrapAllowed, MayBootstrap
  <2>7. QED
    BY <2>3, <2>4, <2>5, <2>6
<1>12. CASE ConfigureAuthFails(p)
  <2>1. faults' \in 0..MaxFaults
    BY <1>12, <1>t DEF ConfigureAuthFails, TypeOK
  <2>2. QED
    BY <1>12, <2>1, LeaveInv DEF ConfigureAuthFails
<1>13. CASE Publish(p)
  <2>1. home[p] \in Clusters
    BY <1>13 DEF Publish, TypeOK
  <2>2. TypeOK'
    BY <1>13, <2>1 DEF Publish, TypeOK, Entries
  <2>3. /\ \A q \in Pods, d \in Clusters :
             entry'[d][q] = IF q = p /\ d = home[p] THEN "live" ELSE entry[d][q]
        /\ entry[home[p]][p] = "starting" /\ UNCHANGED <<phase, home, auth>>
    BY <1>13, <2>1 DEF Publish, TypeOK
  <2>4. ServesAsMember'
    BY <2>1, <2>3 DEF ServesAsMember, Running, HomeKnown, Active
  <2>5. QED
    BY <2>2, <2>3, <2>4 DEF HomeKnown, BootstrapAllowed, AuthUnfinished
<1>14. CASE Ready(p)
  <2>1. TypeOK'
    BY <1>14 DEF Ready, TypeOK, Phases, NoPeers
  <2>2. ServesAsMember'
    BY <1>14 DEF Ready, TypeOK, ServesAsMember
  <2>3. HomeKnown' /\ BootstrapAllowed' /\ AuthUnfinished'
    BY <1>14 DEF Ready, TypeOK, HomeKnown, BootstrapAllowed, AuthUnfinished, Active
  <2>4. QED
    BY <2>1, <2>2, <2>3
<1>15. CASE ReadyTimeout(p)
  <2>1. faults' \in 0..MaxFaults
    BY <1>15, <1>t DEF ReadyTimeout, TypeOK
  <2>2. AfterOtherError(p) \in {"down", "wait"}
    BY DEF AfterOtherError
  <2>3. QED
    BY <1>15, <2>1, <2>2, LeaveInv DEF ReadyTimeout
<1>16. CASE Exit(p)
  BY <1>16, <1>t, LeaveInv DEF Exit, TypeOK
<1>17. CASE LocalError(p)
  <2>1. faults' \in 0..MaxFaults
    BY <1>17, <1>t DEF LocalError, TypeOK
  <2>2. AfterOtherError(p) \in {"down", "wait"}
    BY DEF AfterOtherError
  <2>3. QED
    BY <1>17, <2>1, <2>2, LeaveInv DEF LocalError
<1>18. CASE ServerFails(p)
  <2>1. TypeOK'
    BY <1>18, <1>t DEF ServerFails, TypeOK, Phases
  <2>2. ServesAsMember'
    BY <1>18 DEF ServerFails, TypeOK, ServesAsMember
  <2>3. HomeKnown' /\ BootstrapAllowed' /\ AuthUnfinished'
    BY <1>18 DEF ServerFails, TypeOK, HomeKnown, BootstrapAllowed, AuthUnfinished, Active
  <2>4. QED
    BY <2>1, <2>2, <2>3
<1>19. CASE Crash(p)
  <2>1. faults' \in 0..MaxFaults
    BY <1>19, <1>t DEF Crash, TypeOK
  <2>2. QED
    BY <1>19, <2>1, LeaveInv DEF Crash
<1>20. QED
  BY <1>1, <1>2, <1>3, <1>4, <1>5, <1>6, <1>7, <1>8, <1>9, <1>10, <1>11, <1>12,
     <1>13, <1>14, <1>15, <1>16, <1>17, <1>18, <1>19 DEF PodStep, Fault

LEMMA StutterInv == IInv /\ UNCHANGED vars => IInv'
BY DEF IInv, vars, TypeOK, ServesAsMember, HomeKnown, BootstrapAllowed, AuthUnfinished,
       Running

\* The inductive invariant holds in every behaviour of joinOrBootstrapEtcd and
\* of the clusters it makes.
THEOREM Invariance == Spec => []IInv
<1>1. IInv /\ [Next]_vars => IInv'
  BY StepInv, StutterInv DEF Next
<1>2. QED
  BY InitInv, <1>1, PTL DEF Spec

\* The variables keep their types; in particular the auth requests that a
\* cluster has applied are never more than configureAuth makes.
THEOREM TypeCorrect == Spec => []TypeOK
<1>1. IInv => TypeOK
  BY DEF IInv
<1>2. QED
  BY Invariance, <1>1, PTL

\* No join, its own or another's, takes the entry of a server that runs, however
\* many pods and faults there are (tryRemoveMember, builder.go:132).
THEOREM ServesOnce == Spec => []ServesAsMember
<1>1. IInv => ServesAsMember
  BY DEF IInv
<1>2. QED
  BY Invariance, <1>1, PTL

\* Only a pod with --may-bootstrap ever bootstraps a cluster (main.go:146).
THEOREM OnlyFirstBootstraps == Spec => []BootstrapAllowed
<1>1. IInv => BootstrapAllowed
  BY DEF IInv
<1>2. QED
  BY Invariance, <1>1, PTL

-----------------------------------------------------------------------------
(* One cluster. Without a fault a running server ends only if its cluster has  *)
(* lost its quorum; but a member is added only while all others run, so a      *)
(* cluster has at most one member that does not, and can only lose the quorum  *)
(* while pod 0 is alone in it. Its end is then the end of the cluster.         *)

\* Pod 0 runs in every cluster there is, and all other members but one.
InOrder(c) ==
  Members(c) # {} =>
    0 \in RunningIn(c) /\ \E x \in Pods : Members(c) \ {x} \subseteq RunningIn(c)

Undisturbed ==
  faults = MaxFaults =>
    /\ \A p \in Pods : phase[p] # "stopping"
    /\ \A c \in Clusters : InOrder(c)

LEMMA PodsFinite == IsFiniteSet(Pods) /\ 0 \in Pods
BY MembershipAssumption, FS_Interval DEF Pods

LEMMA RunningAreMembers ==
  ASSUME NEW c \in Clusters
  PROVE  RunningIn(c) \subseteq Members(c) /\ Members(c) \subseteq Pods
BY DEF RunningIn, Members, Running

\* A cluster in order without a quorum has one running member, pod 0.
LEMMA QuorumLost ==
  ASSUME NEW c \in Clusters, InOrder(c), RunningIn(c) # {}, ~HasQuorum(c)
  PROVE  RunningIn(c) = {0}
<1> DEFINE R == RunningIn(c)
           M == Members(c)
<1>1. R \subseteq M /\ M \subseteq Pods
  BY RunningAreMembers
<1>2. 0 \in R
  BY <1>1 DEF InOrder
<1>3. PICK x \in Pods : M \ {x} \subseteq R
  BY <1>1 DEF InOrder
<1>4. IsFiniteSet(M) /\ IsFiniteSet(R) /\ Cardinality(M) \in Nat /\ Cardinality(R) \in Nat
  BY <1>1, PodsFinite, FS_Subset, FS_CardinalityType
<1>5. ~ (2 * Cardinality(R) > Cardinality(M))
  BY DEF HasQuorum
<1> HIDE DEF R, M
<1>6. Cardinality(M) <= Cardinality(M \ {x}) + 1 /\ IsFiniteSet(M \ {x}) /\ Cardinality(M \ {x}) \in Nat
  <2>1. /\ IsFiniteSet(M \ {x})
        /\ Cardinality(M \ {x}) = IF x \in M THEN Cardinality(M) - 1 ELSE Cardinality(M)
    BY <1>4, FS_RemoveElement
  <2>2. Cardinality(M \ {x}) \in Nat
    BY <2>1, FS_CardinalityType
  <2>3. QED
    BY <1>4, <2>1, <2>2
<1>7. Cardinality(M \ {x}) <= Cardinality(R)
  BY <1>3, <1>4, <1>6, FS_Subset
<1>8. Cardinality(R) <= 1
  BY <1>4, <1>5, <1>6, <1>7
<1>9. R \ {0} = {}
  <2>1. Cardinality(R \ {0}) = Cardinality(R) - 1 /\ IsFiniteSet(R \ {0})
    BY <1>2, <1>4, FS_RemoveElement
  <2>2. Cardinality(R \ {0}) \in Nat
    BY <2>1, FS_CardinalityType
  <2>3. Cardinality(R \ {0}) = 0
    BY <1>4, <1>8, <2>1, <2>2
  <2>4. QED
    BY <2>1, <2>3, FS_EmptySet
<1>10. QED
  BY <1>2, <1>9 DEF R

LEMMA QuorumRuns ==
  ASSUME NEW c \in Clusters, HasQuorum(c)
  PROVE  RunningIn(c) # {}
<1>1. IsFiniteSet(Members(c)) /\ Cardinality(Members(c)) \in Nat
  BY RunningAreMembers, PodsFinite, FS_Subset, FS_CardinalityType
<1>2. SUFFICES ASSUME RunningIn(c) = {} PROVE FALSE
  OBVIOUS
<1>3. QED
  BY <1>1, <1>2, FS_EmptySet DEF HasQuorum

\* A pod that leaves without a fault takes nothing with it: it is in no cluster,
\* or alone in its one.
LEMMA LeaveInOrder ==
  ASSUME IInv, Undisturbed, NEW p \in Pods, NEW ph \in {"down", "wait", "boot"}, Leave(p, ph),
         faults = MaxFaults, \A c \in Clusters : p \in RunningIn(c) => RunningIn(c) = {p}
  PROVE  Undisturbed'
<1>1. ASSUME NEW c \in Clusters PROVE InOrder(c)'
  <2>1. CASE RunningIn(c) \subseteq {p}
    <3>1. entry'[c] = [q \in Pods |-> "none"]
      BY <2>1 DEF Leave, Stopped
    <3>2. QED
      BY <3>1 DEF InOrder, Members
  <2>2. CASE ~(RunningIn(c) \subseteq {p})
    <3>1. p \notin RunningIn(c)
      BY <2>2
    <3>2. entry'[c] = entry[c]
      BY <2>2, <3>1 DEF Leave, Stopped, IInv, TypeOK, RunningIn, Running
    <3>3. QED
      BY <3>2 DEF InOrder, Undisturbed, Members, RunningIn
  <2>3. QED
    BY <2>1, <2>2
<1>2. \A q \in Pods : phase'[q] # "stopping"
  BY DEF Leave, Undisturbed, IInv, TypeOK
<1>3. QED
  BY <1>1, <1>2 DEF Undisturbed

\* A step that keeps who runs where and adds no member.
LEMMA SameInOrder ==
  ASSUME IInv, Undisturbed, UNCHANGED faults,
         \A q \in Pods : phase'[q] = "stopping" => phase[q] = "stopping",
         \A c \in Clusters : RunningIn(c)' = RunningIn(c) /\ Members(c)' \subseteq Members(c)
  PROVE  Undisturbed'
BY DEF Undisturbed, InOrder

\* A pod before it has a server runs nowhere.
LEMMA IdleRunsNowhere ==
  ASSUME IInv, NEW p \in Pods, phase[p] \notin Active, NEW c \in Clusters
  PROVE  p \notin RunningIn(c)
BY DEF IInv, ServesAsMember, RunningIn, Active

LEMMA StepInOrder ==
  ASSUME IInv, Undisturbed, NEW p \in Pods, PodStep(p) \/ Fault(p)
  PROVE  Undisturbed'
<1> SUFFICES ASSUME faults' = MaxFaults PROVE Undisturbed'
  BY DEF Undisturbed
<1>t. TypeOK /\ faults \in Nat /\ MaxFaults \in Nat /\ faults <= MaxFaults
  BY MembershipAssumption DEF IInv, TypeOK
<1>1. CASE Start(p) \/ Tick(p) \/ GetPeers(p) \/ ConfigureAuth(p) \/ Ready(p)
  <2>1. entry' = entry /\ UNCHANGED faults
    BY <1>1 DEF Start, Tick, GetPeers, ConfigureAuth, Ready
  <2>2. \A q \in Pods : phase'[q] = "stopping" => phase[q] = "stopping"
    BY <1>1, <1>t DEF Start, Tick, GetPeers, ConfigureAuth, Ready, TypeOK
  <2>3. QED
    BY <2>1, <2>2, SameInOrder DEF RunningIn, Members
<1>2. CASE TryRemoveMember(p)
  <2>1. phase[p] = "remove" /\ UNCHANGED faults /\ home[p] \in Clusters
    BY <1>2 DEF TryRemoveMember, IInv, HomeKnown
  <2>2. entry' = [entry EXCEPT ![home[p]][p] = "none"] \/ entry' = entry
    BY <1>2 DEF TryRemoveMember
  <2>3. \A c \in Clusters : p \notin RunningIn(c)
    BY <2>1, IdleRunsNowhere DEF Active
  <2>4. \A c \in Clusters : RunningIn(c)' = RunningIn(c) /\ Members(c)' \subseteq Members(c)
    <3>1. CASE entry' = entry
      BY <3>1 DEF RunningIn, Members
    <3>2. CASE entry' = [entry EXCEPT ![home[p]][p] = "none"]
      <4>1. \A c \in Clusters, q \in Pods :
              entry'[c][q] = IF c = home[p] /\ q = p THEN "none" ELSE entry[c][q]
        BY <2>1, <3>2, <1>t DEF TypeOK
      <4>2. QED
        BY <2>3, <4>1 DEF RunningIn, Members, Running
    <3>3. QED
      BY <2>2, <3>1, <3>2
  <2>5. \A q \in Pods : phase'[q] = "stopping" => phase[q] = "stopping"
    BY <1>2, <1>t DEF TryRemoveMember, TypeOK
  <2>6. QED
    BY <2>1, <2>4, <2>5, SameInOrder
<1>3. CASE MemberAdd(p)
  <2> DEFINE h == home[p]
  <2>1. /\ phase[p] = "add" /\ UNCHANGED faults /\ h \in Clusters
        /\ MayAdd(h, p) /\ entry' = [entry EXCEPT ![h][p] = "added"]
    BY <1>3 DEF MemberAdd, IInv, HomeKnown
  <2>2. Members(h) = RunningIn(h) /\ RunningIn(h) # {}
    BY <2>1, QuorumRuns DEF MayAdd
  <2>3. /\ entry[h][p] = "none"
        /\ \A c \in Clusters, q \in Pods :
             entry'[c][q] = IF c = h /\ q = p THEN "added" ELSE entry[c][q]
    BY <2>1, <1>t DEF TypeOK, MayAdd
  <2>4. ASSUME NEW c \in Clusters PROVE InOrder(c)'
    <3>1. RunningIn(c)' = RunningIn(c)
      BY <2>3 DEF RunningIn, Running
    <3>2. CASE c = h
      <4>1. Members(c)' \ {p} \subseteq Members(c)
        BY <2>3 DEF Members
      <4>2. 0 \in RunningIn(c)
        BY <2>1, <2>2, <3>2, <1>t DEF Undisturbed, InOrder
      <4>3. Members(c)' \ {p} \subseteq RunningIn(c)'
        BY <2>2, <3>1, <3>2, <4>1
      <4>4. QED
        BY <3>1, <4>2, <4>3 DEF InOrder
    <3>3. CASE c # h
      <4>1. Members(c)' = Members(c)
        BY <2>3, <3>3 DEF Members
      <4>2. InOrder(c)
        BY <2>1, <1>t DEF Undisturbed
      <4>3. QED
        BY <3>1, <4>1, <4>2 DEF InOrder
    <3>4. QED
      BY <3>2, <3>3
  <2>5. \A c \in Clusters : InOrder(c)'
    BY <2>4
  <2>6. \A q \in Pods : phase'[q] = "stopping" => phase[q] = "stopping"
    BY <1>3, <1>t DEF MemberAdd, TypeOK
  <2>7. QED
    BY <2>1, <2>5, <2>6 DEF Undisturbed
<1>4. CASE StartEtcd(p)
  <2>1. PICK c \in Clusters :
          ConfigFits(p, c) /\ entry' = [entry EXCEPT ![c][p] = "starting"]
    BY <1>4 DEF StartEtcd
  <2>2. /\ \A d \in Clusters : Members(d)' = Members(d) /\ RunningIn(d) \subseteq RunningIn(d)'
    BY <2>1, <1>t DEF ConfigFits, TypeOK, RunningIn, Members, Running
  <2>3. UNCHANGED faults /\ \A q \in Pods : phase'[q] = "stopping" => phase[q] = "stopping"
    BY <1>4, <1>t DEF StartEtcd, TypeOK
  <2>4. \A d \in Clusters : InOrder(d)'
    BY <2>2, <2>3 DEF InOrder, Undisturbed
  <2>5. QED
    BY <2>3, <2>4 DEF Undisturbed
<1>5. CASE Publish(p)
  <2>1. UNCHANGED <<faults, phase>> /\ home[p] \in Clusters /\ entry[home[p]][p] = "starting"
        /\ entry' = [entry EXCEPT ![home[p]][p] = "live"]
    BY <1>5, <1>t DEF Publish, TypeOK
  <2>2. \A c \in Clusters : RunningIn(c)' = RunningIn(c) /\ Members(c)' \subseteq Members(c)
    BY <2>1, <1>t DEF TypeOK, RunningIn, Members, Running
  <2>3. QED
    BY <2>1, <2>2, SameInOrder
<1>6. CASE Bootstrap(p)
  <2>1. PICK c \in Clusters :
          /\ Members(c) = {}
          /\ entry' = [entry EXCEPT ![c] =
               [q \in Pods |-> IF q = p THEN "starting" ELSE IF q < p THEN "added" ELSE "none"]]
    BY <1>6 DEF Bootstrap
  <2>2. p = 0 /\ UNCHANGED faults
    BY <1>6 DEF Bootstrap, IInv, BootstrapAllowed, MayBootstrap
  <2>3. \A q \in Pods : entry'[c][q] = IF q = 0 THEN "starting" ELSE "none"
    BY <2>1, <2>2, <1>t, MembershipAssumption DEF TypeOK, Pods
  <2>4. InOrder(c)'
    BY <2>3, PodsFinite DEF InOrder, Members, RunningIn, Running
  <2>5. \A d \in Clusters \ {c} : entry'[d] = entry[d]
    BY <2>1, <1>t DEF TypeOK
  <2>6. \A d \in Clusters \ {c} : InOrder(d)'
    BY <2>2, <2>5 DEF InOrder, Undisturbed, Members, RunningIn
  <2>7. \A q \in Pods : phase'[q] # "stopping"
    BY <1>6, <1>t DEF Bootstrap, TypeOK, Undisturbed
  <2>8. QED
    BY <2>4, <2>6, <2>7 DEF Undisturbed
<1>7. CASE JoinFails(p) \/ WaitTimeout(p)
  <2>1. phase[p] \notin Active /\ faults = MaxFaults
    BY <1>7, <1>t DEF JoinFails, WaitTimeout, Active
  <2>2. \A c \in Clusters : p \notin RunningIn(c)
    BY <2>1, IdleRunsNowhere
  <2>3. PICK ph \in {"down", "wait", "boot"} : Leave(p, ph)
    BY <1>7 DEF JoinFails, WaitTimeout, AfterJoinError
  <2>4. QED
    BY <2>1, <2>2, <2>3, LeaveInOrder
<1>8. CASE ConfigureAuthFails(p) \/ ReadyTimeout(p)
  <2>1. home[p] \in Clusters /\ p \in RunningIn(home[p])
    BY <1>8 DEF ConfigureAuthFails, ReadyTimeout, IInv, HomeKnown, ServesAsMember, Active, RunningIn
  <2>2. faults = MaxFaults /\ ~HasQuorum(home[p])
    BY <1>8, <1>t DEF ConfigureAuthFails, ReadyTimeout
  <2>3. RunningIn(home[p]) = {0}
    BY <2>1, <2>2, QuorumLost DEF Undisturbed
  <2>4. \A c \in Clusters : p \in RunningIn(c) => c = home[p]
    BY DEF IInv, ServesAsMember, RunningIn
  <2>5. PICK ph \in {"down", "wait", "boot"} : Leave(p, ph)
    BY <1>8 DEF ConfigureAuthFails, ReadyTimeout, AfterOtherError
  <2>6. QED
    BY <2>1, <2>2, <2>3, <2>4, <2>5, LeaveInOrder
<1>9. CASE Exit(p)
  <2>1. faults = MaxFaults /\ phase[p] = "stopping"
    BY <1>9 DEF Exit
  <2>2. QED
    BY <2>1 DEF Undisturbed
<1>10. CASE Fault(p)
  BY <1>10, <1>t DEF Fault, AnswerLost, LocalError, ServerFails, Crash
<1>11. QED
  BY <1>1, <1>2, <1>3, <1>4, <1>5, <1>6, <1>7, <1>8, <1>9, <1>10 DEF PodStep

LEMMA UndisturbedAlways == Spec => []Undisturbed
<1>1. Init => Undisturbed
  BY DEF Init, Undisturbed, InOrder, Members
<1>2. IInv /\ Undisturbed /\ [Next]_vars => Undisturbed'
  <2>1. ASSUME Undisturbed, UNCHANGED vars PROVE Undisturbed'
    BY <2>1 DEF vars, Undisturbed, InOrder, Members, RunningIn
  <2>2. QED
    BY <2>1, StepInOrder DEF Next
<1>3. QED
  BY <1>1, <1>2, Invariance, PTL DEF Spec

\* Without a fault there is never more than one cluster, however many pods, in
\* whatever order they are created and whether or not lower ones serve first
\* (joinOrBootstrapEtcd, main.go:146).
THEOREM NeverTwoClusters == Spec => []OneCluster
<1>1. IInv /\ Undisturbed => OneCluster
  <2> SUFFICES ASSUME IInv, Undisturbed, faults = MaxFaults, NEW c \in Clusters, NEW d \in Clusters,
                      RunningIn(c) # {}, RunningIn(d) # {}
               PROVE  c = d
    BY DEF OneCluster
  <2>1. 0 \in RunningIn(c) /\ 0 \in RunningIn(d)
    BY RunningAreMembers DEF Undisturbed, InOrder
  <2>2. QED
    BY <2>1, PodsFinite DEF IInv, ServesAsMember, RunningIn
<1>2. QED
  BY <1>1, Invariance, UndisturbedAlways, PTL

\* A pod that asked for the list of a cluster in order, which nobody else has
\* joined since, starts with the members the cluster has (initialCluster,
\* config.go:117).
THEOREM StartFits == Spec => []UndisturbedStartFits
<1>1. IInv => UndisturbedStartFits
  <2> SUFFICES ASSUME IInv, NEW p \in Pods, phase[p] = "start", entry[home[p]][p] = "added",
                      known[p].unnamed = {}, known[p].named \ {p} = Members(home[p]) \ {p},
                      Calm(p, home[p])
               PROVE  ConfigFits(p, home[p])
    BY DEF UndisturbedStartFits
  <2>1. home[p] \in Clusters
    BY DEF IInv, HomeKnown
  <2>2. p \in Members(home[p])
    BY DEF Members
  <2>3. 0..p = 0..(p - 1) \cup {p}
    BY MembershipAssumption DEF Pods
  <2>4. 0..(p - 1) \subseteq Members(home[p])
    BY DEF Calm
  <2>5. InitialCluster(p) = Members(home[p])
    BY <2>2, <2>3, <2>4 DEF InitialCluster
  <2>6. RunningIn(home[p]) \ {p} # {}
    BY <2>1, RunningAreMembers DEF Calm, RunningIn, Members, Running
  <2>7. QED
    BY <2>5, <2>6 DEF ConfigFits
<1>2. QED
  BY <1>1, Invariance, PTL
=============================================================================
