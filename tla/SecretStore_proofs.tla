-------------------------- MODULE SecretStore_proofs --------------------------
(***************************************************************************)
(* Proofs about SecretStore, for any sets of ids and calls: its invariants *)
(* and that it implements AtomicStore.                                     *)
(***************************************************************************)
EXTENDS SecretStore, TLAPS

\* A call that has not been made has done nothing yet.
CallInv ==
  \A c \in Calls :
    /\ pc[c] = "idle" => txn[c] = "none" /\ lease[c] = "none" /\ kind[c] = "set"
                         /\ ~ttl[c]
    /\ pc[c] = "grant" => txn[c] = "none" /\ lease[c] = "none"
    /\ ttl[c] => kind[c] = "set"
    /\ pc[c] = "revoke" => ttl[c]
    /\ pc[c] = "ok" => txn[c] = "committed"
    /\ lease[c] = "revoked" => pc[c] = "failed" /\ ttl[c]

\* Only a committed set owns secrets, and it stored all of its ids.
OwnInv ==
  \A c \in Calls :
    /\ txn[c] # "committed" \/ kind[c] = "delete" => Owned(c) = {} /\ deleted[c] = {}
    /\ txn[c] = "committed" /\ kind[c] = "set" =>
         \/ Owned(c) \cup deleted[c] = ids[c]
         \/ ttl[c] /\ lease[c] \in {"revoked", "expired"}

IInv == TypeOK /\ CallInv /\ OwnInv /\ LeaseBinds

\* The invariant holds initially.
LEMMA IInvInit == Init => IInv
<1> SUFFICES ASSUME Init PROVE IInv
  OBVIOUS
<1>1. TypeOK /\ CallInv
  BY DEF Init, TypeOK, CallInv
<1>2. \A c \in Calls : Owned(c) = {}
  BY CallsAssumption DEF Init, Owned
<1>3. OwnInv /\ LeaseBinds
  BY <1>2 DEF Init, OwnInv, LeaseBinds
<1> QED
  BY <1>1, <1>3 DEF IInv

\* The steps of a call leave the store alone, but for the revocation.
CallStep(c) ==
  \/ Call(c) \/ Grant(c) \/ GrantFails(c) \/ TxnReturns(c) \/ TxnFails(c) \/ RevokeFails(c)

\* A step of a call that does not touch the store keeps the invariant.
LEMMA CallStepKeeps ==
  ASSUME IInv, NEW c \in Calls, CallStep(c)
  PROVE  IInv' /\ UNCHANGED owner
<1>1. UNCHANGED <<owner, deleted>> /\ \A d \in Calls : Owned(d)' = Owned(d)
  BY DEF CallStep, Call, Refuse, Set, Delete, Grant, GrantFails, TxnReturns, TxnFails,
         RevokeFails, Owned
<1>2. TypeOK'
  <2>1. CASE Call(c)
    BY <2>1, <1>1 DEF IInv, TypeOK, Call, Refuse, Set, Delete, Goto
  <2>2. CASE Grant(c) \/ GrantFails(c)
    BY <2>2, <1>1 DEF IInv, TypeOK, Grant, GrantFails, Goto
  <2>3. CASE TxnReturns(c) \/ TxnFails(c) \/ RevokeFails(c)
    BY <2>3, <1>1 DEF IInv, TypeOK, TxnReturns, TxnFails, RevokeFails, Goto, Fail
  <2> QED
    BY <2>1, <2>2, <2>3 DEF CallStep
<1>3. CallInv'
  <2>1. CASE Call(c)
    <3>1. CASE Refuse(c)
      BY <3>1 DEF IInv, TypeOK, CallInv, Refuse, Goto
    <3>2. CASE \E S \in SUBSET Ids : Delete(c, S)
      BY <3>2 DEF IInv, TypeOK, CallInv, Delete, Goto
    <3>3. CASE \E S \in SUBSET Ids, t \in BOOLEAN : Set(c, S, t)
      <4> PICK S \in SUBSET Ids, t \in BOOLEAN : Set(c, S, t)
        BY <3>3
      <4>1. pc[c] = "idle" /\ ttl' = [ttl EXCEPT ![c] = t] /\ UNCHANGED <<kind, lease>>
        BY DEF Set
      <4>2. CASE t
        BY <4>1, <4>2 DEF IInv, TypeOK, CallInv, Set, Goto
      <4>3. CASE ~t
        BY <4>1, <4>3 DEF IInv, TypeOK, CallInv, Set, Goto
      <4> QED
        BY <4>2, <4>3
    <3> QED
      BY <2>1, <3>1, <3>2, <3>3 DEF Call
  <2>2. CASE Grant(c) \/ GrantFails(c)
    BY <2>2 DEF IInv, TypeOK, CallInv, Grant, GrantFails, Goto
  <2>3. CASE TxnReturns(c)
    BY <2>3 DEF IInv, TypeOK, CallInv, TxnReturns, Goto, Fail
  <2>4. CASE TxnFails(c) \/ RevokeFails(c)
    BY <2>4 DEF IInv, TypeOK, CallInv, TxnFails, RevokeFails, Goto, Fail
  <2> QED
    BY <2>1, <2>2, <2>3, <2>4 DEF CallStep
<1>4. OwnInv' /\ LeaseBinds'
  <2>1. CASE Call(c)
    <3>1. txn[c] = "none" /\ Owned(c) = {} /\ deleted[c] = {} /\ lease' = lease
      BY <2>1 DEF IInv, CallInv, OwnInv, Call, Refuse, Set, Delete
    <3>2. txn'[c] # "committed"
      BY <2>1, <3>1 DEF IInv, TypeOK, Call, Refuse, Set, Delete
    <3>3. \A d \in Calls : d # c => /\ txn'[d] = txn[d] /\ kind'[d] = kind[d]
                                    /\ ids'[d] = ids[d] /\ ttl'[d] = ttl[d]
      BY <2>1 DEF IInv, TypeOK, Call, Refuse, Set, Delete
    <3> QED
      BY <1>1, <3>1, <3>2, <3>3 DEF IInv, OwnInv, LeaseBinds
  <2>2. CASE Grant(c) \/ GrantFails(c)
    <3>1. txn[c] = "none" /\ Owned(c) = {} /\ deleted[c] = {} /\ UNCHANGED <<ids, kind, ttl>>
      BY <2>2 DEF IInv, CallInv, OwnInv, Grant, GrantFails
    <3>2. txn'[c] # "committed"
      BY <2>2, <3>1 DEF IInv, TypeOK, Grant, GrantFails
    <3>3. \A d \in Calls : d # c => txn'[d] = txn[d] /\ lease'[d] = lease[d]
      BY <2>2 DEF IInv, TypeOK, Grant, GrantFails
    <3> QED
      BY <1>1, <3>1, <3>2, <3>3 DEF IInv, OwnInv, LeaseBinds
  <2>3. CASE TxnReturns(c) \/ TxnFails(c) \/ RevokeFails(c)
    <3>1. UNCHANGED <<ids, kind, ttl, txn, lease>>
      BY <2>3 DEF TxnReturns, TxnFails, RevokeFails
    <3> QED
      BY <1>1, <3>1 DEF IInv, OwnInv, LeaseBinds
  <2> QED
    BY <2>1, <2>2, <2>3 DEF CallStep
<1> QED
  BY <1>1, <1>2, <1>3, <1>4 DEF IInv

\* The end of a lease takes what its call owns, and nothing else.
LEMMA LeaseEndKeeps ==
  ASSUME IInv, NEW c \in Calls, Revoke(c) \/ Expire(c)
  PROVE  IInv' /\ (owner' = owner \/ Atomic!Remove(Owned(c)))
<1>1. UNCHANGED <<ids, kind, ttl, txn, deleted>>
  BY DEF Revoke, Expire, callVars
<1>2. CASE lease[c] = "live"
  <2> DEFINE s == IF Revoke(c) THEN "revoked" ELSE "expired"
  <2>1. /\ lease' = [lease EXCEPT ![c] = s] /\ s \in {"revoked", "expired"}
        /\ owner' = [i \in Ids |-> IF owner[i] = c /\ ttl[c] THEN None ELSE owner[i]]
    BY <1>2 DEF Revoke, Expire, EndLease
  <2>2. s = "revoked" => ttl[c] /\ pc' = [pc EXCEPT ![c] = "failed"]
    BY DEF Revoke, Goto, IInv, CallInv
  <2>3. s = "expired" => pc' = pc
    BY DEF Expire, callVars
  <2> HIDE DEF s
  <2>4. TypeOK'
    BY <1>1, <2>1, <2>2, <2>3 DEF IInv, TypeOK
  <2>5. CallInv'
    BY <1>1, <1>2, <2>1, <2>2, <2>3 DEF IInv, TypeOK, CallInv
  <2>6. \A d \in Calls : Owned(d)' = IF d = c /\ ttl[c] THEN {} ELSE Owned(d)
    BY <2>1, CallsAssumption DEF Owned
  <2>7. OwnInv' /\ LeaseBinds'
    BY <1>1, <2>1, <2>6 DEF IInv, TypeOK, OwnInv, LeaseBinds
  <2>8. owner' = owner \/ Atomic!Remove(Owned(c))
    <3>1. CASE ttl[c]
      <4>1. \A i \in Ids : i \in Owned(c) <=> owner[i] = c
        BY DEF Owned
      <4> QED
        BY <2>1, <3>1, <4>1 DEF Atomic!Remove
    <3>2. CASE ~ttl[c]
      <4>1. owner \in [Ids -> Calls \cup {None}]
        BY DEF IInv, TypeOK
      <4> QED
        BY <2>1, <3>2, <4>1
    <3> QED
      BY <3>1, <3>2
  <2> QED
    BY <2>4, <2>5, <2>7, <2>8 DEF IInv
<1>3. CASE lease[c] # "live"
  <2>1. Revoke(c) /\ UNCHANGED <<lease, owner>> /\ pc' = [pc EXCEPT ![c] = "failed"]
        /\ ttl[c]
    BY <1>3 DEF Revoke, Expire, Goto, IInv, CallInv
  <2>2. \A d \in Calls : Owned(d)' = Owned(d)
    BY <2>1 DEF Owned
  <2>3. TypeOK'
    BY <1>1, <2>1 DEF IInv, TypeOK
  <2>4. CallInv'
    BY <1>1, <2>1 DEF IInv, TypeOK, CallInv
  <2>5. OwnInv' /\ LeaseBinds'
    BY <1>1, <2>1, <2>2 DEF IInv, OwnInv, LeaseBinds
  <2> QED
    BY <2>1, <2>3, <2>4, <2>5 DEF IInv
<1> QED
  BY <1>2, <1>3

\* A set stores all of its ids, none of which existed.
LEMMA CommitSetKeeps ==
  ASSUME IInv, NEW c \in Calls, CommitSet(c)
  PROVE  IInv' /\ Atomic!Put(ids[c], c)
<1>1. /\ UNCHANGED <<pc, ids, kind, ttl, lease, deleted>>
      /\ txn[c] = "pending" /\ kind[c] = "set"
      /\ txn' = [txn EXCEPT ![c] = "committed"]
      /\ \A i \in ids[c] : owner[i] = None
      /\ ttl[c] => lease[c] = "live"
      /\ owner' = [i \in Ids |-> IF i \in ids[c] THEN c ELSE owner[i]]
  BY DEF CommitSet, callVars
<1>2. TypeOK'
  BY <1>1 DEF IInv, TypeOK
<1>3. CallInv'
  BY <1>1 DEF IInv, TypeOK, CallInv
<1>4. Owned(c) = {} /\ deleted[c] = {}
  BY <1>1 DEF IInv, OwnInv
<1>5. Owned(c)' = ids[c]
  BY <1>1, <1>4 DEF Owned, IInv, TypeOK
<1>6. \A d \in Calls : d # c => Owned(d)' = Owned(d)
  BY <1>1, CallsAssumption DEF Owned
<1>7. OwnInv'
  BY <1>1, <1>4, <1>5, <1>6 DEF IInv, TypeOK, OwnInv
<1>8. LeaseBinds'
  BY <1>1, <1>5, <1>6 DEF IInv, TypeOK, LeaseBinds
<1> QED
  BY <1>1, <1>2, <1>3, <1>7, <1>8 DEF IInv, Atomic!Put

\* A delete removes all of its ids and records whose they were.
LEMMA CommitDeleteKeeps ==
  ASSUME IInv, NEW c \in Calls, CommitDelete(c)
  PROVE  IInv' /\ Atomic!Remove(ids[c])
<1>1. /\ UNCHANGED <<pc, ids, kind, ttl, lease>>
      /\ txn[c] = "pending" /\ kind[c] = "delete"
      /\ txn' = [txn EXCEPT ![c] = "committed"]
      /\ owner' = [i \in Ids |-> IF i \in ids[c] THEN None ELSE owner[i]]
      /\ deleted' = [d \in Calls |-> deleted[d] \cup (Owned(d) \cap ids[c])]
  BY DEF CommitDelete, callVars
<1>2. \A d \in Calls : Owned(d)' = Owned(d) \ ids[c]
  BY <1>1, CallsAssumption DEF Owned
<1>3. \A d \in Calls : Owned(d) \subseteq Ids
  BY DEF Owned
<1>4. TypeOK'
  BY <1>1, <1>3 DEF IInv, TypeOK
<1>5. CallInv'
  BY <1>1 DEF IInv, TypeOK, CallInv
<1>6. OwnInv'
  <2> SUFFICES ASSUME NEW d \in Calls
               PROVE  /\ txn'[d] # "committed" \/ kind'[d] = "delete"
                           => Owned(d)' = {} /\ deleted'[d] = {}
                      /\ txn'[d] = "committed" /\ kind'[d] = "set" =>
                           \/ Owned(d)' \cup deleted'[d] = ids'[d]
                           \/ ttl'[d] /\ lease'[d] \in {"revoked", "expired"}
    BY DEF OwnInv
  <2>1. deleted'[d] = deleted[d] \cup (Owned(d) \cap ids[c])
    BY <1>1
  <2>2. CASE d = c
    BY <1>1, <1>2, <2>1, <2>2 DEF IInv, TypeOK, OwnInv
  <2>3. CASE d # c
    <3>1. txn'[d] = txn[d]
      BY <1>1, <2>3 DEF IInv, TypeOK
    <3>2. Owned(d)' \cup deleted'[d] = Owned(d) \cup deleted[d]
      BY <1>2, <2>1
    <3> QED
      BY <1>1, <1>2, <2>1, <3>1, <3>2 DEF IInv, OwnInv
  <2> QED
    BY <2>2, <2>3
<1>7. LeaseBinds'
  BY <1>1, <1>2 DEF IInv, LeaseBinds
<1> QED
  BY <1>1, <1>4, <1>5, <1>6, <1>7 DEF IInv, Atomic!Remove

\* A transaction that is aborted changes nothing but its own state.
LEMMA AbortKeeps ==
  ASSUME IInv, NEW c \in Calls, Abort(c)
  PROVE  IInv' /\ UNCHANGED owner
<1>1. /\ UNCHANGED <<pc, ids, kind, ttl, lease, owner, deleted>>
      /\ txn[c] = "pending" /\ txn' = [txn EXCEPT ![c] = "aborted"]
      /\ \A d \in Calls : Owned(d)' = Owned(d)
  BY DEF Abort, callVars, Owned
<1>2. TypeOK'
  BY <1>1 DEF IInv, TypeOK
<1>3. CallInv'
  BY <1>1 DEF IInv, TypeOK, CallInv
<1>4. OwnInv' /\ LeaseBinds'
  BY <1>1 DEF IInv, TypeOK, OwnInv, LeaseBinds
<1> QED
  BY <1>1, <1>2, <1>3, <1>4 DEF IInv

\* Every step keeps the invariant and is one of AtomicStore, or changes nothing.
LEMMA Step == IInv /\ [Next]_vars => IInv' /\ [Atomic!Next]_owner
<1> SUFFICES ASSUME IInv, [Next]_vars PROVE IInv' /\ [Atomic!Next]_owner
  OBVIOUS
<1>1. CASE UNCHANGED vars
  BY <1>1 DEF IInv, TypeOK, CallInv, OwnInv, LeaseBinds, Owned, vars, callVars
<1>2. CASE Next
  <2> PICK c \in Calls : Call(c) \/ Proceed(c) \/ Etcd(c)
    BY <1>2 DEF Next
  <2>1. CASE CallStep(c)
    BY <2>1, CallStepKeeps
  <2>2. CASE Revoke(c) \/ Expire(c)
    <3>1. Owned(c) \in SUBSET Ids
      BY DEF Owned
    <3> QED
      BY <2>2, <3>1, LeaseEndKeeps DEF Atomic!Next
  <2>3. CASE CommitSet(c)
    <3>1. ids[c] \in SUBSET Ids
      BY DEF IInv, TypeOK
    <3> QED
      BY <2>3, <3>1, CommitSetKeeps DEF Atomic!Next
  <2>4. CASE CommitDelete(c)
    <3>1. ids[c] \in SUBSET Ids
      BY DEF IInv, TypeOK
    <3> QED
      BY <2>4, <3>1, CommitDeleteKeeps DEF Atomic!Next
  <2>5. CASE Abort(c)
    BY <2>5, AbortKeeps
  <2> QED
    BY <2>1, <2>2, <2>3, <2>4, <2>5 DEF CallStep, Proceed, Etcd
<1> QED
  BY <1>1, <1>2

-----------------------------------------------------------------------------
(* The theorems.                                                           *)

\* The inductive invariant holds in every reachable state.
THEOREM Invariance == Spec => []IInv
BY IInvInit, Step, PTL DEF Spec

\* The variables keep their types.
THEOREM TypeCorrect == Spec => []TypeOK
<1>1. IInv => TypeOK
  BY DEF IInv
<1> QED
  BY <1>1, Invariance, PTL

\* A call's secrets are there all together, but for the ones deleted by name.
THEOREM AllTogether == Spec => []AllOrNothing
<1>1. IInv => AllOrNothing
  <2> SUFFICES ASSUME IInv, NEW c \in Calls, Owned(c) # {}
               PROVE  Owned(c) \cup deleted[c] = ids[c]
    BY DEF AllOrNothing
  <2>1. txn[c] = "committed" /\ kind[c] = "set"
    BY DEF IInv, TypeOK, OwnInv
  <2>2. ttl[c] => lease[c] = "live"
    BY DEF IInv, LeaseBinds
  <2> QED
    BY <2>1, <2>2 DEF IInv, OwnInv
<1> QED
  BY <1>1, Invariance, PTL

\* What a successful call stored stays until it is deleted or expires.
THEOREM OkStays == Spec => []OkLasts
<1>1. IInv => OkLasts
  <2> SUFFICES ASSUME IInv, NEW c \in Calls, pc[c] = "ok", kind[c] = "set"
               PROVE  \/ Owned(c) \cup deleted[c] = ids[c]
                      \/ ttl[c] /\ lease[c] = "expired"
    BY DEF OkLasts
  <2>1. txn[c] = "committed" /\ lease[c] # "revoked"
    BY DEF IInv, CallInv
  <2> QED
    BY <2>1 DEF IInv, OwnInv
<1> QED
  BY <1>1, Invariance, PTL

\* A failed call whose lease was revoked owns nothing from then on.
THEOREM RevokedOwnsNothing == Spec => []RevokedLeavesNothing
<1>1. IInv => RevokedLeavesNothing
  BY DEF IInv, CallInv, LeaseBinds, RevokedLeavesNothing
<1> QED
  BY <1>1, Invariance, PTL

\* A secret with a time to live is never stored without a running lease.
THEOREM LeaseCoversSecrets == Spec => []LeaseBinds
<1>1. IInv => LeaseBinds
  BY DEF IInv
<1> QED
  BY <1>1, Invariance, PTL

\* The service implements the abstract store.
THEOREM Refinement == Spec => ImplementsAtomicStore
<1>1. Init => Atomic!Init
  BY DEF Init, Atomic!Init
<1> QED
  BY <1>1, Step, Invariance, PTL DEF Spec, ImplementsAtomicStore, Atomic!Spec
=============================================================================
