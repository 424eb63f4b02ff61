----------------------------- MODULE SecretStore -----------------------------
(***************************************************************************)
(* SetSecrets and DeleteSecrets of the secret service                      *)
(* (secret-service/internal/etcd) and the two gRPC handlers that call them *)
(* (internal/userapi): a lease, one transaction, and the revocation of the *)
(* lease when the call fails.                                              *)
(*                                                                         *)
(* etcd answers through a context that the client may cancel, so a call    *)
(* may fail although its transaction was, or still will be, committed.     *)
(***************************************************************************)
EXTENDS Naturals

CONSTANTS
  Ids,     \* ids of inference secrets
  Calls,   \* calls of the service; each is made once and owns what it stores
  None     \* no secret

ASSUME CallsAssumption == None \notin Calls

VARIABLES
  pc,      \* state of a call
  ids,     \* the ids it names
  kind,    \* "set" or "delete"
  ttl,     \* a set with a time to live
  txn,     \* state of its transaction in etcd
  lease,   \* state of its lease in etcd
  owner,   \* content of etcd: the call that stored the id's secret
  deleted  \* history: secrets of the call that a delete has removed

callVars == <<pc, ids, kind, ttl>>
vars == <<callVars, txn, lease, owner, deleted>>

Owned(c) == {i \in Ids : owner[i] = c}

Init ==
  /\ pc = [c \in Calls |-> "idle"]
  /\ ids = [c \in Calls |-> {}]
  /\ kind = [c \in Calls |-> "set"]
  /\ ttl = [c \in Calls |-> FALSE]
  /\ txn = [c \in Calls |-> "none"]
  /\ lease = [c \in Calls |-> "none"]
  /\ owner = [i \in Ids |-> None]
  /\ deleted = [c \in Calls |-> {}]

Goto(c, s) == pc' = [pc EXCEPT ![c] = s]

-----------------------------------------------------------------------------
(* The caller's side.                                                      *)

\* userapi.SetSecrets refuses secrets of a wrong length.
Refuse(c) ==
  /\ pc[c] = "idle"
  /\ Goto(c, "failed")
  /\ UNCHANGED <<ids, kind, ttl, txn, lease, owner, deleted>>

\* SetSecrets from the API, or from ExchangeSecret: one id and a lease.  With
\* no time to live (zero, or negative) there is no lease.
Set(c, S, t) ==
  /\ pc[c] = "idle"
  /\ ids' = [ids EXCEPT ![c] = S]
  /\ ttl' = [ttl EXCEPT ![c] = t]
  /\ IF t
     THEN Goto(c, "grant") /\ UNCHANGED txn
     ELSE Goto(c, "txn") /\ txn' = [txn EXCEPT ![c] = "pending"]
  /\ UNCHANGED <<kind, lease, owner, deleted>>

Delete(c, S) ==
  /\ pc[c] = "idle"
  /\ ids' = [ids EXCEPT ![c] = S]
  /\ kind' = [kind EXCEPT ![c] = "delete"]
  /\ Goto(c, "txn")
  /\ txn' = [txn EXCEPT ![c] = "pending"]
  /\ UNCHANGED <<ttl, lease, owner, deleted>>

Grant(c) ==
  /\ pc[c] = "grant"
  /\ lease' = [lease EXCEPT ![c] = "live"]
  /\ Goto(c, "txn")
  /\ txn' = [txn EXCEPT ![c] = "pending"]
  /\ UNCHANGED <<ids, kind, ttl, owner, deleted>>

\* The lease may exist although its grant failed; nothing is attached to it.
GrantFails(c) ==
  /\ pc[c] = "grant"
  /\ lease' \in {lease, [lease EXCEPT ![c] = "live"]}
  /\ Goto(c, "failed")
  /\ UNCHANGED <<ids, kind, ttl, txn, owner, deleted>>

\* An error returns through the deferred function that revokes the lease.
Fail(c) == Goto(c, IF ttl[c] THEN "revoke" ELSE "failed")

\* Fault: resp.Succeeded is not looked at.
TxnReturnsUnchecked(c) ==
  /\ pc[c] = "txn" /\ txn[c] # "pending"
  /\ Goto(c, "ok")
  /\ UNCHANGED <<ids, kind, ttl, txn, lease, owner, deleted>>

TxnReturns(c) ==
  /\ pc[c] = "txn" /\ txn[c] # "pending"
  /\ IF txn[c] = "committed" THEN Goto(c, "ok") ELSE Fail(c)
  /\ UNCHANGED <<ids, kind, ttl, txn, lease, owner, deleted>>

\* The context is done, or etcd has no leader or times out, wherever the
\* transaction is.
TxnFails(c) ==
  /\ pc[c] = "txn"
  /\ Fail(c)
  /\ UNCHANGED <<ids, kind, ttl, txn, lease, owner, deleted>>

\* A lease ends: etcd deletes the keys attached to it.
EndLease(c, s) ==
  /\ lease' = [lease EXCEPT ![c] = s]
  /\ owner' = [i \in Ids |-> IF owner[i] = c /\ ttl[c] THEN None ELSE owner[i]]

\* The lease exists still, or has expired by now.
Revoke(c) ==
  /\ pc[c] = "revoke"
  /\ IF lease[c] = "live" THEN EndLease(c, "revoked") ELSE UNCHANGED <<lease, owner>>
  /\ Goto(c, "failed")
  /\ UNCHANGED <<ids, kind, ttl, txn, deleted>>

\* Only a warning is logged.
RevokeFails(c) ==
  /\ pc[c] = "revoke"
  /\ Goto(c, "failed")
  /\ UNCHANGED <<ids, kind, ttl, txn, lease, owner, deleted>>

-----------------------------------------------------------------------------
(* etcd: transactions commit one at a time, whether or not their caller is *)
(* still waiting, and leases expire.                                       *)

\* Fault: the transaction has no compares.
CommitSetOverwrites(c) ==
  /\ txn[c] = "pending" /\ kind[c] = "set"
  /\ ttl[c] => lease[c] = "live"
  /\ owner' = [i \in Ids |-> IF i \in ids[c] THEN c ELSE owner[i]]
  /\ txn' = [txn EXCEPT ![c] = "committed"]
  /\ UNCHANGED <<callVars, lease, deleted>>

\* Fault: the puts do not name the lease.
CommitSetUnleased(c) ==
  /\ txn[c] = "pending" /\ kind[c] = "set"
  /\ \A i \in ids[c] : owner[i] = None
  /\ owner' = [i \in Ids |-> IF i \in ids[c] THEN c ELSE owner[i]]
  /\ txn' = [txn EXCEPT ![c] = "committed"]
  /\ UNCHANGED <<callVars, lease, deleted>>

\* No id exists: all are put, attached to the lease.
CommitSet(c) ==
  /\ txn[c] = "pending" /\ kind[c] = "set"
  /\ \A i \in ids[c] : owner[i] = None
  /\ ttl[c] => lease[c] = "live"
  /\ owner' = [i \in Ids |-> IF i \in ids[c] THEN c ELSE owner[i]]
  /\ txn' = [txn EXCEPT ![c] = "committed"]
  /\ UNCHANGED <<callVars, lease, deleted>>

\* All ids exist: all are deleted.
CommitDelete(c) ==
  /\ txn[c] = "pending" /\ kind[c] = "delete"
  /\ \A i \in ids[c] : owner[i] # None
  /\ owner' = [i \in Ids |-> IF i \in ids[c] THEN None ELSE owner[i]]
  /\ deleted' = [d \in Calls |-> deleted[d] \cup (Owned(d) \cap ids[c])]
  /\ txn' = [txn EXCEPT ![c] = "committed"]
  /\ UNCHANGED <<callVars, lease>>

\* A compare does not hold, or the lease is gone.
Abort(c) ==
  /\ txn[c] = "pending"
  /\ \/ kind[c] = "set" /\ \E i \in ids[c] : owner[i] # None
     \/ kind[c] = "set" /\ ttl[c] /\ lease[c] # "live"
     \/ kind[c] = "delete" /\ \E i \in ids[c] : owner[i] = None
  /\ txn' = [txn EXCEPT ![c] = "aborted"]
  /\ UNCHANGED <<callVars, lease, owner, deleted>>

Expire(c) ==
  /\ lease[c] = "live"
  /\ EndLease(c, "expired")
  /\ UNCHANGED <<callVars, txn, deleted>>

-----------------------------------------------------------------------------
Call(c) ==
  \/ Refuse(c)
  \/ \E S \in SUBSET Ids : Delete(c, S) \/ \E t \in BOOLEAN : Set(c, S, t)

Proceed(c) ==
  \/ Grant(c) \/ GrantFails(c) \/ TxnReturns(c) \/ TxnFails(c)
  \/ Revoke(c) \/ RevokeFails(c)

Etcd(c) == CommitSet(c) \/ CommitDelete(c) \/ Abort(c) \/ Expire(c)

Next == \E c \in Calls : Call(c) \/ Proceed(c) \/ Etcd(c)

Spec == Init /\ [][Next]_vars

-----------------------------------------------------------------------------
(* Properties.                                                             *)

\* Every variable keeps its type.
TypeOK ==
  /\ pc \in [Calls -> {"idle", "grant", "txn", "revoke", "ok", "failed"}]
  /\ ids \in [Calls -> SUBSET Ids]
  /\ kind \in [Calls -> {"set", "delete"}]
  /\ ttl \in [Calls -> BOOLEAN]
  /\ txn \in [Calls -> {"none", "pending", "committed", "aborted"}]
  /\ lease \in [Calls -> {"none", "live", "revoked", "expired"}]
  /\ owner \in [Ids -> Calls \cup {None}]
  /\ deleted \in [Calls -> SUBSET Ids]

\* "The operation will either succeed for all, or fail for all": as long as
\* one secret of a call is there, all of them are, but for those a delete has
\* named since.
AllOrNothing ==
  \A c \in Calls : Owned(c) # {} => Owned(c) \cup deleted[c] = ids[c]

\* A call that answered ok has stored its secrets, and only a delete or the
\* expiry of its lease takes them away again.
OkLasts ==
  \A c \in Calls : pc[c] = "ok" /\ kind[c] = "set" =>
    \/ Owned(c) \cup deleted[c] = ids[c]
    \/ ttl[c] /\ lease[c] = "expired"

\* A call that failed and could revoke its lease leaves nothing behind, not
\* even when its transaction reaches etcd only afterwards.
RevokedLeavesNothing ==
  \A c \in Calls : lease[c] = "revoked" => pc[c] = "failed" /\ Owned(c) = {}

\* A secret with a time to live is attached to a lease that still runs, so it
\* goes away, whatever became of its call.
LeaseBinds ==
  \A c \in Calls : ttl[c] /\ Owned(c) # {} => lease[c] = "live"

\* etcd's content changes only as AtomicStore allows: no id is overwritten.
Atomic == INSTANCE AtomicStore WITH Values <- Calls, content <- owner
ImplementsAtomicStore == Atomic!Spec
=============================================================================
