----------------------------- MODULE AtomicStore -----------------------------
(***************************************************************************)
(* What the secret service promises of the inference secrets, and what the *)
(* inference-proxy's copy of them is built on: secrets are stored all at   *)
(* once or not at all, a stored secret is never replaced by another one,   *)
(* and the secrets that go, go together.                                   *)
(***************************************************************************)
CONSTANTS
  Ids,      \* ids of secrets
  Values,   \* the secrets
  None      \* nothing is stored under an id

VARIABLE content

Init == content \in [Ids -> Values \cup {None}]

Put(S, v) ==
  /\ \A i \in S : content[i] = None
  /\ content' = [i \in Ids |-> IF i \in S THEN v ELSE content[i]]

Remove(S) == content' = [i \in Ids |-> IF i \in S THEN None ELSE content[i]]

Next == \E S \in SUBSET Ids : Remove(S) \/ \E v \in Values : Put(S, v)

Spec == Init /\ [][Next]_content
=============================================================================
