---------------------------- MODULE AnswerPrefix ----------------------------
(***************************************************************************)
(* What the encrypted request-response exchange promises the application:  *)
(* whatever is resent, reordered or cut off on the way, what it reads is a *)
(* prefix of one answer, computed once for one of the sends.               *)
(***************************************************************************)
EXTENDS Naturals

CONSTANT Attempts    \* the sends of a request, numbered from 1

VARIABLES
  answer,     \* number of parts of the answer computed for a send, 0 before
  source,     \* the send whose answer the application reads, 0 before
  delivered,  \* number of parts it has read
  closed      \* the application has its final result

Init ==
  /\ answer = [a \in Attempts |-> 0]
  /\ source = 0
  /\ delivered = 0
  /\ closed = FALSE

Compute(a) ==
  /\ answer[a] = 0
  /\ answer'[a] \in Nat
  /\ answer' = [answer EXCEPT ![a] = answer'[a]]
  /\ UNCHANGED <<source, delivered, closed>>

Deliver(a) ==
  /\ ~closed
  /\ source \in {0, a}
  /\ delivered < answer[a]
  /\ source' = a
  /\ delivered' = delivered + 1
  /\ UNCHANGED <<answer, closed>>

Close ==
  /\ ~closed
  /\ closed' = TRUE
  /\ UNCHANGED <<answer, source, delivered>>

Next == Close \/ \E a \in Attempts : Deliver(a) \/ Compute(a)

Spec == Init /\ [][Next]_<<answer, source, delivered, closed>>
=============================================================================
