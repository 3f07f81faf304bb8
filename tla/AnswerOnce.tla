------------------------------ MODULE AnswerOnce ------------------------------
(***************************************************************************)
(* What VTAPIService promises who sends it a request: one answer, good or  *)
(* bad, or none at all when the request was taken back; and one of the two *)
(* in the end.                                                             *)
(***************************************************************************)
EXTENDS Naturals

CONSTANT MaxRequests

VARIABLE state       (* state[r]: what became of request r                 *)

Init == state = [r \in 1..MaxRequests |-> "unasked"]

Ask(r) ==
    /\ state[r] = "unasked"
    /\ state' = [state EXCEPT ![r] = "open"]

Tell(r) ==
    /\ state[r] = "open"
    /\ state' = [state EXCEPT ![r] = "told"]

\* A caller, or a screen that closes, takes back what it still waits for.
TakeBack(rs) ==
    /\ rs # {} /\ \A r \in rs : state[r] = "open"
    /\ state' = [r \in 1..MaxRequests |-> IF r \in rs THEN "taken back" ELSE state[r]]

Next ==
    \/ \E r \in 1..MaxRequests : Ask(r) \/ Tell(r)
    \/ \E rs \in SUBSET (1..MaxRequests) : TakeBack(rs)

Spec == Init /\ [][Next]_state

FairSpec == Spec /\ \A r \in 1..MaxRequests : WF_state(Tell(r))
=============================================================================
