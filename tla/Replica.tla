------------------------------ MODULE Replica ------------------------------
(***************************************************************************)
(* What the outbox promises, without events, numbers or dates: a copy of   *)
(* the holdings that knows some of the rows, never forgets one, learns of  *)
(* every change in the step that makes it, and is never wrong about a row  *)
(* it knows.                                                               *)
(***************************************************************************)
CONSTANTS Keys, NoRow

VARIABLES
    truth,  \* the holdings: key -> row or NoRow
    known,  \* the keys the copy has been told about
    copy    \* the copy: key -> row or NoRow

Init ==
    /\ known = {}
    /\ copy = [k \in Keys |-> NoRow]

\* The rows of K change or are described anew.
Publish(K) ==
    /\ \A k \in Keys \ K : truth'[k] = truth[k]
    /\ known' = known \cup K
    /\ copy' = [k \in Keys |-> IF k \in known' THEN truth'[k] ELSE NoRow]

Next == \E K \in SUBSET Keys : Publish(K)

Spec == Init /\ [][Next]_<<truth, known, copy>>
=============================================================================
