----------------------------- MODULE Settlement -----------------------------
(***************************************************************************)
(* What the platform promises about the price of a generation task: it is  *)
(* charged when the task is created, and then held until the task either   *)
(* earns it with a result or returns it.  That happens exactly once, is    *)
(* never revised, and is not put off for ever.                             *)
(***************************************************************************)
VARIABLE charge   \* "held", "earned" or "returned"

Init == charge = "held"

Earn   == charge = "held" /\ charge' = "earned"
Return == charge = "held" /\ charge' = "returned"

Next == Earn \/ Return

(* Safety alone: the part that holds without any fairness. *)
SafeSpec == Init /\ [][Next]_charge

Spec == SafeSpec /\ WF_charge(Next)
=============================================================================
