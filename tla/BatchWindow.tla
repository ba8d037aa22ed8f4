----------------------------- MODULE BatchWindow -----------------------------
(***************************************************************************)
(* What a batch of pictures promises about its tasks: they pass through a  *)
(* window of at most Width open tasks, in one direction only.  A waiting   *)
(* task is opened when there is room or closed without having been opened, *)
(* an open task is closed, and nothing is ever opened again.               *)
(***************************************************************************)
EXTENDS Naturals, FiniteSets

CONSTANTS Tasks, Width

VARIABLE phase   \* phase[t]: "waiting", "open" or "closed"

Phase(p) == {t \in Tasks : phase[t] = p}

Move(S, p) == phase' = [t \in Tasks |-> IF t \in S THEN p ELSE phase[t]]

Init ==
  /\ phase \in [Tasks -> {"waiting", "open"}]
  /\ Cardinality(Phase("open")) <= Width

Open(S) ==
  /\ S \subseteq Phase("waiting")
  /\ Cardinality(Phase("open") \cup S) <= Width
  /\ Move(S, "open")

Close(S) ==
  /\ S \subseteq Phase("waiting") \cup Phase("open")
  /\ Move(S, "closed")

Next == \E S \in SUBSET Tasks : Open(S) \/ Close(S)

Spec == Init /\ [][Next]_phase
=============================================================================
