-------------------------- MODULE MCTaskLifecycle --------------------------
(* Model-checking instances of TaskLifecycle.                              *)
EXTENDS TaskLifecycle, TLC

(* Workers are interchangeable. *)
WorkerSymmetry == Permutations(Workers)
=============================================================================
