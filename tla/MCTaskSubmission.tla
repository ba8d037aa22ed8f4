-------------------------- MODULE MCTaskSubmission --------------------------
(* Instances of TaskSubmission. *)
EXTENDS TaskSubmission
=============================================================================
