-------------------------- MODULE MCSiteSelection --------------------------
(* Two tasks on two processes; two sites with a limit and one without. *)
EXTENDS SiteSelection, TLC
CONSTANTS p1, p2, t1, t2, s1, s2, s3

MCOwner == t1 :> p1 @@ t2 :> p2
MCAllowed == s1 :> 1 @@ s2 :> 1 @@ s3 :> 0
============================================================================
