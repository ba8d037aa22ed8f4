--------------------------- MODULE MCImageUpscale ---------------------------
(* One place, with and without room to wait.                               *)
EXTENDS ImageUpscale

QueueLimits == [concurrency : {1}, pending : {0, 1}]
=============================================================================
