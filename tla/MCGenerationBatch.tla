------------------------- MODULE MCGenerationBatch -------------------------
(* Model checking of GenerationBatch; the constants are given in the cfgs. *)
EXTENDS GenerationBatch
=============================================================================
