------------------------- MODULE MCReceivePipeline --------------------------
(* ReceivePipeline on small instances: the constants are in the cfgs.        *)
EXTENDS ReceivePipeline
=============================================================================
