-------------------------- MODULE MCEstimatorWindow --------------------------
(* EstimatorWindow on full frames of up to 4 samples and on their parts.   *)
EXTENDS EstimatorWindow

MCSamples == -1..4
=============================================================================
