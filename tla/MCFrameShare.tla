---------------------------- MODULE MCFrameShare ----------------------------
(* FrameShare on small instances: threads and frames are model values, and *)
(* interchangeable where no liveness is checked.                           *)
EXTENDS FrameShare, TLC

Symmetry == Permutations(Threads) \cup Permutations(Frames)
=============================================================================
