----------------------------- MODULE MCFrameUse -----------------------------
(* FrameUse with two frames of at most 2 channels and two threads.         *)
EXTENDS FrameUse, TLC

Symmetry == Permutations(Objects) \cup Permutations(Blocks)
              \cup Permutations(Threads)
=============================================================================
