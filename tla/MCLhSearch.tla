----------------------------- MODULE MCLhSearch -----------------------------
(* LhSearch on a 3 x 4 grid; floats are the even doubles, and an odd double *)
(* is rounded to the multiple of 4 next to it.                              *)
EXTENDS LhSearch

MCMinF == -3
MCValues == -4..1
MCToFloat ==
    [v \in MCValues |-> IF v % 2 = 0 THEN v ELSE IF (v + 1) % 4 = 0 THEN v + 1 ELSE v - 1]
=============================================================================
