---------------------------- MODULE MCPelengation ----------------------------
(***************************************************************************)
(* Pelengation on a small circle.                                          *)
(***************************************************************************)
EXTENDS Pelengation

MCCarriers == {1, 4, NaN}
=============================================================================
