------------------------------ MODULE MCWrappers ------------------------------
(***************************************************************************)
(* Wrappers of three Antennas; they are interchangeable, and so are the    *)
(* addresses.                                                              *)
(***************************************************************************)
EXTENDS Wrappers, TLC

Symmetry == Permutations(Wrappers) \cup Permutations(Addresses)
=============================================================================
