------------------------------- MODULE Floats -------------------------------
(***************************************************************************)
(* NaN of IEEE 754, with which no comparison holds.  The modules that use  *)
(* it say what else a double can be, and assume that NaN is none of that.  *)
(***************************************************************************)
CONSTANT NaN
=============================================================================
