---------------------------- MODULE MCLocalSearch ----------------------------
(* LocalSearch with five values of the objective.                          *)
EXTENDS LocalSearch

MCValues == -3..1
MCMinF == -3
=============================================================================
