------------------------------ MODULE Minimiser ------------------------------
(***************************************************************************)
(* What Pelengator::estimate counts on when it calls dlib's local search   *)
(* (pelengator.cpp:150-152), and what LhSearch takes of it: a search that  *)
(* ends, ends at a finite value and does not leave a point that is good    *)
(* enough, and that throws only if the objective is not finite everywhere. *)
(***************************************************************************)
EXTENDS Integers

CONSTANTS Values, NaN, MinF

VARIABLES total,    \* the objective is finite wherever it is evaluated
          outcome,  \* "running", "found" or "thrown"
          value     \* the objective at the point the search is at

searchVars == <<total, outcome, value>>

Init == /\ total \in BOOLEAN
        /\ outcome = "running"
        /\ value \in IF total THEN Values ELSE Values \cup {NaN}

Move(v) == /\ outcome = "running"
           /\ IF value = NaN THEN ~total ELSE value > MinF
           /\ v \in Values \/ ~total
           /\ value' = v
           /\ UNCHANGED <<total, outcome>>

End == /\ outcome = "running"
       /\ value \in Values \/ ~total
       /\ outcome' = "found"
       /\ UNCHANGED <<total, value>>

Throw == /\ outcome = "running" /\ ~total
         /\ outcome' = "thrown"
         /\ UNCHANGED <<total, value>>

Next == (\E v \in Values \cup {NaN} : Move(v)) \/ End \/ Throw

Spec == Init /\ [][Next]_searchVars
=============================================================================
