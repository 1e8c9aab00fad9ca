----------------------------- MODULE Pelengation -----------------------------
(***************************************************************************)
(* From the settings of a Pelengator to a position: set_signal_param makes *)
(* the grid (SearchGrid), estimate() builds an LhPel (Pairs) and evaluates *)
(* it at each point of the grid, and the Triangulator takes the bearings   *)
(* of several posts (Pairs).  The parts are called one after the other by  *)
(* one thread.  The search of the least likelihood is LhSearch.            *)
(*                                                                         *)
(* estimate() on a grid without points indexes what is not there; nothing  *)
(* is said about it, and it is not a step here.                            *)
(***************************************************************************)
EXTENDS SearchGrid, Pairs

VARIABLE bearings      \* the bearings the posts have sent

vars == <<gridVars, pairVars, bearings>>

Init == GridInit /\ PairsInit /\ bearings = 0

Idle == gridAt = "idle" /\ pairsAt = "idle"

SetParam(carrier, start, stop, xExtent, zExtent) ==
    /\ Idle
    /\ SetSignalParam(carrier, start, stop, xExtent, zExtent)
    /\ UNCHANGED <<pairVars, bearings>>

MakeGrid == GridStep /\ UNCHANGED <<pairVars, bearings>>

\* estimate() of an antenna of k elements, its LhPel.
Estimate(k) == /\ Idle
               /\ coord_grid # <<>> /\ coord_grid[1].alphas # <<>>
               /\ BeginElements(k)
               /\ UNCHANGED <<gridVars, bearings>>

\* The rest of estimate() gives a bearing, or throws in its search.
Estimated == /\ EndElements
             /\ bearings' \in {bearings, bearings + 1} \cap 0..MaxBearings
             /\ UNCHANGED gridVars

LoopPairs == /\ Body \/ NextOuter \/ EndVertices
             /\ UNCHANGED <<gridVars, bearings>>

\* Any number of the bearings may be of the same time.
Triangulate(k) == /\ Idle
                  /\ k <= bearings
                  /\ BeginVertices(k)
                  /\ UNCHANGED <<gridVars, bearings>>

Work == MakeGrid \/ LoopPairs \/ Estimated

Next == \/ \E carrier \in Carriers, start, stop \in Samples, x, z \in Extents :
              SetParam(carrier, start, stop, x, z)
        \/ \E k \in 1..MaxElements : Estimate(k)
        \/ \E k \in 0..MaxBearings : Triangulate(k)
        \/ Work

\* A loop that was entered goes on.
Spec == Init /\ [][Next]_vars /\ WF_vars(Work)
=============================================================================
