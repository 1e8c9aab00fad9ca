------------------------------- MODULE LhSearch -------------------------------
(***************************************************************************)
(* Pelengator::estimate (pelengator.cpp:57-163) with                       *)
(* Interpolator::find_minimum2d (interpolator.cpp): the minimum of the     *)
(* likelihood is searched on the grid, then among the extrema of           *)
(* paraboloids through 3 x 3 windows of the grid, and the better of the    *)
(* two starts a local search.                                              *)
(*                                                                         *)
(* Likelihoods are doubles: the members of Values, or NaN, with which      *)
(* every comparison is false.  The grid search keeps its minimum in a      *)
(* float, so it compares a double with a rounded double.  A value of the   *)
(* matrix is drawn when the scan reaches it; of the matrix the model keeps *)
(* what later steps use, its first value, and the history variable least.  *)
(*                                                                         *)
(* The local search is dlib's: it throws when the likelihood at the        *)
(* starting point is not finite, stays there when it is at most MinF, and  *)
(* else ends at a finite value; its line search does not promise descent.  *)
(*                                                                         *)
(* A definition named <Operation>_<Flaw> is Operation with a flaw; no      *)
(* specification uses it, it is there to show that a property depends on   *)
(* what Operation does.                                                    *)
(***************************************************************************)
EXTENDS Integers, Floats

CONSTANTS Rows, Cols,   \* the grid: elevations by azimuths
          Values,       \* the finite likelihoods that occur
          ToFloat,      \* ToFloat[v] is the double v rounded to float
          Err,          \* the largest rounding error
          MinF          \* the min_f of the local search

ASSUME MatrixAssumption == Rows \in Nat \ {0} /\ Cols \in Nat \ {0}
ASSUME ValuesAssumption ==
    Values \subseteq Int /\ 0 \in Values /\ NaN \notin Int /\ MinF \in Int
ASSUME RoundingAssumption ==
    /\ Err \in Nat
    /\ ToFloat \in [Values -> Values]
    /\ ToFloat[0] = 0
    /\ \A v \in Values : /\ ToFloat[ToFloat[v]] = ToFloat[v]
                         /\ ToFloat[v] <= v + Err /\ v <= ToFloat[v] + Err
    /\ \A v, w \in Values : v <= w => ToFloat[v] <= ToFloat[w]

Doubles == Values \cup {NaN}

\* a < b of IEEE 754.
Less(a, b) == a # NaN /\ b # NaN /\ a < b

Points == Rows * Cols

\* The windows of find_minimum2d: i < Rows - 2 and j < Cols - 2.
Windows == IF Rows <= 2 \/ Cols <= 2 THEN 0 ELSE (Rows - 2) * (Cols - 2)

VARIABLES
    interpolation,  \* Pelengator::interpolation
    pc,             \* where estimate() is
    seen,           \* points of the grid compared
    corner,         \* y[0][0], the first value of the matrix
    least,          \* history: the least value compared, NaN when none was one
    enumMin,        \* lh_min_enum, a float
    enumTrue,       \* the likelihood at (alpha_min_enum, betta_min_enum)
    tried,          \* windows processed
    funMin,         \* fun_min, the likelihood at arg_min
    start,          \* lh_min
    startTrue,      \* the likelihood at starting_point
    found           \* the likelihood at the returned point

scanVars   == <<seen, corner, least, enumMin, enumTrue>>
interpVars == <<tried, funMin>>
startVars  == <<start, startTrue, found>>
searchVars == <<interpolation, pc, scanVars, interpVars, startVars>>

SearchInit ==
    /\ interpolation = TRUE
    /\ pc = "idle"
    /\ seen = 0 /\ corner = NaN /\ least = NaN
    /\ enumMin = 0 /\ enumTrue = NaN
    /\ tried = 0 /\ funMin = NaN
    /\ start = 0 /\ startTrue = NaN /\ found = NaN

TurnOnInterpolation(on) ==
    /\ pc = "idle"
    /\ interpolation' = on
    /\ UNCHANGED <<pc, scanVars, interpVars, startVars>>

\* lh_min_enum = 0 at (0, 0), where the likelihood is any double.
Begin ==
    /\ pc = "idle"
    /\ pc' = "scan"
    /\ seen' = 0 /\ least' = NaN /\ enumMin' = 0
    /\ enumTrue' \in Doubles
    /\ UNCHANGED <<interpolation, corner, interpVars, startVars>>

\* lh_matrix[i][j] < lh_min_enum, and the assignments under it.
Better_Reversed(v) == Less(enumMin, v)
Better(v) == Less(v, enumMin)

Scan(v) ==
    /\ pc = "scan"
    /\ seen < Points
    /\ seen' = seen + 1
    /\ corner' = IF seen = 0 THEN v ELSE corner
    /\ least' = IF least = NaN \/ Less(v, least) THEN v ELSE least
    /\ IF Better(v)
       THEN enumMin' = ToFloat[v] /\ enumTrue' = v
       ELSE UNCHANGED <<enumMin, enumTrue>>
    /\ UNCHANGED <<interpolation, pc, interpVars, startVars>>

ScanEnd ==
    /\ pc = "scan"
    /\ seen = Points
    /\ IF interpolation
       THEN /\ pc' = "interpolate"
            /\ tried' = 0 /\ funMin' = corner
            /\ UNCHANGED startVars
       ELSE /\ pc' = "refine"
            /\ start' = enumMin /\ startTrue' = enumTrue
            /\ UNCHANGED <<interpVars, found>>
    /\ UNCHANGED <<interpolation, scanVars>>

\* A window whose extremum is out of bounds or not a paraboloid's.
WindowSkipped ==
    /\ pc = "interpolate"
    /\ tried < Windows
    /\ tried' = tried + 1
    /\ UNCHANGED <<interpolation, pc, scanVars, funMin, startVars>>

\* fun_val < fun_min
Smaller(v) == Less(v, funMin)

\* A window whose extremum passes; the likelihood there is any double.
Window(v) ==
    /\ pc = "interpolate"
    /\ tried < Windows
    /\ tried' = tried + 1
    /\ funMin' = IF Smaller(v) THEN v ELSE funMin
    /\ UNCHANGED <<interpolation, pc, scanVars, startVars>>

\* lh_min_int < lh_min_enum
TakeInterpolated_Always == TRUE
TakeInterpolated == Less(funMin, enumMin)

WindowsEnd_PointKept ==
    /\ pc = "interpolate"
    /\ tried = Windows
    /\ pc' = "refine"
    /\ start' = IF TakeInterpolated THEN funMin ELSE enumMin
    /\ startTrue' = enumTrue
    /\ UNCHANGED <<interpolation, scanVars, interpVars, found>>

WindowsEnd ==
    /\ pc = "interpolate"
    /\ tried = Windows
    /\ pc' = "refine"
    /\ IF TakeInterpolated
       THEN start' = funMin /\ startTrue' = funMin
       ELSE start' = enumMin /\ startTrue' = enumTrue
    /\ UNCHANGED <<interpolation, scanVars, interpVars, found>>

\* The local search, and the return: its point, and abs(lh_min).
Refine(v) ==
    /\ pc = "refine"
    /\ startTrue # NaN
    /\ startTrue <= MinF => v = startTrue
    /\ pc' = "idle"
    /\ found' = v
    /\ UNCHANGED <<interpolation, scanVars, interpVars, start, startTrue>>

\* dlib::error leaves estimate().
RefineThrows ==
    /\ pc = "refine"
    /\ startTrue = NaN
    /\ pc' = "thrown"
    /\ UNCHANGED <<interpolation, scanVars, interpVars, startVars>>

AfterThrow ==
    /\ pc = "thrown"
    /\ pc' = "idle"
    /\ UNCHANGED <<interpolation, scanVars, interpVars, startVars>>

SearchNext ==
    \/ \E on \in BOOLEAN : TurnOnInterpolation(on)
    \/ Begin
    \/ \E v \in Doubles : Scan(v) \/ Window(v)
    \/ ScanEnd \/ WindowSkipped \/ WindowsEnd
    \/ \E v \in Values : Refine(v)
    \/ RefineThrows \/ AfterThrow

SearchSpec == SearchInit /\ [][SearchNext]_searchVars
-----------------------------------------------------------------------------
(***************************************************************************)
(* Properties.                                                             *)
(***************************************************************************)
TypeOK ==
    /\ interpolation \in BOOLEAN
    /\ pc \in {"idle", "scan", "interpolate", "refine", "thrown"}
    /\ seen \in 0..Points /\ tried \in 0..Windows
    /\ enumMin \in Values
    /\ start \in Values
    /\ {corner, least, enumTrue, funMin, startTrue, found} \subseteq Doubles

\* Where the local search starts the likelihood is, up to the rounding of the
\* minimum to float, no greater than at any point of the grid, if it is
\* negative anywhere on the grid.  Neither a NaN in the matrix nor the order of
\* the points, nor the choice between the two searches, loses the minimum.
StartIsLeast ==
    pc = "refine" /\ Less(least, 0)
        => startTrue # NaN /\ startTrue <= least + Err

\* The third component of the estimation, abs(lh_min), is up to the rounding
\* the likelihood at the starting point, unless nothing negative was found.
ReportedIsStart ==
    pc = "refine" /\ start # 0
        => startTrue # NaN /\ startTrue - start \in -Err..Err

\* estimate() throws only if no point of the grid had a negative likelihood.
ThrowsOnlyWithoutMinimum == pc = "thrown" => ~Less(least, 0)
-----------------------------------------------------------------------------
(***************************************************************************)
(* The inductive invariant.                                                *)
(***************************************************************************)

\* The minimum of the scan and what it stands for.
ScanState ==
    /\ enumMin <= 0
    /\ ToFloat[enumMin] = enumMin
    /\ enumMin # 0 => enumTrue \in Values /\ enumMin = ToFloat[enumTrue]
    /\ least # NaN => enumMin <= least + Err
    /\ Less(least, 0) => /\ enumTrue # NaN
                         /\ enumTrue <= enumMin + Err
                         /\ enumTrue <= least + Err

\* The starting point is the scan's or a strictly better one.
StartState ==
    pc \in {"refine", "thrown"} =>
        \/ start = enumMin /\ startTrue = enumTrue
        \/ start = startTrue /\ Less(startTrue, enumMin)

IInv == TypeOK /\ ScanState /\ StartState
             /\ (pc = "thrown" => startTrue = NaN)
=============================================================================
