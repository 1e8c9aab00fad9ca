------------------------------ MODULE SearchGrid ------------------------------
(***************************************************************************)
(* The grid of directions that the Pelengator searches:                    *)
(* Pelengator::set_signal_param and generate_grid (gridpel.cpp).           *)
(*                                                                         *)
(* Angles are integers, in units of the spacing of floats at the largest   *)
(* angle, so a step below one unit is 0: added to an angle it is lost.     *)
(* A step may also be negative, infinite, or NaN.  Each push_back takes a  *)
(* unit of memory, and std::bad_alloc ends a loop that nothing else ends.  *)
(*                                                                         *)
(* A definition named <Operation>_<Flaw> is Operation with a flaw; no      *)
(* specification uses it, it is there to show that a property depends on   *)
(* what Operation does.                                                    *)
(***************************************************************************)
EXTENDS Integers, Sequences, Floats

CONSTANTS Carriers,     \* frequencies given to set_signal_param, or NaN
          Samples,      \* samples given to it
          Resolution,   \* frequency_resolution, an even number
          Extents,      \* x_max - x_min and z_max - z_min of an antenna
          Speed,        \* 3e8 / 2 / 3
          Circle,       \* 2 pi
          Memory,       \* the push_backs that the memory admits
          Inf

Quarter == Circle \div 4

ASSUME GridAssumption ==
    /\ Carriers \subseteq Nat \cup {NaN} /\ Samples \subseteq Int
    /\ Resolution \in Nat /\ Resolution % 2 = 0
    /\ Extents \subseteq Nat /\ Speed \in Nat
    /\ Circle \in Nat \ {0} /\ Circle % 4 = 0
    /\ Inf \notin Int /\ NaN \notin Int /\ Inf # NaN

\* The largest grid of a step of one unit fits.
ASSUME MemoryAssumption ==
    Memory \in Nat /\ Memory >= (2 * Quarter + 1) * (Circle + 4)

VARIABLES
    gridAt,                 \* "idle", or the loop: "betta" or "alpha"
    f_max,
    alpha_step, betta_step,
    rows,                   \* alpha_grid and betta_grid, as one
    row,                    \* alpha_vec; betta_vec holds b throughout
    b, a,                   \* the loop variables
    used,                   \* push_backs so far
    coord_grid,             \* Pelengator::coord_grid
    setting                 \* how the last set_signal_param ended

loopVars == <<rows, row, b, a, used>>
gridVars == <<gridAt, f_max, alpha_step, betta_step, loopVars, coord_grid, setting>>

\* C++ division rounds towards zero.
Half(n) == IF n >= 0 THEN n \div 2 ELSE - ((- n) \div 2)
Quotient(n, d) == IF d > 0 THEN n \div d ELSE - (n \div (- d))

\* carrier + df/2; the difference of the samples is halved as an integer, and is
\* negative for a window given forwards.
FMax(carrier, start, stop) ==
    IF carrier = NaN THEN NaN
    ELSE carrier + Half(start - stop) * (Resolution \div 2)

\* A third of the width of the beam.  A zero divides as in IEEE 754; the
\* negative infinity of a negative frequency and no extent lets the loop make as
\* many columns as a NaN does, none.
StepFor(f, extent) ==
    CASE f = NaN -> NaN
      [] f # NaN /\ f # 0 /\ extent # 0 -> Quotient(Speed, f * extent)
      [] f = 0 -> Inf
      [] OTHER -> IF f > 0 THEN Inf ELSE NaN

GridInit == /\ gridAt = "idle"
            /\ f_max = 0 /\ alpha_step = 0 /\ betta_step = 0
            /\ rows = <<>> /\ row = <<>> /\ b = 0 /\ a = 0 /\ used = 0
            /\ coord_grid = <<>>
            /\ setting = "none"

\* set_signal_param(carrier, start, stop) for an antenna of these extents, up to
\* the loops.
SetSignalParam(carrier, start, stop, xExtent, zExtent) ==
    /\ gridAt = "idle"
    /\ f_max' = FMax(carrier, start, stop)
    /\ alpha_step' = StepFor(f_max', xExtent)
    /\ betta_step' = StepFor(f_max', zExtent)
    /\ \/ /\ zExtent = 0
          /\ setting' = "thrown"
          /\ UNCHANGED <<gridAt, loopVars>>
       \/ /\ zExtent # 0
          /\ gridAt' = "betta"
          /\ b' = - Quarter
          /\ rows' = <<>> /\ used' = 0
          /\ setting' = "none"
          /\ UNCHANGED <<row, a>>
    /\ UNCHANGED coord_grid

\* a += step: past every bound when the step is infinite, and past no test when
\* it is NaN, which ends the loop too.
Advance_Absorbed(x, step) == x
Advance(x, step) == IF step \in {Inf, NaN} THEN NaN ELSE x + step

\* The test of a loop.  The first azimuth of an infinite step is -Inf.
Within(x, stop) == x = Inf \/ ({x, stop} \subseteq Int /\ x <= stop)

AlphaStart_Zero == IF alpha_step \in {Inf, NaN} THEN alpha_step ELSE 0
AlphaStart == IF alpha_step \in {Inf, NaN} THEN alpha_step ELSE 0 - alpha_step
AlphaStop == IF alpha_step \in {Inf, NaN} THEN Circle ELSE Circle + alpha_step

\* The variables of generate_grid end with it.
LeaveLoops == rows' = <<>> /\ row' = <<>> /\ b' = 0 /\ a' = 0 /\ used' = 0

\* std::bad_alloc: set_signal_param is left, coord_grid is what it was.
Exhausted == /\ used = Memory
             /\ gridAt' = "idle" /\ setting' = "exhausted"
             /\ LeaveLoops
             /\ UNCHANGED coord_grid

NextRow == /\ gridAt = "betta"
           /\ Within(b, Quarter)
           /\ gridAt' = "alpha"
           /\ row' = <<>>
           /\ a' = AlphaStart
           /\ UNCHANGED <<f_max, alpha_step, betta_step, rows, b, used,
                          coord_grid, setting>>

NextColumn ==
    /\ gridAt = "alpha"
    /\ Within(a, AlphaStop)
    /\ \/ Exhausted
       \/ /\ used < Memory
          /\ row' = Append(row, a)
          /\ used' = used + 1
          /\ a' = Advance(a, alpha_step)
          /\ UNCHANGED <<gridAt, rows, b, coord_grid, setting>>
    /\ UNCHANGED <<f_max, alpha_step, betta_step>>

EndRow ==
    /\ gridAt = "alpha"
    /\ ~Within(a, AlphaStop)
    /\ \/ Exhausted
       \/ /\ used < Memory
          /\ rows' = Append(rows, [betta |-> b, alphas |-> row])
          /\ used' = used + 1
          /\ b' = Advance(b, betta_step)
          /\ gridAt' = "betta"
          /\ row' = <<>> /\ a' = 0
          /\ UNCHANGED <<coord_grid, setting>>
    /\ UNCHANGED <<f_max, alpha_step, betta_step>>

GridMade == /\ gridAt = "betta"
            /\ ~Within(b, Quarter)
            /\ gridAt' = "idle"
            /\ coord_grid' = rows
            /\ setting' = "made"
            /\ LeaveLoops
            /\ UNCHANGED <<f_max, alpha_step, betta_step>>

GridStep == NextRow \/ NextColumn \/ EndRow \/ GridMade
-----------------------------------------------------------------------------
(***************************************************************************)
(* Properties.                                                             *)
(***************************************************************************)

\* The steps are numbers that move an angle forwards.
Proper == /\ {alpha_step, betta_step} \cap {Inf, NaN} = {}
          /\ alpha_step > 0 /\ betta_step > 0

\* The loops of generate_grid end by their own tests whenever the frequency and
\* the extents give steps that are not lost in rounding: only then can
\* set_signal_param run until the memory is full.
EndlessOnlyByStep == setting = "exhausted" => ~Proper

\* The grid can be indexed as the searches do, by the number of its rows and the
\* length of the first.  With a frequency that is a number, and not negative, it
\* has a point.  With proper steps no direction is further than a step from a
\* point of it, and the azimuths between the second and the last but one column,
\* where the Interpolator takes its extrema, miss less than a step of the circle.
GridSound ==
    /\ \A r \in 1..Len(coord_grid) :
          Len(coord_grid[r].alphas) = Len(coord_grid[1].alphas)
    /\ setting = "made" /\ f_max # NaN /\ f_max >= 0 =>
          Len(coord_grid) > 0 /\ Len(coord_grid[1].alphas) > 0
    /\ setting = "made" /\ Proper =>
          /\ \A el \in - Quarter..Quarter : \E r \in 1..Len(coord_grid) :
                el - coord_grid[r].betta \in 0..betta_step - 1
          /\ LET alphas == coord_grid[1].alphas
             IN  /\ \A az \in 0..Circle : \E c \in 1..Len(alphas) :
                       az - alphas[c] \in 0..alpha_step - 1
                 /\ alphas[2] <= 0
                 /\ alphas[Len(alphas) - 1] > Circle - alpha_step
=============================================================================
