--------------------------- MODULE EstimatorWindow ---------------------------
(***************************************************************************)
(* The estimators of a frame and the samples of it they read:              *)
(* AmpEstimator, PhaseEstimator, PseudoPhaseEstimator, DelayEstimator, and *)
(* the Pelengator with its likelihood LhPel.                               *)
(*                                                                         *)
(* An estimator is told a window of samples once and is then given frame   *)
(* after frame; the model has one estimator, of some kind.  A frame has    *)
(* `length' samples in a channel; in the band-limited mode they are the    *)
(* samples bound, bound + 1, ... of a full frame of FullLength samples.    *)
(* The model keeps what the last estimation read of a channel: `reads',    *)
(* the indices, which are in the frame if they are in 0..length - 1.       *)
(*                                                                         *)
(* A definition named <Operation>_<Flaw> is Operation with a flaw; no      *)
(* specification uses it, it is there to show that a property depends on   *)
(* what Operation does.                                                    *)
(***************************************************************************)
EXTENDS Integers

CONSTANTS Samples,      \* the numbers of samples given as a window
          Lengths,      \* the lengths of the frames
          Bounds,       \* the bounds of the frames
          FullLength,   \* sampling frequency / frequency resolution
          None          \* no grid yet

ASSUME SizesAssumption == /\ Samples \subseteq Int
                          /\ Lengths \subseteq Nat
                          /\ Bounds \subseteq Nat
                          /\ FullLength \in Nat \ {0}
                          /\ None \notin [start : Samples, stop : Samples]

VARIABLES length, bound,    \* the current frame
          kind,             \* the estimator, one of Kinds
          window,           \* its window: samp_start, samp_stop
          flat,             \* pelengator: its antenna has no height
          grid,             \* pelengator: the window its grid was made for
          setting,          \* pelengator: how the last set_signal_param ended
          last, reads       \* the last estimation, and the indices it read

frameVars == <<length, bound>>
estimatorVars == <<kind, window, flat, grid, setting>>
resultVars == <<last, reads>>
vars == <<frameVars, estimatorVars, resultVars>>

Kinds == {"amp", "phase", "pseudo", "delay", "pel"}

Window == [start : Samples, stop : Samples]

\* set_signal_param made a grid, threw for a flat antenna, or ran out of memory.
Endings == {"made", "thrown", "exhausted"}

TypeOK == /\ length \in Lengths
          /\ bound \in Bounds
          /\ kind \in Kinds
          /\ window \in Window
          /\ flat \in BOOLEAN
          /\ grid \in Window \cup {None}
          /\ setting \in Endings \cup {"none"}
          /\ last \in {"none", "done", "thrown", "undefined"}
          /\ reads \subseteq Int

InFrame(s) == s \in 0..length - 1

\* Only PseudoPhaseEstimator's constructor sets the window.
Init == /\ length \in Lengths
        /\ bound \in Bounds
        /\ kind \in Kinds
        /\ window \in Window
        /\ kind \in {"pseudo", "delay"} => window = [start |-> 0, stop |-> 0]
        /\ flat \in BOOLEAN
        /\ grid = None
        /\ setting = "none"
        /\ last = "none"
        /\ reads = {}

\* The next frame arrives: SpecFrame::resize and SpecFrameWriter::write_bound.
\* The estimator keeps its window.
NextFrame(l, b) == /\ length' = l
                   /\ bound' = b
                   /\ last' = "none"
                   /\ reads' = {}
                   /\ UNCHANGED estimatorVars

\* The estimator is given the window w; outcome is how that ends.
Give(w, g, outcome) == /\ window' = w
                       /\ grid' = g
                       /\ setting' = outcome
                       /\ last' = "none"
                       /\ reads' = {}
                       /\ UNCHANGED <<frameVars, kind, flat>>

\* AmpEstimator::set_signal_parameter swaps a window given backwards.
Ordered(a, b) == IF b < a THEN [start |-> b, stop |-> a]
                          ELSE [start |-> a, stop |-> b]

SetAmp(a, b) == kind = "amp" /\ Give(Ordered(a, b), grid, "none")

SetPhase(s) == kind = "phase" /\ Give([start |-> s, stop |-> s], grid, "none")

\* DelayEstimator inherits it.
SetPseudo(a, b) == /\ kind \in {"pseudo", "delay"}
                   /\ Give([start |-> a, stop |-> b], grid, "none")

\* generate_grid throws if the antenna is flat; otherwise it makes the grid,
\* or its loops use up the memory and it ends with std::bad_alloc.
GridEndings == IF flat THEN {"thrown"} ELSE {"made", "exhausted"}

\* coord_grid is assigned only when generate_grid returns.
Grid_Kept(w, outcome) == IF outcome = "made" /\ grid = None THEN w ELSE grid

Grid(w, outcome) == IF outcome = "made" THEN w ELSE grid

\* Pelengator::set_signal_param stores the window, then makes the grid.
SetPel(a, b) == /\ kind = "pel"
                /\ LET w == [start |-> a, stop |-> b]
                   IN \E outcome \in GridEndings : Give(w, Grid(w, outcome), outcome)

Result(outcome, indices) == /\ last' = outcome
                            /\ reads' = indices
                            /\ UNCHANGED <<frameVars, estimatorVars>>

\* The guard of AmpEstimator::estimate and PhaseEstimator::estimate.
Accepted_OneMore(start, stop) == bound <= start /\ stop <= bound + length + 1

Accepted(start, stop) == bound <= start /\ stop <= bound + length

EstimateAmp ==
    /\ kind = "amp"
    /\ \/ /\ Accepted(window.start, window.stop)
          /\ Result("done", window.start..window.stop - 1)
       \/ /\ ~Accepted(window.start, window.stop)
          /\ Result("thrown", {})

EstimatePhase ==
    /\ kind = "phase"
    /\ \/ /\ Accepted(window.start, window.start)
          /\ Result("done", {window.start})
       \/ /\ ~Accepted(window.start, window.start)
          /\ Result("thrown", {})

\* PseudoPhaseEstimator::estimate, without a guard, and DelayEstimator's,
\* which calls it.
EstimatePseudo == /\ kind \in {"pseudo", "delay"}
                  /\ Result("done", window.start..window.stop)

\* C++ division rounds towards zero.
Half(n) == IF n >= 0 THEN n \div 2 ELSE - ((- n) \div 2)

\* PseudoPhaseEstimator conjugates the product of a window in the lower half.
UpperHalf == window.start >= Half(FullLength)

CarrierSample_FullLength == Half(window.stop + window.start) + bound - FullLength

\* DelayEstimator: the sample of the carrier, counted from the receiver's
\* frequency, at the middle of the window.
CarrierSample == Half(window.stop + window.start) + bound - Half(FullLength)

\* LhPel::LhPel limits the window to the frame, from above only.
Clamp_Length(s) == IF s >= length THEN length ELSE s

Clamp(s) == IF s >= length THEN length - 1 ELSE s

\* Pelengator::estimate reads coord_grid[0], which needs a grid.
EstimatePel ==
    /\ kind = "pel"
    /\ \/ grid # None /\ Result("done", Clamp(window.start)..Clamp(window.stop))
       \/ grid = None /\ Result("undefined", {})

Next == \/ \E l \in Lengths, b \in Bounds : NextFrame(l, b)
        \/ \E a, b \in Samples : SetAmp(a, b) \/ SetPseudo(a, b) \/ SetPel(a, b)
        \/ \E s \in Samples : SetPhase(s)
        \/ EstimateAmp
        \/ EstimatePhase
        \/ EstimatePseudo
        \/ EstimatePel

Spec == Init /\ [][Next]_vars
-----------------------------------------------------------------------------
(***************************************************************************)
(* Properties.                                                             *)
(***************************************************************************)

\* On full frames the guard of AmpEstimator::estimate is sufficient: whatever
\* the window was when it was set, or if it never was, and however the length
\* of the frames changed since, no sample outside the frame is read.
AmpInFullFrame ==
    kind = "amp" /\ bound = 0 => \A s \in reads : InFrame(s)

\* LhPel's limits are sufficient for a window that starts at 0 or later, on
\* frames that have samples, though they were set before the frame came.
PelInFrame ==
    kind = "pel" /\ length > 0 /\ window.start >= 0 => \A s \in reads : InFrame(s)

\* Pelengator::set_signal_param stores the window before it makes the grid, and
\* the making can fail.  A grid made for another window than the one in use is
\* there only after a set_signal_param that ran out of memory, never after one
\* that threw because the antenna is flat.
GridFollowsWindow == grid \notin {None, window} => setting = "exhausted"

\* Two estimators decide on which side of the receiver's frequency a window
\* lies, one by the start of the window and the other by its middle.  On full
\* frames they agree about every window that is on one side.
SidesAgree ==
    bound = 0 /\ window.start <= window.stop =>
        /\ UpperHalf => CarrierSample >= 0
        /\ ~UpperHalf /\ window.stop < Half(FullLength) => CarrierSample < 0
=============================================================================
