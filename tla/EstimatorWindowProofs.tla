----------------------- MODULE EstimatorWindowProofs -----------------------
(***************************************************************************)
(* Proofs about EstimatorWindow, for all windows, lengths and bounds.      *)
(*                                                                         *)
(* IInv is TypeOK, what the last estimation may have read, and why a grid  *)
(* agrees with the window unless memory ran out: the antenna of a          *)
(* pelengator does not change, so for a flat one set_signal_param threw    *)
(* whenever it was called and there is no grid that could be stale, and    *)
(* for another it never throws.  A new frame or window empties `reads',    *)
(* and an estimation fills it under its own guard, so the properties about *)
(* reads are inductive.                                                    *)
(***************************************************************************)
EXTENDS EstimatorWindow, TLAPS

\* Only a pelengator has a grid.
GridIsPels == kind # "pel" => grid = None

\* A flat antenna's grid was never made.
NoGridIfFlat == flat => grid = None

IInv == /\ TypeOK
        /\ AmpInFullFrame
        /\ PelInFrame
        /\ GridFollowsWindow
        /\ GridIsPels
        /\ NoGridIfFlat

LEMMA InitInvariant == Init => IInv
<1> SUFFICES ASSUME Init PROVE IInv
  OBVIOUS
<1>1. TypeOK
  BY SizesAssumption DEF Init, TypeOK
<1> QED
  BY <1>1 DEF Init, IInv, AmpInFullFrame, PelInFrame, GridFollowsWindow, GridIsPels, NoGridIfFlat

\* The results of an estimation leave the frame and the estimator alone.
LEMMA ResultKeeps ==
    ASSUME IInv, NEW outcome \in {"done", "thrown", "undefined"},
           NEW indices \in SUBSET Int, Result(outcome, indices),
           kind = "amp" /\ bound = 0 => \A s \in indices : InFrame(s),
           kind = "pel" /\ length > 0 /\ window.start >= 0
              => \A s \in indices : InFrame(s)
    PROVE  IInv'
<1>1. TypeOK'
  BY DEF IInv, TypeOK, Result, frameVars, estimatorVars
<1> QED
  BY <1>1 DEF IInv, Result, frameVars, estimatorVars, AmpInFullFrame, PelInFrame,
              GridFollowsWindow, GridIsPels, NoGridIfFlat, InFrame

\* A window given to the estimator empties reads.
LEMMA GiveKeeps ==
    ASSUME IInv, NEW w \in Window, NEW g \in Window \cup {None},
           NEW outcome \in Endings \cup {"none"}, Give(w, g, outcome),
           g \notin {None, w} => outcome = "exhausted", kind # "pel" => g = None,
           flat => g = None
    PROVE  IInv'
<1>1. TypeOK'
  BY DEF IInv, TypeOK, Give, frameVars
<1> QED
  BY <1>1 DEF IInv, Give, frameVars, AmpInFullFrame, PelInFrame, GridFollowsWindow,
              GridIsPels, NoGridIfFlat

\* Two samples make a window, ordered or not.
LEMMA Windows ==
    ASSUME NEW a \in Samples, NEW b \in Samples
    PROVE  Ordered(a, b) \in Window /\ [start |-> a, stop |-> b] \in Window
BY SizesAssumption DEF Ordered, Window

LEMMA NextFrameKeeps ==
    ASSUME IInv, NEW l \in Lengths, NEW b \in Bounds, NextFrame(l, b)
    PROVE  IInv'
<1>1. TypeOK'
  BY DEF IInv, TypeOK, NextFrame, estimatorVars
<1> QED
  BY <1>1 DEF IInv, NextFrame, estimatorVars, AmpInFullFrame, PelInFrame,
              GridFollowsWindow, GridIsPels, NoGridIfFlat

LEMMA SettersKeep ==
    ASSUME IInv, NEW a \in Samples, NEW b \in Samples,
           SetAmp(a, b) \/ SetPhase(a) \/ SetPseudo(a, b) \/ SetPel(a, b)
    PROVE  IInv'
<1>1. CASE SetAmp(a, b)
  <2>1. kind = "amp" /\ grid = None /\ Give(Ordered(a, b), grid, "none")
    BY <1>1 DEF SetAmp, IInv, GridIsPels
  <2> QED
    BY <2>1, Windows, GiveKeeps
<1>2. CASE SetPhase(a)
  <2>1. kind = "phase" /\ grid = None /\ Give([start |-> a, stop |-> a], grid, "none")
    BY <1>2 DEF SetPhase, IInv, GridIsPels
  <2> QED
    BY <2>1, Windows, GiveKeeps
<1>3. CASE SetPseudo(a, b)
  <2>1. kind # "pel" /\ grid = None /\ Give([start |-> a, stop |-> b], grid, "none")
    BY <1>3 DEF SetPseudo, IInv, GridIsPels
  <2> QED
    BY <2>1, Windows, GiveKeeps
<1>4. CASE SetPel(a, b)
  <2> DEFINE w == [start |-> a, stop |-> b]
  <2>1. w \in Window
    BY Windows
  <2>2. PICK outcome \in GridEndings : Give(w, Grid(w, outcome), outcome)
    BY <1>4 DEF SetPel
  <2>3. kind = "pel" /\ outcome \in Endings
    BY <1>4, <2>2 DEF SetPel, GridEndings, Endings
  <2>4. /\ Grid(w, outcome) \in Window \cup {None}
        /\ Grid(w, outcome) \notin {None, w} => outcome = "exhausted"
        /\ flat => Grid(w, outcome) = None
    <3>1. CASE flat
      BY <2>2, <3>1 DEF Grid, GridEndings, IInv, NoGridIfFlat
    <3>2. CASE ~flat
      BY <2>1, <2>2, <3>2 DEF Grid, GridEndings, IInv, TypeOK
    <3> QED
      BY <3>1, <3>2
  <2> QED
    BY <2>1, <2>2, <2>3, <2>4, GiveKeeps
<1> QED
  BY <1>1, <1>2, <1>3, <1>4

LEMMA Numbers ==
    ASSUME TypeOK
    PROVE  length \in Nat /\ window.start \in Int /\ window.stop \in Int
BY SizesAssumption DEF TypeOK, Window

\* The guard of AmpEstimator and the limits of LhPel, as arithmetic.
LEMMA AmpReads ==
    ASSUME TypeOK, bound = 0, Accepted(window.start, window.stop)
    PROVE  \A s \in window.start..window.stop - 1 : InFrame(s)
<1>1. length \in Nat /\ window.start \in Int /\ window.stop \in Int
  BY Numbers
<1>2. 0 <= window.start /\ window.stop <= length
  BY <1>1 DEF Accepted
<1> QED
  BY <1>1, <1>2 DEF InFrame

LEMMA PelReads ==
    ASSUME TypeOK, length > 0, window.start >= 0
    PROVE  \A s \in Clamp(window.start)..Clamp(window.stop) : InFrame(s)
<1>1. length \in Nat /\ window.start \in Int /\ window.stop \in Int
  BY Numbers
<1>2. /\ Clamp(window.start) \in Int /\ 0 <= Clamp(window.start)
      /\ Clamp(window.stop) \in Int /\ Clamp(window.stop) <= length - 1
  BY <1>1 DEF Clamp
<1> QED
  BY <1>1, <1>2 DEF InFrame

LEMMA EstimatesKeep ==
    ASSUME IInv, EstimateAmp \/ EstimatePhase \/ EstimatePseudo \/ EstimatePel
    PROVE  IInv'
<1>0. /\ TypeOK
      /\ window.start \in Int /\ window.stop \in Int
      /\ length \in Int
  <2>1. TypeOK
    BY DEF IInv
  <2> QED
    BY <2>1, Numbers
<1>1. CASE EstimateAmp
  <2>1. CASE Accepted(window.start, window.stop)
    <3>1. Result("done", window.start..window.stop - 1) /\ kind = "amp"
      BY <1>1, <2>1 DEF EstimateAmp
    <3> QED
      BY <1>0, <2>1, <3>1, AmpReads, ResultKeeps
  <2>2. CASE ~Accepted(window.start, window.stop)
    <3>1. Result("thrown", {})
      BY <1>1, <2>2 DEF EstimateAmp
    <3> QED
      BY <3>1, ResultKeeps
  <2> QED
    BY <2>1, <2>2
<1>2. CASE EstimatePhase
  BY <1>0, <1>2, ResultKeeps DEF EstimatePhase
<1>3. CASE EstimatePseudo
  BY <1>0, <1>3, ResultKeeps DEF EstimatePseudo
<1>4. CASE EstimatePel
  <2>1. CASE Result("undefined", {})
    BY <2>1, ResultKeeps
  <2>2. CASE Result("done", Clamp(window.start)..Clamp(window.stop))
    <3>1. Clamp(window.start)..Clamp(window.stop) \in SUBSET Int
      BY <1>0 DEF Clamp
    <3> QED
      BY <1>0, <1>4, <2>2, <3>1, PelReads, ResultKeeps DEF EstimatePel
  <2> QED
    BY <1>4, <2>1, <2>2 DEF EstimatePel
<1> QED
  BY <1>1, <1>2, <1>3, <1>4

\* IInv holds in every reachable state.
THEOREM Invariance == Spec => []IInv
<1>1. ASSUME IInv, [Next]_vars PROVE IInv'
  <2>1. CASE UNCHANGED vars
    BY <1>1, <2>1 DEF IInv, TypeOK, AmpInFullFrame, PelInFrame, GridFollowsWindow,
                      GridIsPels, NoGridIfFlat, InFrame, vars, frameVars, estimatorVars, resultVars
  <2>2. CASE Next
    BY <1>1, <2>2, NextFrameKeeps, SettersKeep, EstimatesKeep DEF Next
  <2> QED
    BY <1>1, <2>1, <2>2
<1> QED
  BY <1>1, InitInvariant, PTL DEF Spec

\* Every variable has its type: a grid, once made, is for a window that can be set.
THEOREM TypeCorrect == Spec => []TypeOK
<1>1. IInv => TypeOK
  BY DEF IInv
<1> QED
  BY <1>1, Invariance, PTL

\* AmpEstimator never reads outside a full frame.
THEOREM AmpSafe == Spec => []AmpInFullFrame
<1>1. IInv => AmpInFullFrame
  BY DEF IInv
<1> QED
  BY <1>1, Invariance, PTL

\* LhPel never reads outside a frame with a window that starts at 0 or later.
THEOREM PelSafe == Spec => []PelInFrame
<1>1. IInv => PelInFrame
  BY DEF IInv
<1> QED
  BY <1>1, Invariance, PTL

\* A grid is that of the window in use, unless set_signal_param ran out of
\* memory; the exception for a flat antenna leaves no stale grid.
THEOREM GridInUse == Spec => []GridFollowsWindow
<1>1. IInv => GridFollowsWindow
  BY DEF IInv
<1> QED
  BY <1>1, Invariance, PTL

\* Both estimators place a window of a full frame on the same side.
THEOREM SameSide == Spec => []SidesAgree
<1>1. ASSUME TypeOK PROVE SidesAgree
  <2>1. window.start \in Int /\ window.stop \in Int /\ FullLength \in Nat
    BY <1>1, Numbers, SizesAssumption
  <2> QED
    BY <2>1 DEF SidesAgree, UpperHalf, CarrierSample, Half
<1>2. IInv => SidesAgree
  BY <1>1 DEF IInv
<1> QED
  BY <1>2, Invariance, PTL
=============================================================================
