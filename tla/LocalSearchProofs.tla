--------------------------- MODULE LocalSearchProofs ---------------------------
(***************************************************************************)
(* Proofs about LocalSearch, for any values of the objective and any       *)
(* limits of the search.                                                   *)
(*                                                                         *)
(* What is promised of x and f_value when the search ends depends on what  *)
(* each line search keeps of its points while it runs: that its bracket    *)
(* holds points worth returning, and that f0 is the objective at x.        *)
(***************************************************************************)
EXTENDS LocalSearch, TLAPS

InLine == pc \in {"bracket", "section"}

\* A line search goes on only from points that do not end it at once.
Kept(p) == ~AtMost(p.val, MinF) /\ (total => p.val # NaN)

Sufficient(p) == p.suff /\ (p.val # NaN => p.val <= f0)

LineState ==
    /\ InLine => f0 \in Values /\ f0 > MinF
    /\ pc = "bracket" => Kept(last) /\ Sufficient(last) /\ itr < MaxIter
    /\ pc = "section" => Kept(a) /\ Sufficient(a) /\ Kept(b) /\ itr <= MaxIter

\* Where f_value, and after it f0, is the objective at x.  While a line search
\* runs f_value is that of its last point.
ValueState ==
    /\ pc \in {"test", "done"} => f_value \in Values
    /\ total => fx # NaN /\ first # NaN /\ (pc # "start" => f_value # NaN)
    /\ pc \in {"test", "moved", "done"} /\ how # "collapsed" => f_value = fx
    /\ InLine /\ how # "collapsed" => f0 = fx

\* A collapsed interval returns one of its ends.
CollapseState == how = "collapsed" => wavered /\ ~AtMost(fx, MinF)

\* No line search that found something has raised the objective at x.
Descent == total /\ ~wavered => fx <= first

IInv == TypeOK /\ LineState /\ ValueState /\ CollapseState /\ Descent

USE ValuesAssumption, LimitsAssumption

LEMMA InitIInv == Init => IInv
<1> SUFFICES ASSUME Init PROVE IInv
  OBVIOUS
<1>1. TypeOK
  <2>1. Nowhere \in Points /\ NaN \in Doubles
    BY DEF Nowhere, Points, Doubles
  <2>2. fx \in Doubles /\ first \in Doubles
    BY DEF Init, Doubles
  <2>3. how \in Ends /\ itr \in 0..MaxIter + 1
    BY DEF Init, Ends
  <2> QED
    BY <2>1, <2>2, <2>3 DEF Init, TypeOK
<1>2. LineState /\ CollapseState
  BY DEF Init, LineState, InLine, CollapseState
<1>3. ValueState /\ Descent
  BY DEF Init, ValueState, InLine, Descent, Doubles
<1> QED
  BY <1>1, <1>2, <1>3 DEF IInv
-----------------------------------------------------------------------------
(***************************************************************************)
(* Steps outside of the line search.                                       *)
(***************************************************************************)
LEMMA OuterKeeps ==
    ASSUME IInv, Start \/ Stop \/ NoSlope \/ BeginLine \/ Moved
    PROVE  IInv'
<1> USE DEF IInv, TypeOK, Doubles, Points, LineState, InLine, ValueState,
            CollapseState, Descent, Kept, Sufficient, AtMost,
            stopVars, lineVars, histVars
<1>1. CASE Start
  BY <1>1 DEF Start, FiniteOrThrow
<1>2. CASE Stop
  BY <1>2 DEF Stop
<1>3. CASE NoSlope
  BY <1>3 DEF NoSlope, Continue
<1>4. CASE BeginLine
  <2>1. /\ f_value \in Values /\ f_value > MinF
        /\ last' \in Points /\ last'.val = f_value /\ last'.suff
    BY <1>4 DEF BeginLine, Continue
  <2> QED
    BY <1>4, <2>1 DEF BeginLine, Continue
<1>5. CASE Moved
  BY <1>5 DEF Moved, FiniteOrThrow
<1> QED
  BY <1>1, <1>2, <1>3, <1>4, <1>5
-----------------------------------------------------------------------------
(***************************************************************************)
(* Steps of the line search: it returns, or goes on with other points.     *)
(***************************************************************************)

\* The step to q that is returned when p was evaluated.
Returnable(p, q, end) ==
    /\ q \in Points
    /\ end \in Ends
    /\ total => q.val # NaN
    /\ end # "collapsed" => q = p
    /\ end = "collapsed" => ~AtMost(q.val, MinF)
    /\ end \notin GaveUp => AtMost(q.val, MinF) \/ q.suff

LEMMA ReturnKeeps ==
    ASSUME IInv, InLine, NEW p \in Points, Evaluate(p),
           NEW q, NEW end, Returnable(p, q, end), Return(q, end)
    PROVE  IInv'
<1> USE DEF IInv, InLine, Evaluate, Return, Returnable, Evaluable, Points, Doubles
<1>1. TypeOK'
  BY DEF TypeOK, Nowhere, stopVars, LineState
<1>2. LineState'
  BY DEF LineState
<1>3. ValueState'
  BY DEF ValueState
<1>4. CollapseState'
  BY DEF CollapseState, GaveUp
<1>5. Descent'
  <2> SUFFICES ASSUME total, ~wavered, end \notin GaveUp PROVE q.val <= first
    BY DEF Descent
  <2>1. /\ f0 = fx /\ f0 \in Values /\ f0 > MinF
        /\ fx <= first /\ first \in Values
    BY DEF LineState, ValueState, CollapseState, Descent, TypeOK
  <2>2. q.val \in Values /\ q.val <= f0
    BY <2>1 DEF AtMost, GaveUp
  <2> QED
    BY <2>1, <2>2
<1> QED
  BY <1>1, <1>2, <1>3, <1>4, <1>5

LEMMA GoOnKeeps ==
    ASSUME IInv, InLine, NEW p \in Points, Evaluate(p),
           UNCHANGED <<fx, how, wavered>>,
           {last', a', b'} \subseteq Points, itr' <= MaxIter + 1,
           InLine', LineState'
    PROVE  IInv'
<1> USE DEF IInv, InLine, Evaluate, Evaluable, Points, Doubles, stopVars
<1>1. TypeOK'
  BY DEF TypeOK
<1>2. ValueState'
  BY DEF ValueState
<1>3. CollapseState' /\ Descent'
  BY DEF CollapseState, Descent
<1> QED
  BY <1>1, <1>2, <1>3

LEMMA SectionKeeps ==
    ASSUME IInv, InLine, NEW p \in Points, Evaluate(p), itr' <= MaxIter,
           NEW q, NEW r, {q, r} \subseteq Points,
           Kept(q), Sufficient(q), Kept(r), Section(q, r)
    PROVE  IInv'
<1>1. Nowhere \in Points
  BY DEF Nowhere, Points, Doubles
<1>2. LineState' /\ InLine'
  BY DEF IInv, LineState, InLine, Section, Kept, Sufficient, Evaluate
<1>3. UNCHANGED <<fx, how, wavered>> /\ {last', a', b'} \subseteq Points
  BY <1>1 DEF Section
<1>4. itr' <= MaxIter + 1
  BY DEF Evaluate, IInv, TypeOK
<1> QED
  BY <1>2, <1>3, <1>4, GoOnKeeps

\* A point that was evaluated and did not end the line search.
LEMMA PointKept ==
    ASSUME NEW p \in Points, Evaluate(p), ~AtMost(p.val, MinF)
    PROVE  Kept(p) /\ (p.suff => Sufficient(p))
BY DEF Evaluate, Evaluable, Kept, Sufficient

LEMMA BracketKeeps ==
    ASSUME IInv, NEW p \in Points, NEW der, Bracket(p, der)
    PROVE  IInv'
<1>1. /\ pc = "bracket" /\ InLine /\ Evaluate(p)
      /\ Kept(last) /\ Sufficient(last) /\ last \in Points
      /\ itr \in Nat /\ itr < MaxIter /\ itr' = itr + 1 /\ itr' <= MaxIter
      /\ total => p.val # NaN
  BY DEF Bracket, IInv, TypeOK, LineState, InLine, Evaluate, Evaluable
<1>2. CASE AtMost(p.val, MinF) /\ Return(p, "found")
  BY <1>1, <1>2, ReturnKeeps DEF Returnable, Ends, GaveUp
<1>3. CASE ~AtMost(p.val, MinF) /\ Worse(p, last) /\ Section(last, p)
  BY <1>1, <1>3, PointKept, SectionKeeps
<1>4. CASE /\ ~AtMost(p.val, MinF) /\ ~Worse(p, last)
           /\ Return(p, "found") \/ Return(p, "stuck")
  BY <1>1, <1>4, ReturnKeeps DEF Returnable, Ends, GaveUp, Worse
<1>5. CASE ~AtMost(p.val, MinF) /\ ~Worse(p, last) /\ Section(p, last)
  BY <1>1, <1>5, PointKept, SectionKeeps DEF Worse
<1>6. CASE /\ ~AtMost(p.val, MinF) /\ ~Worse(p, last) /\ itr' < MaxIter
           /\ last' = p /\ UNCHANGED <<pc, fx, a, b, how, wavered>>
  <2>1. Kept(p) /\ Sufficient(p)
    BY <1>1, <1>6, PointKept DEF Worse
  <2>2. LineState' /\ InLine'
    BY <1>1, <1>6, <2>1 DEF IInv, LineState, InLine, Kept, Sufficient, Evaluate
  <2> QED
    BY <1>1, <1>6, <2>2, GoOnKeeps DEF IInv, TypeOK
<1> QED
  BY <1>2, <1>3, <1>4, <1>5, <1>6 DEF Bracket

LEMMA SectioningKeeps ==
    ASSUME IInv, NEW p \in Points, NEW der, Sectioning(p, der)
    PROVE  IInv'
<1>1. /\ pc = "section" /\ InLine /\ Evaluate(p)
      /\ Kept(a) /\ Sufficient(a) /\ Kept(b) /\ {a, b} \subseteq Points
      /\ itr \in Nat /\ itr <= MaxIter /\ itr' = itr + 1
      /\ total => p.val # NaN
  BY DEF Sectioning, IInv, TypeOK, LineState, InLine, Evaluate, Evaluable
<1>2. CASE AtMost(p.val, MinF) /\ Return(p, "found")
  BY <1>1, <1>2, ReturnKeeps DEF Returnable, Ends, GaveUp
<1>3. CASE Return(p, "ranOut") \/ Negligible(p)
  BY <1>1, <1>3, ReturnKeeps DEF Returnable, Ends, GaveUp, Negligible
<1>4. CASE Collapsed
  BY <1>1, <1>4, ReturnKeeps DEF Returnable, Ends, GaveUp, Collapsed, Kept
<1>5. CASE ~Worse(p, a) /\ Return(p, "found")
  BY <1>1, <1>5, ReturnKeeps DEF Returnable, Ends, GaveUp, Worse
<1>6. CASE ~AtMost(p.val, MinF) /\ ~RanOut /\ Section(a, p)
  BY <1>1, <1>6, PointKept, SectionKeeps DEF RanOut
<1>7. CASE /\ ~AtMost(p.val, MinF) /\ ~RanOut /\ ~Worse(p, a)
           /\ Section(p, a) \/ Section(p, b)
  BY <1>1, <1>7, PointKept, SectionKeeps DEF RanOut, Worse
<1> QED
  BY <1>2, <1>3, <1>4, <1>5, <1>6, <1>7 DEF Sectioning

\* The values and the points of a search stay consistent.
THEOREM Invariance == Spec => []IInv
<1>1. ASSUME IInv, Next PROVE IInv'
  BY <1>1, OuterKeeps, BracketKeeps, SectioningKeeps DEF Next
<1>2. ASSUME IInv, UNCHANGED vars PROVE IInv'
  BY <1>2 DEF vars, stopVars, lineVars, histVars, IInv, TypeOK, LineState, InLine,
              Kept, Sufficient, ValueState, CollapseState, Descent
<1> QED
  BY <1>1, <1>2, InitIInv, PTL DEF Spec
-----------------------------------------------------------------------------
\* Every variable has its type, and a line search evaluates the objective at
\* most MaxIter + 1 times.
THEOREM TypeCorrect == Spec => []TypeOK
<1>1. IInv => TypeOK
  BY DEF IInv
<1> QED
  BY <1>1, Invariance, PTL

\* The end a of every bracket can be returned.
THEOREM BracketIsOne == Spec => []BracketSound
<1>1. IInv => BracketSound
  BY DEF IInv, LineState, Sufficient, BracketSound
<1> QED
  BY <1>1, Invariance, PTL

\* f_value is the objective at x, but after an interval that collapsed.
THEOREM ValueFaithful == Spec => []ValueIsOfX
<1>1. IInv => ValueIsOfX
  BY DEF IInv, ValueState, InLine, ValueIsOfX
<1> QED
  BY <1>1, Invariance, PTL

\* The direction found is no worse than the start, unless a line search gave up.
THEOREM NeverWorse == Spec => []NoWorseThanStart
<1>1. IInv => NoWorseThanStart
  BY DEF IInv, Descent, NoWorseThanStart
<1> QED
  BY <1>1, Invariance, PTL
-----------------------------------------------------------------------------
(***************************************************************************)
(* Refinement: only the return of a line search moves x, by Minimiser's    *)
(* Move, and only Stop, Start and Moved end the search.                    *)
(***************************************************************************)
LEMMA ReturnMoves ==
    ASSUME IInv, InLine, NEW p \in Points, Evaluate(p),
           NEW q, NEW end, Returnable(p, q, end), Return(q, end)
    PROVE  \E v \in Values \cup {NaN} : Search!Move(v)
<1>1. IF fx = NaN THEN ~total ELSE fx > MinF
  <2>1. fx # NaN => fx \in Int /\ MinF \in Int /\ MinF # NaN
    BY DEF IInv, TypeOK, Doubles
  <2>2. CASE how = "collapsed"
    BY <2>1, <2>2 DEF IInv, ValueState, CollapseState, AtMost
  <2>3. CASE how # "collapsed"
    BY <2>3 DEF IInv, LineState, ValueState
  <2> QED
    BY <2>2, <2>3
<1>2. q.val \in Doubles /\ (q.val \in Values \/ ~total) /\ fx' = q.val
  BY DEF Returnable, Return, Points, Doubles
<1>3. /\ pc \notin {"done", "thrown"} /\ pc' = "moved"
      /\ total' = total
  BY DEF InLine, Return, Evaluate
<1> QED
  BY <1>1, <1>2, <1>3 DEF Search!Move, Doubles

LEMMA LineMoves ==
    ASSUME IInv, NEW p \in Points, NEW der, Bracket(p, der) \/ Sectioning(p, der)
    PROVE  \/ \E v \in Values \cup {NaN} : Search!Move(v)
           \/ UNCHANGED <<total, fx>> /\ InLine /\ InLine'
<1>1. /\ InLine /\ Evaluate(p)
      /\ pc = "section" => Kept(b) /\ b \in Points
      /\ total => p.val # NaN
  BY DEF Bracket, Sectioning, Evaluate, Evaluable, InLine, IInv, TypeOK, LineState
<1>2. \/ \E end \in Ends \ {"collapsed"} :
            /\ Return(p, end)
            /\ end \notin GaveUp => AtMost(p.val, MinF) \/ p.suff
      \/ pc = "section" /\ Return(b, "collapsed")
      \/ UNCHANGED fx /\ InLine'
  BY DEF Bracket, Sectioning, Section, Collapsed, Negligible, Worse, InLine, Ends, GaveUp
<1>3. ASSUME NEW end \in Ends \ {"collapsed"}, Return(p, end),
             end \notin GaveUp => AtMost(p.val, MinF) \/ p.suff
      PROVE  \E v \in Values \cup {NaN} : Search!Move(v)
  BY <1>1, <1>3, ReturnMoves DEF Returnable
<1>4. CASE pc = "section" /\ Return(b, "collapsed")
  BY <1>1, <1>4, ReturnMoves DEF Returnable, Ends, GaveUp, Kept
<1> QED
  BY <1>1, <1>2, <1>3, <1>4 DEF Evaluate

LEMMA StepSimulation ==
    ASSUME IInv, [Next]_vars
    PROVE  [Search!Next]_(Search!searchVars)
<1> USE DEF Search!searchVars
<1>1. CASE UNCHANGED vars
  BY <1>1 DEF vars
<1>2. CASE NoSlope \/ BeginLine
  BY <1>2 DEF NoSlope, BeginLine, Continue
<1>3. CASE Stop
  <2>1. fx \in Values \/ ~total
    BY DEF IInv, TypeOK, Doubles, ValueState
  <2> QED
    BY <1>3, <2>1 DEF Stop, Search!Next, Search!End
<1>4. CASE Start \/ Moved
  <2>1. /\ pc \in {"start", "moved"} /\ UNCHANGED <<total, fx>>
        /\ pc' = "test" \/ (pc' = "thrown" /\ ~total)
    BY <1>4 DEF Start, Moved, FiniteOrThrow, IInv, ValueState
  <2> QED
    BY <2>1 DEF Search!Next, Search!Throw
<1>5. ASSUME NEW p \in Points, NEW der, Bracket(p, der) \/ Sectioning(p, der)
      PROVE  [Search!Next]_(Search!searchVars)
  BY <1>5, LineMoves DEF InLine, Search!Next
<1> QED
  BY <1>1, <1>2, <1>3, <1>4, <1>5 DEF Next

\* The search is what Pelengator::estimate counts on.
THEOREM Refinement == Spec => ImplementsMinimiser
<1>1. Init => Search!Init
  BY DEF Init, Search!Init, Doubles
<1>2. IInv /\ [Next]_vars => [Search!Next]_(Search!searchVars)
  BY StepSimulation
<1> QED
  BY <1>1, <1>2, Invariance, PTL DEF Spec, ImplementsMinimiser, Search!Spec
=============================================================================
