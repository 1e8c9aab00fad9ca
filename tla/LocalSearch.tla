----------------------------- MODULE LocalSearch -----------------------------
(***************************************************************************)
(* The local search that ends Pelengator::estimate:                        *)
(* find_min_using_approximate_derivatives with line_search and             *)
(* objective_delta_stop_strategy (dlib/dlib/optimization).                 *)
(*                                                                         *)
(* The objective is an oracle.  What the search learns of a point on the   *)
(* line is its value; whether it passes the test of sufficient decrease,   *)
(* ~(val > f0 + rho*alpha*d0); and its derivative: "flat" when it is       *)
(* within thresh, else "up" or "down" as the test of its sign says, a NaN  *)
(* being "down".  The step's direction has alpha*d0 <= 0, so a value that  *)
(* passes the test is at most f0.  Step lengths are left out; that they    *)
(* collapse, or are negligible, is a choice.                               *)
(*                                                                         *)
(* A definition named <Operation>_<Flaw> is Operation with a flaw; no      *)
(* specification uses it, it is there to show that a property depends on   *)
(* what Operation does.                                                    *)
(***************************************************************************)
EXTENDS Integers, Floats

CONSTANTS Values,       \* the finite values of the objective
          MinF,         \* min_f
          MinDelta,     \* min_delta of the stop strategy
          MaxIter       \* get_max_line_search_iterations()

ASSUME ValuesAssumption == Values \subseteq Int /\ NaN \notin Int /\ MinF \in Int
ASSUME LimitsAssumption == MinDelta \in Nat \ {0} /\ MaxIter \in Nat \ {0}

Doubles == Values \cup {NaN}

\* The comparisons of IEEE 754: false with a NaN.
AtMost(v, w) == v # NaN /\ w # NaN /\ v <= w

Distance(v, w) == IF v < w THEN w - v ELSE v - w

VARIABLES
    total,      \* the objective is finite wherever it is evaluated
    pc,         \* where the search is
    fx,         \* history: the objective at x
    f_value,    \* the objective where it was evaluated last on the line
    been_used, prev_funct_value,    \* of the stop strategy
    f0,         \* argument of line_search
    last, a, b, \* the points (last_alpha, last_val), (a, a_val), (b, b_val)
    itr,
    how,        \* history: how the last line search that took a step ended
    wavered,    \* history: a line search ended in one of GaveUp
    first       \* history: the objective at the starting point

stopVars == <<been_used, prev_funct_value>>
lineVars == <<f0, last, a, b, itr>>
histVars == <<how, wavered, first>>
vars == <<total, pc, fx, f_value, stopVars, lineVars, histVars>>

\* The points of the line: their value, and whether they pass the test.
Points == [val : Doubles, suff : BOOLEAN]

\* The points f can have.  A comparison with NaN does not fail the test.
Evaluable(p) == /\ p.val = NaN => p.suff /\ ~total
                /\ p.val # NaN /\ p.suff => p.val <= f0

\* Ways to end a line search.  In those of GaveUp it has found nothing.
GaveUp == {"ranOut", "collapsed", "negligible"}
Ends == {"found", "stuck", "none"} \cup GaveUp

\* The value of the locals of line_search outside of it.
Nowhere == [val |-> NaN, suff |-> TRUE]

Init == /\ total \in BOOLEAN
        /\ pc = "start"
        /\ fx \in IF total THEN Values ELSE Doubles
        /\ first = fx
        /\ f_value = NaN
        /\ been_used = FALSE /\ prev_funct_value = 0
        /\ f0 = NaN /\ itr = 0
        /\ last = Nowhere /\ a = Nowhere /\ b = Nowhere
        /\ how = "none" /\ wavered = FALSE

\* The two is_finite tests; the gradient may be not finite where f is.
FiniteOrThrow(f) ==
    \/ /\ f # NaN
       /\ pc' = "test"
    \/ /\ f = NaN \/ ~total
       /\ pc' = "thrown"

Start == /\ pc = "start"
         /\ f_value' = fx
         /\ FiniteOrThrow(fx)
         /\ UNCHANGED <<total, fx, stopVars, lineVars, histVars>>

(***************************************************************************)
(* The outer loop.                                                         *)
(***************************************************************************)
TooSmall_Never == FALSE
TooSmall == been_used /\ Distance(f_value, prev_funct_value) < MinDelta

\* should_continue_search(x, f_value, g) && f_value > min_f
Stop == /\ pc = "test"
        /\ TooSmall \/ f_value <= MinF
        /\ pc' = "done"
        /\ UNCHANGED <<total, fx, f_value, stopVars, lineVars, histVars>>

Continue_Further(next) ==
    /\ pc = "test"
    /\ ~TooSmall
    /\ pc' = next
    /\ been_used' = TRUE /\ prev_funct_value' = f_value
    /\ UNCHANGED <<total, fx, f_value, wavered, first>>

Continue(next) ==
    /\ pc = "test"
    /\ ~TooSmall /\ f_value > MinF
    /\ pc' = next
    /\ been_used' = TRUE /\ prev_funct_value' = f_value
    /\ UNCHANGED <<total, fx, f_value, wavered, first>>

\* line_search: the slope d0 is nil, so the step is 0.
NoSlope == Continue("moved") /\ UNCHANGED <<how, lineVars>>

BeginLine == /\ Continue("bracket")
             /\ f0' = f_value
             /\ last' = [val |-> f_value, suff |-> TRUE]
             /\ itr' = 0
             /\ UNCHANGED <<a, b, how>>

(***************************************************************************)
(* line_search.  An iteration evaluates the point p.                       *)
(***************************************************************************)
Evaluate(p) == /\ Evaluable(p)
               /\ itr' = itr + 1
               /\ f_value' = p.val
               /\ UNCHANGED <<total, stopVars, f0, first>>

\* line_search returns the step to p, and x makes it.
Return(p, end) == /\ pc' = "moved"
                  /\ fx' = p.val
                  /\ how' = end
                  /\ wavered' = (wavered \/ end \in GaveUp)
                  /\ last' = Nowhere /\ a' = Nowhere /\ b' = Nowhere

Section(p, q) == /\ pc' = "section"
                 /\ a' = p /\ b' = q
                 /\ last' = Nowhere
                 /\ UNCHANGED <<fx, how, wavered>>

\* val > f0 + rho*alpha*d0 || val >= last_val
Worse_NoDecrease(p, q) == AtMost(q.val, p.val)
Worse(p, q) == ~p.suff \/ AtMost(q.val, p.val)

Bracket_FlatFirst(p, der) ==
    /\ pc = "bracket"
    /\ Evaluate(p)
    /\ \/ /\ AtMost(p.val, MinF) \/ der = "flat"
          /\ Return(p, "found")
       \/ /\ ~AtMost(p.val, MinF) /\ der # "flat"
          /\ Section(last, p)

Bracket(p, der) ==
    /\ pc = "bracket"
    /\ Evaluate(p)
    /\ \/ /\ AtMost(p.val, MinF)
          /\ Return(p, "found")
       \/ /\ ~AtMost(p.val, MinF)
          /\ Worse(p, last)
          /\ Section(last, p)
       \/ /\ ~AtMost(p.val, MinF) /\ ~Worse(p, last)
          /\ \/ der = "flat" /\ Return(p, "found")
             \/ /\ der # "flat" /\ (itr' >= MaxIter \/ p.val = NaN)
                /\ Return(p, "stuck")
             \/ der = "up" /\ itr' < MaxIter /\ Section(p, last)
             \/ /\ der = "down" /\ itr' < MaxIter
                /\ last' = p
                /\ UNCHANGED <<pc, fx, a, b, how, wavered>>

RanOut_Late == itr' > MaxIter + 1
RanOut == itr' >= MaxIter

\* The end at an interval that does not shrink returns b, whose value f_value
\* is not.
Collapsed == Return(b, "collapsed")

\* The end at steps too small to change f0.
Negligible_End(p) == Return(b, "negligible")
Negligible(p) == Return(p, "negligible")

Sectioning(p, der) ==
    /\ pc = "section"
    /\ Evaluate(p)
    /\ \/ /\ AtMost(p.val, MinF)
          /\ Return(p, "found")
       \/ /\ ~AtMost(p.val, MinF) /\ RanOut
          /\ Return(p, "ranOut")
       \/ /\ ~AtMost(p.val, MinF) /\ ~RanOut
          /\ \/ Collapsed
             \/ Negligible(p)
             \/ Worse(p, a) /\ Section(a, p)
             \/ ~Worse(p, a) /\ der = "flat" /\ Return(p, "found")
             \/ ~Worse(p, a) /\ der = "up" /\ Section(p, a)
             \/ ~Worse(p, a) /\ der = "down" /\ Section(p, b)

\* x has moved; the gradient is computed anew.
Moved == /\ pc = "moved"
         /\ FiniteOrThrow(f_value)
         /\ UNCHANGED <<total, fx, f_value, stopVars, lineVars, histVars>>

Next == \/ Start \/ Stop \/ NoSlope \/ BeginLine \/ Moved
        \/ \E p \in Points, der \in {"flat", "up", "down"} :
              Bracket(p, der) \/ Sectioning(p, der)

Spec == Init /\ [][Next]_vars

\* The search runs in one thread and waits for nothing.
FairSpec == Spec /\ WF_vars(Next)
-----------------------------------------------------------------------------
(***************************************************************************)
(* Properties.                                                             *)
(***************************************************************************)

\* Every variable has its type.  A line search evaluates the objective at most
\* MaxIter + 1 times: a bracket found in the last iteration is sectioned once.
TypeOK ==
    /\ total \in BOOLEAN
    /\ pc \in {"start", "test", "bracket", "section", "moved", "done", "thrown"}
    /\ {fx, f_value, f0, first} \subseteq Doubles
    /\ been_used \in BOOLEAN /\ prev_funct_value \in Values \cup {0}
    /\ {last, a, b} \subseteq Points
    /\ itr \in 0..MaxIter + 1
    /\ how \in Ends /\ wavered \in BOOLEAN

\* The bracket is one: its end a passes the test of sufficient decrease and is
\* not above the start of the line, through every exchange of the two ends, so
\* the interval holds a point to return (Fletcher 2.6.2, 2.6.4).
BracketSound ==
    pc = "section" => a.suff /\ (a.val # NaN => a.val <= f0)

\* optimization_abstract.h:216: f_value is f(x) when the search goes on and when
\* it ends, and so is the f0 of the next line search, unless the last one
\* returned an interval's end b.
ValueIsOfX ==
    /\ pc \in {"test", "done"} /\ how # "collapsed" => f_value = fx
    /\ pc \in {"bracket", "section"} /\ how # "collapsed" => f0 = fx

\* The direction found is no worse than the starting point, unless a line
\* search ran out of iterations or of interval: then x takes a step that nothing
\* was tested for.
NoWorseThanStart ==
    pc = "done" /\ total /\ ~wavered => fx <= first

\* The search ends, or line searches give up again and again; the stop strategy
\* has no limit of iterations.
SearchEnds ==
    \/ <>(pc \in {"done", "thrown"})
    \/ []<>(pc = "moved" /\ how \in GaveUp)

\* What estimate() counts on.
Search == INSTANCE Minimiser WITH
            value <- fx,
            outcome <- CASE pc = "done" -> "found"
                         [] pc = "thrown" -> "thrown"
                         [] OTHER -> "running"

ImplementsMinimiser == Search!Spec
=============================================================================
