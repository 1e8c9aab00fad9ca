-------------------------------- MODULE Pairs --------------------------------
(***************************************************************************)
(* Two loops over pairs.  LhPel::LhPel makes an entry for each pair of     *)
(* elements of the antenna, which LhPel::calculate adds up, and            *)
(* Triangulator::estimate averages the vertices that the pairs of bearings *)
(* define.  Both compute the number of pairs apart from their loops.       *)
(*                                                                         *)
(* Indices of LhPel are int.  Those of the Triangulator are uint and are   *)
(* compared with a size_t, whose 0 - 1 is SizeMax.  The entries and the    *)
(* vertices themselves are left out.                                       *)
(*                                                                         *)
(* A definition named <Operation>_<Flaw> is Operation with a flaw; no      *)
(* specification uses it, it is there to show that a property depends on   *)
(* what Operation does.                                                    *)
(***************************************************************************)
EXTENDS Integers, FiniteSets

CONSTANTS UintMax, SizeMax,     \* the largest uint and size_t
          MaxElements,          \* bound: elements of an antenna
          MaxBearings           \* bound: bearings given to the Triangulator

ASSUME WidthAssumption ==
    UintMax \in Nat /\ SizeMax \in Nat /\ UintMax < SizeMax
ASSUME PairsAssumption ==
    /\ MaxElements \in Nat /\ MaxBearings \in Nat /\ MaxBearings <= UintMax
    /\ MaxBearings * MaxBearings <= SizeMax

VARIABLES
    pairsAt,    \* "idle", or the loop: "elements" or "bearings"
    n,          \* the elements, or the bearings
    total,      \* ant_pairs, or vertex_total
    i, j,       \* the loop variables: l and m, or i and j
    met,        \* the pairs the body was run for
    repeated    \* whether it was run twice for one

pairVars == <<pairsAt, n, total, i, j, met, repeated>>

\* pelengs.size() - 1
Before(k) == (k - 1) % (SizeMax + 1)

\* The number of pairs as an int, and as a size_t.
IntPairs(k) == (k * (k - 1)) \div 2
SizePairs(k) == ((k * Before(k)) % (SizeMax + 1)) \div 2

PairsInit == /\ pairsAt = "idle"
             /\ n = 0 /\ total = 0 /\ i = 0 /\ j = 1
             /\ met = {} /\ repeated = FALSE

BeginLoop(where, k, count) == /\ pairsAt = "idle"
                              /\ pairsAt' = where
                              /\ n' = k /\ total' = count
                              /\ i' = 0 /\ j' = 1
                              /\ met' = {} /\ repeated' = FALSE

BeginElements(k) == BeginLoop("elements", k, IntPairs(k))
BeginVertices(k) == BeginLoop("bearings", k, SizePairs(k))

\* The tests of the outer loops.
MoreElements == pairsAt = "elements" /\ i < n - 1
MoreBearings == pairsAt = "bearings" /\ i < Before(n)

Increment(k) == IF pairsAt = "bearings" THEN (k + 1) % (UintMax + 1) ELSE k + 1

Body == /\ MoreElements \/ MoreBearings
        /\ j < n
        /\ met' = met \cup {<<i, j>>}
        /\ repeated' = (repeated \/ <<i, j>> \in met)
        /\ j' = Increment(j)
        /\ UNCHANGED <<pairsAt, n, total, i>>

NextOuter_Same ==
    /\ MoreElements \/ MoreBearings
    /\ j >= n
    /\ j' = Increment(i)
    /\ UNCHANGED <<pairsAt, n, total, i, met, repeated>>

NextOuter_FromZero ==
    /\ MoreElements \/ MoreBearings
    /\ j >= n
    /\ i' = Increment(i)
    /\ j' = 0
    /\ UNCHANGED <<pairsAt, n, total, met, repeated>>

NextOuter ==
    /\ MoreElements \/ MoreBearings
    /\ j >= n
    /\ i' = Increment(i)
    /\ j' = Increment(Increment(i))
    /\ UNCHANGED <<pairsAt, n, total, met, repeated>>

\* The loops are left, and their variables with them.  estimate() divides by
\* vertex_total.
EndLoop == /\ pairsAt' = "idle"
           /\ n' = 0 /\ total' = 0 /\ i' = 0 /\ j' = 1
           /\ met' = {} /\ repeated' = FALSE

EndElements == pairsAt = "elements" /\ ~MoreElements /\ EndLoop
EndVertices == pairsAt = "bearings" /\ ~MoreBearings /\ EndLoop
-----------------------------------------------------------------------------
(***************************************************************************)
(* Properties.                                                             *)
(***************************************************************************)
AllPairs == {pair \in (0..n - 1) \X (0..n - 1) : pair[1] < pair[2]}

\* When a loop ends it has met each pair once, and as many pairs as was
\* computed apart from it: calculate() reads the entries that were made, and the
\* mean is over the vertices that were added.
EachPairOnce ==
    pairsAt # "idle" /\ ~MoreElements /\ ~MoreBearings =>
        /\ met = AllPairs /\ ~repeated
        /\ Cardinality(met) = total

\* A triangulation of at least one bearing ends; without a bearing the size
\* wraps round and the loop goes on for ever.
TriangulationEnds == pairsAt = "bearings" /\ n >= 1 ~> pairsAt = "idle"
=============================================================================
