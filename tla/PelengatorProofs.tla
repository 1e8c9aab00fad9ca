--------------------------- MODULE PelengatorProofs ---------------------------
(***************************************************************************)
(* Proofs about the Pelengator: the search of the least likelihood         *)
(* (LhSearch), and what it is given, the grid of directions and the pairs  *)
(* of elements (Pelengation), with the Triangulator's pairs of bearings.   *)
(*                                                                         *)
(* The search is proved right for every matrix, set of likelihoods and     *)
(* rounding to float that satisfies the assumptions of LhSearch; the loops *)
(* for every circle, carrier, antenna and number of elements or bearings.  *)
(***************************************************************************)
EXTENDS LhSearch, Pelengation, FiniteSetTheorems, TLAPS
-----------------------------------------------------------------------------
(***************************************************************************)
(* The search.                                                             *)
(***************************************************************************)
LEMMA Sizes == Points \in Nat /\ Windows \in Nat
<1>1. Points \in Nat
  BY MatrixAssumption DEF Points
<1>2. CASE Rows <= 2 \/ Cols <= 2
  BY <1>1, <1>2 DEF Windows
<1>3. CASE ~(Rows <= 2 \/ Cols <= 2)
  <2>1. Rows - 2 \in Nat /\ Cols - 2 \in Nat
    BY <1>3, MatrixAssumption
  <2> QED
    BY <1>1, <1>3, <2>1 DEF Windows
<1> QED
  BY <1>2, <1>3

\* A double below the float minimum replaces it by a float that is no greater.
LEMMA RoundedMinimum ==
    ASSUME NEW v \in Doubles, NEW m \in Values, ToFloat[m] = m, Less(v, m)
    PROVE  /\ v \in Values /\ ToFloat[v] \in Values
           /\ ToFloat[v] <= m
           /\ ToFloat[ToFloat[v]] = ToFloat[v]
           /\ ToFloat[v] <= v + Err /\ v <= ToFloat[v] + Err
BY RoundingAssumption, ValuesAssumption DEF Doubles, Less

LEMMA InitIInv == SearchInit => IInv
BY RoundingAssumption, ValuesAssumption, Sizes
   DEF SearchInit, IInv, TypeOK, ScanState, StartState, Doubles, Less

LEMMA BeginIInv == ASSUME IInv, Begin PROVE IInv'
<1> USE DEF IInv, Begin
<1>1. TypeOK'
  BY RoundingAssumption, ValuesAssumption, Sizes
     DEF TypeOK, Doubles, interpVars, startVars
<1>2. ScanState'
  BY RoundingAssumption, ValuesAssumption DEF ScanState, Less
<1>3. StartState' /\ (pc' = "thrown" => startTrue' = NaN)
  BY DEF StartState
<1> QED
  BY <1>1, <1>2, <1>3

LEMMA ScanIInv == ASSUME IInv, NEW v \in Doubles, Scan(v) PROVE IInv'
<1> USE DEF IInv, Scan
<1>1. pc' = "scan" /\ UNCHANGED <<interpolation, tried, funMin, start, startTrue, found>>
  BY DEF interpVars, startVars
<1>2. enumMin \in Values /\ ToFloat[enumMin] = enumMin /\ least \in Doubles
  BY DEF TypeOK, ScanState
<1>3. least' \in {least, v} /\ corner' \in {corner, v} /\ seen' \in 0..Points
  BY Sizes DEF TypeOK
<1>4. CASE Better(v)
  <2>1. /\ v \in Values /\ ToFloat[v] \in Values
        /\ ToFloat[v] <= enumMin
        /\ ToFloat[ToFloat[v]] = ToFloat[v]
        /\ ToFloat[v] <= v + Err /\ v <= ToFloat[v] + Err
        /\ v < enumMin
    BY <1>2, <1>4, RoundedMinimum DEF Better, Less
  <2>2. enumMin' = ToFloat[v] /\ enumTrue' = v
    BY <1>4
  <2>3. TypeOK'
    BY <1>1, <1>3, <2>1, <2>2 DEF TypeOK, Doubles
  <2>4. ScanState'
    <3>1. enumMin' <= 0 /\ ToFloat[enumMin'] = enumMin'
      BY <1>2, <2>1, <2>2, ValuesAssumption DEF ScanState
    <3>2. enumMin' # 0 => enumTrue' \in Values /\ enumMin' = ToFloat[enumTrue']
      BY <2>1, <2>2
    <3>3. least' # NaN => enumMin' <= least' + Err /\ enumTrue' <= least' + Err
      BY <1>2, <1>3, <2>1, <2>2, ValuesAssumption, RoundingAssumption
         DEF ScanState, Doubles
    <3> QED
      BY <2>1, <2>2, <3>1, <3>2, <3>3, ValuesAssumption DEF ScanState, Less
  <2> QED
    BY <1>1, <2>3, <2>4 DEF StartState
<1>5. CASE ~Better(v)
  <2>1. UNCHANGED <<enumMin, enumTrue>>
    BY <1>5
  <2>2. v # NaN => enumMin <= v
    BY <1>2, <1>5, ValuesAssumption DEF Better, Less, Doubles
  <2>3. TypeOK'
    BY <1>1, <1>3, <2>1 DEF TypeOK, Doubles
  <2>4. ScanState'
    <3>1. least' # NaN => enumMin <= least' + Err
      BY <1>2, <1>3, <2>2, ValuesAssumption, RoundingAssumption DEF ScanState, Doubles
    <3>2. Less(least', 0) => /\ enumTrue # NaN
                             /\ enumTrue <= enumMin + Err
                             /\ enumTrue <= least' + Err
      <4> SUFFICES ASSUME Less(least', 0)
                   PROVE  /\ enumTrue # NaN
                          /\ enumTrue <= enumMin + Err
                          /\ enumTrue <= least' + Err
        OBVIOUS
      <4>1. CASE least' = least
        BY <4>1 DEF ScanState
      <4>2. CASE least' = v
        <5>1. enumMin # 0
          BY <1>2, <2>2, <4>2, ValuesAssumption DEF Less, Doubles
        <5>2. enumTrue \in Values /\ enumTrue <= enumMin + Err
          BY <5>1, RoundingAssumption DEF ScanState
        <5>3. enumTrue <= v + Err
          BY <1>2, <2>2, <4>2, <5>2, ValuesAssumption, RoundingAssumption
             DEF Less, Doubles
        <5> QED
          BY <4>2, <5>2, <5>3, ValuesAssumption
      <4> QED
        BY <1>3, <4>1, <4>2
    <3> QED
      BY <2>1, <3>1, <3>2 DEF ScanState
  <2> QED
    BY <1>1, <2>3, <2>4 DEF StartState
<1> QED
  BY <1>4, <1>5

LEMMA ScanEndIInv == ASSUME IInv, ScanEnd PROVE IInv'
<1> USE DEF IInv, ScanEnd, scanVars, interpVars, startVars
<1>1. TypeOK'
  BY Sizes DEF TypeOK
<1>2. ScanState'
  BY DEF ScanState
<1>3. StartState' /\ (pc' = "thrown" => startTrue' = NaN)
  BY DEF StartState
<1> QED
  BY <1>1, <1>2, <1>3

LEMMA WindowIInv ==
    ASSUME IInv, WindowSkipped \/ \E v \in Doubles : Window(v)
    PROVE  IInv'
<1> USE DEF IInv, WindowSkipped, Window, scanVars, startVars
<1>1. /\ pc = "interpolate" /\ pc' = pc /\ tried < Windows
      /\ tried' = tried + 1 /\ funMin' \in Doubles
      /\ UNCHANGED <<interpolation, scanVars, startVars>>
  BY DEF TypeOK
<1>2. TypeOK'
  BY <1>1, Sizes DEF TypeOK
<1>3. ScanState' /\ StartState' /\ (pc' = "thrown" => startTrue' = NaN)
  BY <1>1 DEF ScanState, StartState
<1> QED
  BY <1>2, <1>3

LEMMA WindowsEndIInv == ASSUME IInv, WindowsEnd PROVE IInv'
<1> USE DEF IInv, WindowsEnd, TakeInterpolated, scanVars, interpVars
<1>1. TypeOK'
  BY DEF TypeOK, Doubles, Less
<1>2. ScanState'
  BY DEF ScanState
<1>3. StartState' /\ (pc' = "thrown" => startTrue' = NaN)
  BY DEF StartState
<1> QED
  BY <1>1, <1>2, <1>3

LEMMA EndIInv ==
    ASSUME IInv,
           \/ \E v \in Values : Refine(v)
           \/ RefineThrows
           \/ AfterThrow
           \/ \E on \in BOOLEAN : TurnOnInterpolation(on)
    PROVE  IInv'
<1> USE DEF IInv, Refine, RefineThrows, AfterThrow, TurnOnInterpolation,
            scanVars, interpVars, startVars
<1>1. TypeOK'
  BY DEF TypeOK, Doubles
<1>2. ScanState'
  BY DEF ScanState
<1>3. StartState' /\ (pc' = "thrown" => startTrue' = NaN)
  BY DEF StartState
<1> QED
  BY <1>1, <1>2, <1>3

LEMMA NextIInv == IInv /\ [SearchNext]_searchVars => IInv'
<1> SUFFICES ASSUME IInv, [SearchNext]_searchVars PROVE IInv'
  OBVIOUS
<1>1. CASE UNCHANGED searchVars
  BY <1>1 DEF searchVars, scanVars, interpVars, startVars, IInv, TypeOK, ScanState,
              StartState
<1>2. CASE SearchNext
  BY <1>2, BeginIInv, ScanIInv, ScanEndIInv, WindowIInv, WindowsEndIInv, EndIInv
     DEF SearchNext
<1> QED
  BY <1>1, <1>2

\* The invariant holds in every reachable state.
THEOREM Invariance == SearchSpec => []IInv
BY InitIInv, NextIInv, PTL DEF SearchSpec

\* Every variable of the search has its type: minima and starts are likelihoods.
THEOREM TypeCorrect == SearchSpec => []TypeOK
<1>1. IInv => TypeOK
  BY DEF IInv
<1> QED
  BY <1>1, Invariance, PTL

\* The local search starts at the least likelihood of the grid, or at a lower
\* one, up to the rounding to float.
THEOREM GridMinimumKept == SearchSpec => []StartIsLeast
<1>1. IInv => StartIsLeast
  <2> SUFFICES ASSUME IInv, pc = "refine", Less(least, 0)
               PROVE  startTrue # NaN /\ startTrue <= least + Err
    BY DEF StartIsLeast
  <2>1. CASE startTrue = enumTrue
    BY <2>1 DEF IInv, ScanState
  <2>2. CASE Less(startTrue, enumMin)
    <3>1. startTrue \in Doubles /\ least \in Doubles /\ enumMin \in Values
      BY DEF IInv, TypeOK
    <3>2. least # NaN /\ enumMin <= least + Err
      BY DEF IInv, ScanState, Less
    <3> QED
      BY <2>2, <3>1, <3>2, ValuesAssumption, RoundingAssumption DEF Doubles, Less
  <2> QED
    BY <2>1, <2>2 DEF IInv, StartState
<1> QED
  BY <1>1, Invariance, PTL

\* The reported value is the likelihood at the starting point, up to rounding.
THEOREM ReportFaithful == SearchSpec => []ReportedIsStart
<1>1. IInv => ReportedIsStart
  <2> SUFFICES ASSUME IInv, pc = "refine", start # 0
               PROVE  startTrue # NaN /\ startTrue - start \in -Err..Err
    BY DEF ReportedIsStart
  <2>1. CASE start = enumMin /\ startTrue = enumTrue
    <3>1. startTrue \in Values /\ start = ToFloat[startTrue]
      BY <2>1 DEF IInv, ScanState
    <3>2. start \in Values /\ start <= startTrue + Err /\ startTrue <= start + Err
      BY <3>1, RoundingAssumption
    <3> QED
      BY <3>1, <3>2, ValuesAssumption, RoundingAssumption
  <2>2. CASE start = startTrue
    BY <2>2, ValuesAssumption, RoundingAssumption DEF IInv, TypeOK
  <2> QED
    BY <2>1, <2>2 DEF IInv, StartState
<1> QED
  BY <1>1, Invariance, PTL

\* A NaN in the matrix does not make estimate() throw while the likelihood is
\* negative somewhere on the grid.
THEOREM ThrowJustified == SearchSpec => []ThrowsOnlyWithoutMinimum
<1>1. IInv => ThrowsOnlyWithoutMinimum
  BY DEF IInv, StartState, ScanState, ThrowsOnlyWithoutMinimum, Less
<1> QED
  BY <1>1, Invariance, PTL
-----------------------------------------------------------------------------
(***************************************************************************)
(* The loops over pairs.                                                   *)
(***************************************************************************)
\* The body has met the pairs before <<i, j>> in the order of the loops.
Visited == {pair \in AllPairs : pair[1] < i \/ (pair[1] = i /\ pair[2] < j)}

\* The pairs of the outer iterations before i, and those of this one, doubled.
Twice == i * (2 * n - i - 1) + 2 * (j - i - 1)

PairsIInv ==
    /\ pairsAt \in {"idle", "elements", "bearings"}
    /\ bearings \in 0..MaxBearings
    /\ pairsAt = "elements" => n \in Nat \ {0} /\ total = IntPairs(n)
    /\ pairsAt = "bearings" => n \in 0..MaxBearings /\ total = SizePairs(n)
    /\ pairsAt # "idle" /\ n = 0 => i \in 0..UintMax /\ j \in Nat
    /\ pairsAt # "idle" /\ n # 0 =>
          /\ i \in 0..n - 1 /\ j \in i + 1..n
          /\ met = Visited /\ ~repeated
          /\ IsFiniteSet(met) /\ 2 * Cardinality(met) = Twice

LEMMA Widths ==
    /\ UintMax \in Nat /\ SizeMax \in Nat /\ UintMax < SizeMax
    /\ MaxElements \in Nat /\ MaxBearings \in Nat /\ MaxBearings <= UintMax
BY WidthAssumption, PairsAssumption

\* No index wraps round while there are elements or bearings.
LEMMA BeforeIsLess == ASSUME NEW k \in 1..MaxBearings PROVE Before(k) = k - 1
<1>1. k - 1 \in 0..SizeMax
  BY Widths
<1> QED
  BY <1>1, Widths DEF Before

LEMMA NoWrap ==
    ASSUME PairsIInv, pairsAt # "idle", n # 0, NEW k \in 0..n - 1
    PROVE  Increment(k) = k + 1
<1>1. CASE pairsAt = "bearings"
  <2>1. k + 1 \in 0..UintMax
    BY <1>1, Widths DEF PairsIInv
  <2> QED
    BY <1>1, <2>1, Widths DEF Increment
<1> QED
  BY <1>1 DEF Increment

\* The outer loop goes on exactly while it has not come to the last index.
LEMMA OuterTest ==
    ASSUME PairsIInv, pairsAt # "idle", n # 0
    PROVE  /\ n \in Nat /\ n >= 1 /\ i \in Nat /\ j \in Nat
           /\ MoreElements \/ MoreBearings <=> i < n - 1
<1>1. n \in Nat /\ n >= 1 /\ i \in Nat /\ j \in Nat
  BY Widths DEF PairsIInv
<1>2. pairsAt = "bearings" => Before(n) = n - 1
  <2>1. pairsAt = "bearings" => n \in 1..MaxBearings
    BY <1>1 DEF PairsIInv
  <2> QED
    BY <2>1, BeforeIsLess
<1> QED
  BY <1>1, <1>2 DEF PairsIInv, MoreElements, MoreBearings

LEMMA BeginKeeps ==
    ASSUME PairsIInv, bearings' = bearings,
           \/ \E k \in 1..MaxElements : BeginElements(k)
           \/ \E k \in 0..MaxBearings : BeginVertices(k)
    PROVE  PairsIInv'
<1>1. /\ pairsAt' \in {"elements", "bearings"} /\ bearings' \in 0..MaxBearings
      /\ i' = 0 /\ j' = 1 /\ met' = {} /\ repeated' = FALSE
      /\ pairsAt' = "elements" => n' \in 1..MaxElements /\ total' = IntPairs(n')
      /\ pairsAt' = "bearings" => n' \in 0..MaxBearings /\ total' = SizePairs(n')
  BY DEF BeginElements, BeginVertices, BeginLoop, PairsIInv
<1>2. n' \in Nat /\ UintMax >= 0
  BY <1>1, Widths
<1>3. Visited' = {} /\ Twice' = 0
  <2>1. Twice' = 0
    <3>1. Twice' = i' * (2 * n' - i' - 1) + 2 * (j' - i' - 1)
      BY DEF Twice
    <3>2. Twice' = 0 * (2 * n' - 0 - 1) + 2 * (1 - 0 - 1)
      BY <1>1, <3>1
    <3>3. 2 * n' - 0 - 1 \in Int
      BY <1>2
    <3> QED
      BY <3>2, <3>3
  <2>2. ASSUME NEW pair \in Visited' PROVE FALSE
    <3>1. pair[1] \in Nat /\ pair[2] \in Nat /\ pair[1] < pair[2]
      BY <1>2 DEF Visited, AllPairs
    <3>2. pair[1] < 0 \/ (pair[1] = 0 /\ pair[2] < 1)
      BY <1>1 DEF Visited
    <3> QED
      BY <3>1, <3>2
  <2> QED
    BY <2>1, <2>2
<1>4. IsFiniteSet({}) /\ Cardinality({}) = 0
  BY FS_EmptySet
<1>5. ASSUME n' # 0
      PROVE  /\ i' \in 0..n' - 1 /\ j' \in i' + 1..n' /\ met' = Visited' /\ ~repeated'
             /\ IsFiniteSet(met') /\ 2 * Cardinality(met') = Twice'
  <2>1. n' >= 1
    BY <1>2, <1>5
  <2>2. i' \in 0..n' - 1 /\ j' \in i' + 1..n'
    <3>1. \A k \in Nat : k >= 1 => 0 \in 0..k - 1 /\ 1 \in 0 + 1..k
      OBVIOUS
    <3>2. 0 \in 0..n' - 1 /\ 1 \in 0 + 1..n'
      BY <1>2, <2>1, <3>1
    <3> QED
      BY <1>1, <3>2
  <2>3. IsFiniteSet(met') /\ Cardinality(met') = 0
    BY <1>1, <1>4
  <2> QED
    BY <1>1, <1>3, <2>2, <2>3
<1>6. n' = 0 => i' \in 0..UintMax /\ j' \in Nat
  BY <1>1, <1>2, Widths
<1>7. pairsAt' = "elements" => n' \in Nat \ {0}
  BY <1>1, Widths
<1> QED
  BY <1>1, <1>5, <1>6, <1>7 DEF PairsIInv

\* A pair is met for the first time.
LEMMA BodyKeeps == ASSUME PairsIInv, Body, bearings' = bearings PROVE PairsIInv'
<1>1. /\ pairsAt # "idle" /\ j < n
      /\ met' = met \cup {<<i, j>>} /\ repeated' = (repeated \/ <<i, j>> \in met)
      /\ j' = Increment(j)
      /\ UNCHANGED <<pairsAt, n, total, i>>
  BY DEF Body, MoreElements, MoreBearings
<1>2. n # 0
  BY <1>1 DEF PairsIInv
<1>3. /\ n \in Nat /\ n >= 1 /\ i \in Nat /\ j \in Nat
      /\ i \in 0..n - 1 /\ j \in i + 1..n - 1
      /\ met = Visited /\ repeated = FALSE
      /\ IsFiniteSet(met) /\ 2 * Cardinality(met) = Twice
  BY <1>1, <1>2, OuterTest DEF PairsIInv
<1>4. j' = j + 1
  <2>1. j \in 0..n - 1
    BY <1>3
  <2> QED
    BY <1>1, <1>2, <2>1, NoWrap
<1>5. <<i, j>> \notin Visited
  BY <1>3 DEF Visited
<1>6. met' = Visited'
  <2>1. <<i, j>> \in AllPairs
    BY <1>3 DEF AllPairs
  <2>2. \A pair \in AllPairs : pair[1] = i /\ pair[2] = j => pair = <<i, j>>
    BY DEF AllPairs
  <2>3. AllPairs' = AllPairs
    BY <1>1 DEF AllPairs
  <2>4. \A pair \in AllPairs : pair[2] \in Nat
    BY <1>3 DEF AllPairs
  <2>5. \A pair \in AllPairs : pair[2] < j + 1 <=> pair[2] < j \/ pair[2] = j
    BY <1>3, <2>4
  <2> QED
    BY <1>1, <1>3, <1>4, <2>1, <2>2, <2>3, <2>5 DEF Visited
<1>7. IsFiniteSet(met') /\ Cardinality(met') = Cardinality(met) + 1
  BY <1>1, <1>3, <1>5, FS_AddElement
<1>8. 2 * Cardinality(met') = Twice'
  <2>1. Cardinality(met) \in Nat
    BY <1>3, FS_CardinalityType
  <2>2. Twice' = Twice + 2
    <3>1. Twice' = i' * (2 * n' - i' - 1) + 2 * (j' - i' - 1)
      BY DEF Twice
    <3>2. Twice' = i * (2 * n - i - 1) + 2 * (j + 1 - i - 1)
      BY <1>1, <1>3, <1>4, <3>1
    <3>3. i * (2 * n - i - 1) \in Int
      BY <1>3
    <3> QED
      BY <1>3, <3>2, <3>3 DEF Twice
  <2>3. Twice \in Int
    BY <1>3 DEF Twice
  <2> QED
    BY <1>3, <1>7, <2>1, <2>2, <2>3
<1>9. ~repeated'
  BY <1>1, <1>3, <1>5
<1>10. i' \in 0..n' - 1 /\ j' \in i' + 1..n'
  BY <1>1, <1>3, <1>4
<1> QED
  BY <1>1, <1>2, <1>6, <1>7, <1>8, <1>9, <1>10 DEF PairsIInv

\* The pairs of an index have all been met when the inner loop has ended.
LEMMA NextOuterKeeps == ASSUME PairsIInv, NextOuter, bearings' = bearings PROVE PairsIInv'
<1>1. /\ pairsAt # "idle" /\ j >= n
      /\ i' = Increment(i) /\ j' = Increment(Increment(i))
      /\ UNCHANGED <<pairsAt, n, total, met, repeated>>
  BY DEF NextOuter, MoreElements, MoreBearings
<1>2. CASE n = 0
  <2>1. pairsAt = "bearings" /\ i \in 0..UintMax
    BY <1>1, <1>2 DEF PairsIInv
  <2>2. \A k \in Nat : Increment(k) \in 0..UintMax
    BY <2>1, Widths DEF Increment
  <2>3. i' \in 0..UintMax /\ j' \in 0..UintMax
    BY <1>1, <2>1, <2>2, Widths
  <2>4. j' \in Nat
    BY <2>3, Widths
  <2> QED
    BY <1>1, <1>2, <2>1, <2>3, <2>4 DEF PairsIInv
<1>3. CASE n # 0
  <2>1. /\ n \in Nat /\ n >= 1 /\ i \in Nat /\ i < n - 1 /\ j = n
        /\ met = Visited /\ repeated = FALSE
        /\ IsFiniteSet(met) /\ 2 * Cardinality(met) = Twice
    <3>1. MoreElements \/ MoreBearings
      BY DEF NextOuter
    <3>2. n \in Nat /\ n >= 1 /\ i \in Nat /\ j \in Nat /\ i < n - 1
      BY <1>1, <1>3, <3>1, OuterTest
    <3>3. j = n
      BY <1>1, <1>3, <3>2 DEF PairsIInv, NextOuter
    <3> QED
      BY <1>1, <1>3, <3>2, <3>3 DEF PairsIInv
  <2>2. i' = i + 1 /\ j' = i + 2
    <3>1. i \in 0..n - 1 /\ i + 1 \in 0..n - 1
      BY <2>1
    <3>2. Increment(i) = i + 1
      BY <1>1, <1>3, <3>1, NoWrap
    <3>3. Increment(i + 1) = (i + 1) + 1
      BY <1>1, <1>3, <3>1, NoWrap
    <3> QED
      BY <1>1, <2>1, <3>2, <3>3
  <2>3. Visited' = Visited
    <3>1. AllPairs' = AllPairs
      BY <1>1 DEF AllPairs
    <3>2. ASSUME NEW pair \in AllPairs
          PROVE  (pair[1] < i + 1 \/ (pair[1] = i + 1 /\ pair[2] < i + 2))
                    <=> (pair[1] < i \/ (pair[1] = i /\ pair[2] < j))
      <4>1. pair[1] \in Nat /\ pair[2] \in Nat /\ pair[1] < pair[2] /\ pair[2] < n
        BY <2>1 DEF AllPairs
      <4> QED
        BY <2>1, <4>1
    <3> QED
      BY <2>2, <3>1, <3>2 DEF Visited
  <2>4. Twice' = Twice
    <3>1. Twice' = (i + 1) * (2 * n - (i + 1) - 1) + 2 * (i + 2 - (i + 1) - 1)
      <4>1. Twice' = i' * (2 * n' - i' - 1) + 2 * (j' - i' - 1)
        BY DEF Twice
      <4> QED
        BY <1>1, <2>1, <2>2, <4>1
    <3>2. Twice = i * (2 * n - i - 1) + 2 * (n - i - 1)
      BY <2>1 DEF Twice
    <3> QED
      BY <2>1, <3>1, <3>2
  <2>5. i' \in 0..n' - 1 /\ j' \in i' + 1..n'
    BY <1>1, <2>1, <2>2
  <2> QED
    BY <1>1, <1>3, <2>1, <2>3, <2>4, <2>5 DEF PairsIInv
<1> QED
  BY <1>2, <1>3

LEMMA PairsNext == ASSUME PairsIInv, [Next]_vars PROVE PairsIInv'
<1>1. ASSUME UNCHANGED pairVars, bearings' \in 0..MaxBearings PROVE PairsIInv'
  BY <1>1 DEF PairsIInv, pairVars, Visited, AllPairs, Twice
<1>2. bearings \in 0..MaxBearings
  BY DEF PairsIInv
<1>3. CASE UNCHANGED vars
  BY <1>1, <1>2, <1>3 DEF vars
<1>4. ASSUME NEW carrier, NEW from, NEW to, NEW x, NEW z, SetParam(carrier, from, to, x, z)
      PROVE  PairsIInv'
  BY <1>1, <1>2, <1>4 DEF SetParam
<1>5. CASE MakeGrid
  BY <1>1, <1>2, <1>5 DEF MakeGrid
<1>6. ASSUME NEW k \in 1..MaxElements, Estimate(k) PROVE PairsIInv'
  BY <1>6, BeginKeeps DEF Estimate
<1>7. ASSUME NEW k \in 0..MaxBearings, Triangulate(k) PROVE PairsIInv'
  BY <1>7, BeginKeeps DEF Triangulate
<1>8. ASSUME EndLoop, bearings' \in 0..MaxBearings PROVE PairsIInv'
  BY <1>8 DEF EndLoop, PairsIInv
<1>9. CASE Estimated
  <2>1. EndLoop /\ bearings' \in 0..MaxBearings
    BY <1>9 DEF Estimated, EndElements
  <2> QED
    BY <1>8, <2>1
<1>10. CASE LoopPairs
  <2>1. bearings' = bearings
    BY <1>10 DEF LoopPairs
  <2>2. EndVertices => EndLoop
    BY DEF EndVertices
  <2> QED
    BY <1>2, <1>8, <1>10, <2>1, <2>2, BodyKeeps, NextOuterKeeps DEF LoopPairs
<1> QED
  BY <1>3, <1>4, <1>5, <1>6, <1>7, <1>9, <1>10 DEF Next, Work

LEMMA PairsInitially == Init => PairsIInv
BY Widths DEF Init, PairsInit, PairsIInv

\* Whatever the number of elements or bearings, the loops meet each pair once,
\* and as many as the number of pairs computed apart from them
\* (lhpel.cpp:48-50, triangulator.cpp:30-32).
THEOREM PairsMetOnce == Spec => []EachPairOnce
<1>1. ASSUME PairsIInv PROVE EachPairOnce
  <2> SUFFICES ASSUME pairsAt # "idle", ~MoreElements, ~MoreBearings
               PROVE  met = AllPairs /\ ~repeated /\ Cardinality(met) = total
    BY DEF EachPairOnce
  <2>1. n # 0
    <3>1. SUFFICES ASSUME n = 0 PROVE FALSE
      OBVIOUS
    <3>2. pairsAt = "bearings" /\ i \in 0..UintMax
      BY <1>1, <3>1 DEF PairsIInv
    <3>3. Before(0) = SizeMax
      BY Widths DEF Before
    <3> QED
      BY <3>1, <3>2, <3>3, Widths DEF MoreBearings
  <2>2. /\ n \in Nat /\ n >= 1 /\ i = n - 1 /\ j = n
        /\ met = Visited /\ repeated = FALSE
        /\ IsFiniteSet(met) /\ 2 * Cardinality(met) = Twice
    <3>1. n \in Nat /\ n >= 1 /\ i \in Nat /\ j \in Nat /\ ~(i < n - 1)
      BY <1>1, <2>1, OuterTest
    <3> QED
      BY <1>1, <2>1, <3>1 DEF PairsIInv
  <2>3. met = AllPairs
    <3>1. ASSUME NEW pair \in AllPairs PROVE pair[1] < i
      <4>1. pair[1] \in Nat /\ pair[2] \in Nat /\ pair[1] < pair[2] /\ pair[2] < n
        BY <2>2 DEF AllPairs
      <4> QED
        BY <2>2, <4>1
    <3> QED
      BY <2>2, <3>1 DEF Visited
  <2>4. 2 * Cardinality(met) = n * (n - 1)
    <3>1. Twice = (n - 1) * (2 * n - (n - 1) - 1) + 2 * (n - (n - 1) - 1)
      BY <2>2 DEF Twice
    <3>2. Twice = n * (n - 1)
      BY <2>2, <3>1
    <3> QED
      BY <2>2, <3>2
  <2>5. Cardinality(met) \in Nat
    BY <2>2, FS_CardinalityType
  <2>6. Cardinality(met) = (n * (n - 1)) \div 2
    <3>1. PICK c \in Nat : c = Cardinality(met)
      BY <2>5
    <3>2. PICK d \in Int : d = n * (n - 1)
      BY <2>2
    <3>3. 2 * c = d
      BY <2>4, <3>1, <3>2
    <3>4. d \div 2 = c
      BY <3>3
    <3> QED
      BY <3>1, <3>2, <3>4
  <2>7. pairsAt = "bearings" => SizePairs(n) = (n * (n - 1)) \div 2
    <3>1. SUFFICES ASSUME pairsAt = "bearings" PROVE SizePairs(n) = (n * (n - 1)) \div 2
      OBVIOUS
    <3>2. n \in 1..MaxBearings
      BY <1>1, <2>2, <3>1 DEF PairsIInv
    <3>3. Before(n) = n - 1
      BY <3>2, BeforeIsLess
    <3>4. n * (n - 1) \in 0..SizeMax
      <4>1. n * (n - 1) <= MaxBearings * MaxBearings
        BY <3>2, Widths
      <4>2. n * (n - 1) \in Nat
        BY <2>2
      <4> QED
        BY <4>1, <4>2, Widths, PairsAssumption
    <3>5. (n * (n - 1)) % (SizeMax + 1) = n * (n - 1)
      BY <3>4, Widths
    <3> QED
      BY <3>3, <3>5 DEF SizePairs
  <2>8. total = (n * (n - 1)) \div 2
    BY <1>1, <2>7 DEF PairsIInv, IntPairs
  <2> QED
    BY <2>2, <2>3, <2>6, <2>8
<1> QED
  BY <1>1, PairsInitially, PairsNext, PTL DEF Spec
-----------------------------------------------------------------------------
(***************************************************************************)
(* The grid.                                                               *)
(***************************************************************************)
Azimuths == Int \cup {Inf}
GridRows == [betta : Int, alphas : Seq(Azimuths)]

\* Column c of a row.
Azimuth(c) == CASE alpha_step = NaN -> NaN
                [] alpha_step = Inf -> (IF c = 1 THEN Inf ELSE NaN)
                [] alpha_step \notin {NaN, Inf} -> (c - 2) * alpha_step

\* The columns of a row so far, and a row that is complete.
Begun(s) == \A c \in 1..Len(s) : s[c] = Azimuth(c) /\ Within(s[c], AlphaStop)
Ended(s) == Begun(s) /\ ~Within(Azimuth(Len(s) + 1), AlphaStop)

Rectangular(grid) == \A r, q \in 1..Len(grid) : Len(grid[r].alphas) = Len(grid[q].alphas)

\* Every azimuth up to x is less than a step from a column of s.
AzimuthsBefore(s, x) ==
    \A az \in 0..Circle : az < x => \E c \in 1..Len(s) : az - s[c] \in 0..alpha_step - 1
ElevationsBefore(grid, x) ==
    \A el \in - Quarter..Quarter :
        el < x => \E r \in 1..Len(grid) : el - grid[r].betta \in 0..betta_step - 1

\* A step is not negative when the frequency is not.
GridTypes ==
    /\ gridAt \in {"idle", "betta", "alpha"}
    /\ f_max \in Int \cup {NaN}
    /\ alpha_step \in Int \cup {Inf, NaN} /\ betta_step \in Int \cup {Inf, NaN}
    /\ rows \in Seq(GridRows) /\ row \in Seq(Azimuths) /\ coord_grid \in Seq(GridRows)
    /\ b \in Int \cup {NaN} /\ used \in Nat
    /\ f_max # NaN /\ f_max >= 0 => alpha_step \in Nat \cup {Inf}

\* The rows made so far are complete, as many as b has come forward and cover
\* what is before b; each has taken no more than Circle + 4 of the memory.
RowLoop ==
    /\ setting = "none"
    /\ \A r \in 1..Len(rows) : Ended(rows[r].alphas)
    /\ rows = <<>> => b = - Quarter
    /\ Proper => /\ b \in Int /\ Len(rows) <= b + Quarter
                 /\ ElevationsBefore(rows, b)
                 /\ \A r \in 1..Len(rows) : AzimuthsBefore(rows[r].alphas, Circle + 1)
                 /\ used <= Len(rows) * (Circle + 4)
                               + (IF gridAt = "alpha" THEN Len(row) ELSE 0)

\* The row in the making covers what is before a.
ColumnLoop ==
    /\ b \in Int /\ b <= Quarter
    /\ Begun(row) /\ a = Azimuth(Len(row) + 1)
    /\ Proper => Len(row) <= Circle + 3 /\ AzimuthsBefore(row, a)

GridIInv ==
    /\ GridTypes
    /\ gridAt # "idle" => RowLoop
    /\ gridAt = "alpha" => ColumnLoop
    /\ Rectangular(coord_grid)
    /\ EndlessOnlyByStep /\ GridSound
-----------------------------------------------------------------------------
LEMMA Angles ==
    /\ Circle \in Nat \ {0} /\ Quarter \in Nat /\ Memory \in Nat
    /\ Inf \notin Int /\ NaN \notin Int /\ Inf # NaN
    /\ Memory >= (2 * Quarter + 1) * (Circle + 4)
BY GridAssumption, MemoryAssumption DEF Quarter

\* A frequency that is not negative gives a step that is not negative.
LEMMA StepType ==
    ASSUME NEW f \in Int \cup {NaN}, NEW extent \in Extents
    PROVE  /\ StepFor(f, extent) \in Int \cup {Inf, NaN}
           /\ f # NaN /\ f >= 0 => StepFor(f, extent) \in Nat \cup {Inf}
<1>1. extent \in Nat /\ Speed \in Nat /\ NaN \notin Int
  BY GridAssumption
<1>2. CASE f = NaN
  BY <1>1, <1>2 DEF StepFor
<1>3. CASE f # NaN /\ f # 0 /\ extent # 0
  <2>1. PICK d : d = f * extent
    OBVIOUS
  <2>2. d \in Int /\ d # 0 /\ (f > 0 => d > 0)
    BY <1>1, <1>3, <2>1
  <2>3. StepFor(f, extent) = Quotient(Speed, d)
    BY <1>3, <2>1 DEF StepFor
  <2>4. CASE d > 0
    <3>1. Quotient(Speed, d) \in Nat
      BY <1>1, <2>2, <2>4 DEF Quotient
    <3> QED
      BY <2>3, <3>1
  <2>5. CASE ~(d > 0)
    <3>1. - d > 0 /\ - d \in Int
      BY <2>2, <2>5
    <3>2. Quotient(Speed, d) \in Int
      BY <1>1, <2>5, <3>1 DEF Quotient
    <3>3. ~(f > 0)
      BY <2>2, <2>5
    <3> QED
      BY <1>3, <2>3, <3>2, <3>3
  <2> QED
    BY <2>4, <2>5
<1>4. CASE f = 0
  BY <1>1, <1>4 DEF StepFor
<1>5. CASE f # NaN /\ f # 0 /\ extent = 0
  <2>1. StepFor(f, extent) = IF f > 0 THEN Inf ELSE NaN
    BY <1>5 DEF StepFor
  <2> QED
    BY <1>5, <2>1
<1> QED
  BY <1>2, <1>3, <1>4, <1>5

\* Columns are a step apart; the first of an infinite step is the only one.
LEMMA AzimuthSteps ==
    ASSUME alpha_step \in Int \cup {Inf, NaN}
    PROVE  /\ Azimuth(1) = AlphaStart
           /\ \A c \in Nat \ {0} : Advance(Azimuth(c), alpha_step) = Azimuth(c + 1)
<1>1. Inf \notin Int /\ NaN \notin Int /\ Inf # NaN
  BY Angles
<1>2. CASE alpha_step \in {Inf, NaN}
  BY <1>1, <1>2 DEF Azimuth, AlphaStart, Advance
<1>3. CASE alpha_step \in Int
  <2>1. \A c \in Nat : Azimuth(c) = (c - 2) * alpha_step
    BY <1>1, <1>3 DEF Azimuth
  <2>2. AlphaStart = 0 - alpha_step
    BY <1>1, <1>3 DEF AlphaStart
  <2>3. Azimuth(1) = AlphaStart
    BY <1>3, <2>1, <2>2
  <2>4. ASSUME NEW c \in Nat \ {0} PROVE Advance(Azimuth(c), alpha_step) = Azimuth(c + 1)
    <3>1. Advance(Azimuth(c), alpha_step) = (c - 2) * alpha_step + alpha_step
      BY <1>1, <1>3, <2>1 DEF Advance
    <3>2. Azimuth(c + 1) = (c + 1 - 2) * alpha_step
      BY <2>1
    <3>3. (c - 2) * alpha_step + alpha_step = (c + 1 - 2) * alpha_step
      BY <1>3
    <3> QED
      BY <3>1, <3>2, <3>3
  <2> QED
    BY <2>3, <2>4
<1> QED
  BY <1>2, <1>3

\* All complete rows have as many columns.
LEMMA EndedAlike ==
    ASSUME NEW s, NEW t, Len(s) \in Nat, Len(t) \in Nat, Ended(s), Ended(t)
    PROVE  Len(s) = Len(t)
<1>1. ASSUME NEW u, NEW v, Len(u) \in Nat, Len(v) \in Nat, Ended(u), Ended(v), Len(u) < Len(v)
      PROVE  FALSE
  <2>1. Len(u) + 1 \in 1..Len(v)
    BY <1>1
  <2>2. Within(Azimuth(Len(u) + 1), AlphaStop)
    BY <1>1, <2>1 DEF Ended, Begun
  <2> QED
    BY <1>1, <2>2 DEF Ended
<1> QED
  BY <1>1

\* With proper steps the columns are whole numbers of steps from 0, and go on
\* exactly to a step past the circle.
LEMMA ProperSteps ==
    ASSUME GridTypes, Proper
    PROVE  /\ alpha_step \in Nat \ {0} /\ betta_step \in Nat \ {0}
           /\ \A c \in Nat : Azimuth(c) \in Int /\ Azimuth(c) = (c - 2) * alpha_step
           /\ \A c \in Nat : Within(Azimuth(c), AlphaStop)
                                <=> (c - 2) * alpha_step <= Circle + alpha_step
<1>1. alpha_step \in Int /\ betta_step \in Int /\ alpha_step > 0 /\ betta_step > 0
  BY DEF GridTypes, Proper
<1>2. Inf \notin Int /\ NaN \notin Int /\ Circle \in Nat
  BY Angles
<1>3. AlphaStop = Circle + alpha_step
  BY <1>1, <1>2 DEF AlphaStop
<1>4. ASSUME NEW c \in Nat
      PROVE  /\ Azimuth(c) \in Int /\ Azimuth(c) = (c - 2) * alpha_step
             /\ Within(Azimuth(c), AlphaStop) <=> (c - 2) * alpha_step <= Circle + alpha_step
  <2>1. Azimuth(c) = (c - 2) * alpha_step
    BY <1>1, <1>2 DEF Azimuth
  <2>2. (c - 2) * alpha_step \in Int /\ Circle + alpha_step \in Int
    BY <1>1, <1>2
  <2> QED
    BY <1>2, <1>3, <2>1, <2>2 DEF Within
<1> QED
  BY <1>1, <1>4

LEMMA EndedProper ==
    ASSUME GridTypes, Proper, NEW s, Len(s) \in Nat, Ended(s)
    PROVE  /\ Len(s) >= 2 /\ s[2] <= 0
           /\ s[Len(s) - 1] > Circle - alpha_step
<1>1. alpha_step \in Nat \ {0} /\ Circle \in Nat
  BY Angles, ProperSteps
<1>2. (Len(s) + 1 - 2) * alpha_step > Circle + alpha_step
  <2>1. Len(s) + 1 \in Nat
    OBVIOUS
  <2>2. ~((Len(s) + 1 - 2) * alpha_step <= Circle + alpha_step)
    BY <2>1, ProperSteps DEF Ended
  <2>3. (Len(s) + 1 - 2) * alpha_step \in Int
    BY <1>1
  <2> QED
    BY <1>1, <2>2, <2>3
<1>3. Len(s) >= 2
  <2>1. CASE Len(s) = 0
    BY <1>1, <1>2, <2>1
  <2>2. CASE Len(s) = 1
    BY <1>1, <1>2, <2>2
  <2> QED
    BY <2>1, <2>2
<1>4. ASSUME NEW c \in 1..Len(s) PROVE s[c] = (c - 2) * alpha_step
  <2>1. s[c] = Azimuth(c)
    BY DEF Ended, Begun
  <2>2. c \in Nat
    OBVIOUS
  <2> QED
    BY <2>1, <2>2, ProperSteps
<1>5. s[2] = 0
  <2>1. s[2] = (2 - 2) * alpha_step
    BY <1>3, <1>4
  <2> QED
    BY <1>1, <2>1
<1>6. s[Len(s) - 1] = (Len(s) - 1 - 2) * alpha_step
  BY <1>3, <1>4
<1>7. (Len(s) - 1 - 2) * alpha_step = (Len(s) + 1 - 2) * alpha_step - 2 * alpha_step
  BY <1>1
<1>8. (Len(s) + 1 - 2) * alpha_step - 2 * alpha_step > Circle - alpha_step
  <2>1. (Len(s) + 1 - 2) * alpha_step \in Int
    BY <1>1
  <2> QED
    BY <1>1, <1>2, <2>1
<1> QED
  BY <1>3, <1>5, <1>6, <1>7, <1>8

\* The largest grid of a proper step fits.
LEMMA MemoryEnough ==
    ASSUME NEW k \in Nat, k <= 2 * Quarter, NEW c \in Nat, c <= Circle + 3,
           NEW u \in Nat, u <= k * (Circle + 4) + c
    PROVE  u < Memory
<1>1. Circle \in Nat /\ Quarter \in Nat /\ Memory \in Nat
      /\ Memory >= (2 * Quarter + 1) * (Circle + 4)
  BY Angles
<1>2. k * (Circle + 4) <= (2 * Quarter) * (Circle + 4)
  BY <1>1
<1>3. (2 * Quarter + 1) * (Circle + 4) = (2 * Quarter) * (Circle + 4) + (Circle + 4)
  BY <1>1
<1>4. k * (Circle + 4) \in Nat /\ (2 * Quarter) * (Circle + 4) \in Nat
  BY <1>1
<1> QED
  BY <1>1, <1>2, <1>3, <1>4

\* The loops over pairs do not touch the grid.
LEMMA GridUnmoved == ASSUME GridIInv, UNCHANGED gridVars PROVE GridIInv'
<1>1. UNCHANGED <<gridAt, f_max, alpha_step, betta_step, rows, row, b, a, used,
                  coord_grid, setting>>
  BY DEF gridVars, loopVars
<1>2. Proper' <=> Proper
  BY <1>1 DEF Proper
<1>3. (\A s : Begun(s)' <=> Begun(s)) /\ (\A s : Ended(s)' <=> Ended(s))
  BY <1>1 DEF Begun, Ended, Azimuth, AlphaStop
<1>4. GridTypes' /\ Rectangular(coord_grid)' /\ EndlessOnlyByStep'
  BY <1>1, <1>2 DEF GridIInv, GridTypes, Rectangular, EndlessOnlyByStep
<1>5. gridAt # "idle" => RowLoop'
  BY <1>1, <1>2, <1>3 DEF GridIInv, RowLoop, ElevationsBefore, AzimuthsBefore
<1>6. gridAt = "alpha" => ColumnLoop'
  BY <1>1, <1>2, <1>3 DEF GridIInv, ColumnLoop, Azimuth, AzimuthsBefore
<1>7. GridSound'
  BY <1>1, <1>2 DEF GridIInv, GridSound
<1> QED
  BY <1>1, <1>4, <1>5, <1>6, <1>7 DEF GridIInv

\* Outside of the loops, and with no new grid, only the types are left to show.
LEMMA LeftKeeps ==
    ASSUME GridIInv, GridTypes', UNCHANGED coord_grid, setting' # "made",
           setting' = "exhausted" => ~Proper', gridAt' = "idle"
    PROVE  GridIInv'
<1>1. Rectangular(coord_grid)' /\ EndlessOnlyByStep'
  BY DEF GridIInv, Rectangular, EndlessOnlyByStep
<1>2. GridSound'
  BY DEF GridIInv, GridSound
<1> QED
  BY <1>1, <1>2 DEF GridIInv

LEMMA ExhaustedKeeps ==
    ASSUME GridIInv, Exhausted, UNCHANGED <<f_max, alpha_step, betta_step>>, ~Proper
    PROVE  GridIInv'
<1>1. /\ gridAt' = "idle" /\ setting' = "exhausted" /\ coord_grid' = coord_grid
      /\ rows' = <<>> /\ row' = <<>> /\ b' = 0 /\ used' = 0
  BY DEF Exhausted, LeaveLoops
<1>2. ~Proper'
  BY DEF Proper
<1>3. GridTypes'
  <2>1. <<>> \in Seq(GridRows) /\ <<>> \in Seq(Azimuths)
    OBVIOUS
  <2> QED
    BY <1>1, <2>1 DEF GridIInv, GridTypes
<1> QED
  BY <1>1, <1>2, <1>3, LeftKeeps

LEMMA SetSignalParamKeeps ==
    ASSUME GridIInv, NEW carrier \in Carriers, NEW from \in Samples, NEW to \in Samples,
           NEW x \in Extents, NEW z \in Extents, SetSignalParam(carrier, from, to, x, z)
    PROVE  GridIInv'
<1>1. /\ f_max' = FMax(carrier, from, to)
      /\ alpha_step' = StepFor(f_max', x) /\ betta_step' = StepFor(f_max', z)
      /\ coord_grid' = coord_grid
  BY DEF SetSignalParam
<1>2. f_max' \in Int \cup {NaN}
  <2>1. from \in Int /\ to \in Int /\ Resolution \in Nat
        /\ (carrier = NaN \/ carrier \in Nat)
    BY GridAssumption
  <2>2. Half(from - to) \in Int
    BY <2>1 DEF Half
  <2> QED
    BY <1>1, <2>1, <2>2 DEF FMax
<1>3. /\ alpha_step' \in Int \cup {Inf, NaN} /\ betta_step' \in Int \cup {Inf, NaN}
      /\ f_max' # NaN /\ f_max' >= 0 => alpha_step' \in Nat \cup {Inf}
  BY <1>1, <1>2, StepType
<1>4. CASE gridAt' = gridAt /\ setting' = "thrown" /\ UNCHANGED loopVars
  <2>1. gridAt' = "idle"
    BY <1>4 DEF SetSignalParam
  <2>2. GridTypes'
    BY <1>1, <1>2, <1>3, <1>4 DEF GridIInv, GridTypes, loopVars
  <2> QED
    BY <1>1, <1>4, <2>1, <2>2, LeftKeeps
<1>5. CASE /\ gridAt' = "betta" /\ b' = - Quarter /\ rows' = <<>> /\ used' = 0
           /\ setting' = "none" /\ UNCHANGED <<row, a>>
  <2>1. Quarter \in Nat /\ Circle \in Nat
    BY Angles
  <2>2. GridTypes'
    <3>1. <<>> \in Seq(GridRows) /\ - Quarter \in Int
      BY <2>1
    <3> QED
      BY <1>1, <1>2, <1>3, <1>5, <3>1 DEF GridIInv, GridTypes
  <2>3. RowLoop'
    <3>1. Len(rows') = 0
      BY <1>5
    <3>2. b' \in Int /\ 0 <= b' + Quarter /\ used' <= 0 * (Circle + 4) + 0
      BY <1>5, <2>1
    <3>3. ElevationsBefore(rows, b)'
      <4>1. \A el \in - Quarter..Quarter : ~(el < - Quarter)
        BY <2>1
      <4> QED
        BY <1>5, <4>1 DEF ElevationsBefore
    <3> QED
      BY <1>5, <3>1, <3>2, <3>3 DEF RowLoop
  <2>4. Rectangular(coord_grid)' /\ EndlessOnlyByStep' /\ GridSound'
    BY <1>1, <1>5 DEF GridIInv, Rectangular, EndlessOnlyByStep, GridSound
  <2> QED
    BY <1>5, <2>2, <2>3, <2>4 DEF GridIInv
<1> QED
  BY <1>4, <1>5 DEF SetSignalParam

LEMMA NextRowKeeps == ASSUME GridIInv, NextRow PROVE GridIInv'
<1>1. /\ gridAt = "betta" /\ gridAt' = "alpha" /\ row' = <<>> /\ a' = AlphaStart
      /\ UNCHANGED <<f_max, alpha_step, betta_step, rows, b, used, coord_grid, setting>>
      /\ Within(b, Quarter)
  BY DEF NextRow
<1>2. GridTypes /\ RowLoop /\ Quarter \in Nat /\ Circle \in Nat
  BY <1>1, Angles DEF GridIInv
<1>3. b \in Int /\ b <= Quarter
  BY <1>1, <1>2, Angles DEF Within, GridTypes
<1>4. <<>> \in Seq(Azimuths) /\ Len(<<>>) = 0
  OBVIOUS
<1>5. GridTypes'
  BY <1>1, <1>2, <1>4 DEF GridTypes
<1>6. Proper' <=> Proper
  BY <1>1 DEF Proper
<1>7. RowLoop'
  <2>1. \A r \in 1..Len(rows) : Ended(rows[r].alphas)'
    BY <1>1, <1>2 DEF RowLoop, Ended, Begun, Azimuth, AlphaStop
  <2>2. Len(row') = 0
    BY <1>1
  <2> QED
    BY <1>1, <1>2, <1>6, <2>1, <2>2 DEF RowLoop, ElevationsBefore, AzimuthsBefore
<1>8. ColumnLoop'
  <2>1. a' = Azimuth(1)
    BY <1>1, <1>2, AzimuthSteps DEF GridTypes
  <2>3. Len(row') = 0
    BY <1>1
  <2>4. (a = Azimuth(Len(row) + 1))'
    <3>1. \A c : Azimuth(c)' = Azimuth(c)
      BY <1>1 DEF Azimuth
    <3>2. Len(row') + 1 = 1
      BY <2>3
    <3> QED
      BY <2>1, <3>1, <3>2
  <2>5. ASSUME Proper PROVE AzimuthsBefore(row, a)'
    <3>1. a' = (1 - 2) * alpha_step /\ alpha_step \in Nat \ {0}
      BY <1>2, <2>1, <2>5, ProperSteps
    <3>2. a' \in Int /\ a' < 0
      BY <3>1
    <3>3. \A az \in 0..Circle : ~(az < a')
      BY <1>2, <3>2
    <3> QED
      BY <1>1, <3>3 DEF AzimuthsBefore
  <2>6. Begun(row)'
    BY <2>3 DEF Begun
  <2>7. 0 <= Circle + 3
    BY <1>2
  <2> QED
    BY <1>1, <1>3, <1>6, <2>3, <2>4, <2>5, <2>6, <2>7 DEF ColumnLoop
<1>9. Rectangular(coord_grid)' /\ EndlessOnlyByStep' /\ GridSound'
  BY <1>1, <1>2, <1>6 DEF RowLoop, GridIInv, Rectangular, EndlessOnlyByStep, GridSound
<1> QED
  BY <1>5, <1>7, <1>8, <1>9 DEF GridIInv

\* In the loops, with proper steps, the memory is not used up.
LEMMA RoomLeft ==
    ASSUME GridIInv, gridAt = "alpha", Proper
    PROVE  used < Memory
<1>1. GridTypes /\ RowLoop /\ ColumnLoop
  BY DEF GridIInv
<1>2. /\ Quarter \in Nat /\ b \in Int /\ b <= Quarter /\ Len(rows) <= b + Quarter
      /\ Len(rows) \in Nat /\ Len(row) \in Nat /\ Len(row) <= Circle + 3
      /\ used \in Nat /\ used <= Len(rows) * (Circle + 4) + Len(row)
  BY <1>1, Angles DEF GridTypes, RowLoop, ColumnLoop
<1>3. Len(rows) <= 2 * Quarter
  BY <1>2
<1> QED
  BY <1>2, <1>3, MemoryEnough

LEMMA NextColumnKeeps == ASSUME GridIInv, NextColumn PROVE GridIInv'
<1>1. /\ gridAt = "alpha" /\ Within(a, AlphaStop)
      /\ UNCHANGED <<f_max, alpha_step, betta_step>>
  BY DEF NextColumn
<1>2. GridTypes /\ RowLoop /\ ColumnLoop /\ Circle \in Nat
  BY <1>1, Angles DEF GridIInv
<1>3. CASE Exhausted
  <2>1. used = Memory /\ Memory \in Nat
    BY <1>3, Angles DEF Exhausted
  <2>2. ~Proper
    BY <1>1, <2>1, RoomLeft
  <2> QED
    BY <1>1, <1>3, <2>2, ExhaustedKeeps
<1>4. CASE /\ row' = Append(row, a) /\ used' = used + 1
           /\ a' = Advance(a, alpha_step)
           /\ UNCHANGED <<gridAt, rows, b, coord_grid, setting>>
  <2>1. a \in Azimuths /\ row \in Seq(Azimuths) /\ Len(row) \in Nat /\ a = Azimuth(Len(row) + 1)
    BY <1>1, <1>2 DEF Within, GridTypes, ColumnLoop, Azimuths
  <2>2. /\ row' \in Seq(Azimuths) /\ Len(row') = Len(row) + 1
        /\ row'[Len(row) + 1] = a /\ \A c \in 1..Len(row) : row'[c] = row[c]
    BY <1>4, <2>1
  <2>3. GridTypes'
    BY <1>1, <1>2, <1>4, <2>2 DEF GridTypes
  <2>4. Proper' <=> Proper
    BY <1>1 DEF Proper
  <2>5. /\ \A c : Azimuth(c)' = Azimuth(c)
        /\ AlphaStop' = AlphaStop
    BY <1>1 DEF Azimuth, AlphaStop
  <2>6. RowLoop'
    <3>1. \A r \in 1..Len(rows) : Ended(rows[r].alphas)'
      BY <1>1, <1>2, <1>4 DEF RowLoop, Ended, Begun, Azimuth, AlphaStop
    <3>2. Proper => used' <= Len(rows) * (Circle + 4) + Len(row')
      <4>1. Len(rows) * (Circle + 4) \in Nat /\ used \in Nat
        BY <1>2 DEF GridTypes
      <4>2. Proper => used <= Len(rows) * (Circle + 4) + Len(row)
        BY <1>1, <1>2 DEF RowLoop
      <4> QED
        BY <1>4, <2>1, <2>2, <4>1, <4>2
    <3> QED
      BY <1>1, <1>2, <1>4, <2>4, <3>1, <3>2 DEF RowLoop, ElevationsBefore, AzimuthsBefore
  <2>7. Begun(row)'
    <3>1. \A c \in 1..Len(row) : row[c] = Azimuth(c) /\ Within(row[c], AlphaStop)
      BY <1>2 DEF ColumnLoop, Begun
    <3>2. \A c \in 1..Len(row') : c \in 1..Len(row) \/ c = Len(row) + 1
      BY <2>1, <2>2
    <3> QED
      BY <1>1, <2>1, <2>2, <2>5, <3>1, <3>2 DEF Begun
  <2>8. (a = Azimuth(Len(row) + 1))'
    <3>1. Len(row) + 1 \in Nat \ {0}
      BY <2>1
    <3>2. Advance(Azimuth(Len(row) + 1), alpha_step) = Azimuth(Len(row) + 1 + 1)
      BY <1>2, <3>1, AzimuthSteps DEF GridTypes
    <3> QED
      BY <1>4, <2>1, <2>2, <2>5, <3>2
  <2>9. ASSUME Proper PROVE Len(row') <= Circle + 3 /\ AzimuthsBefore(row, a)'
    <3>1. /\ alpha_step \in Nat \ {0}
          /\ a \in Int /\ a = (Len(row) + 1 - 2) * alpha_step
          /\ (Len(row) + 1 - 2) * alpha_step <= Circle + alpha_step
      <4>1. Len(row) + 1 \in Nat
        BY <2>1
      <4> QED
        BY <1>1, <1>2, <2>1, <2>9, <4>1, ProperSteps
    <3>2. Len(row') <= Circle + 3
      <4>1. (Len(row) + 1 - 2) * alpha_step = (Len(row) - 2) * alpha_step + alpha_step
        BY <2>1, <3>1
      <4>2. (Len(row) - 2) * alpha_step <= Circle
        <5>1. (Len(row) - 2) * alpha_step \in Int
          BY <2>1, <3>1
        <5> QED
          BY <1>2, <3>1, <4>1, <5>1
      <4>3. CASE Len(row) >= 2
        <5>1. Len(row) - 2 \in Nat
          BY <2>1, <4>3
        <5>2. (Len(row) - 2) * alpha_step >= Len(row) - 2
          BY <3>1, <5>1
        <5>3. (Len(row) - 2) * alpha_step \in Int
          BY <3>1, <5>1
        <5> QED
          BY <1>2, <2>1, <2>2, <4>2, <5>2, <5>3
      <4>4. CASE ~(Len(row) >= 2)
        BY <1>2, <2>1, <2>2, <4>4
      <4> QED
        BY <4>3, <4>4
    <3>3. a' = a + alpha_step
      BY <1>4, <2>9 DEF Advance, Proper
    <3>4. ASSUME NEW az \in 0..Circle, az < a'
          PROVE  \E c \in 1..Len(row') : az - row'[c] \in 0..alpha_step' - 1
      <4>1. CASE az < a
        <5>1. PICK c \in 1..Len(row) : az - row[c] \in 0..alpha_step - 1
          BY <1>2, <2>9, <4>1 DEF ColumnLoop, AzimuthsBefore
        <5>2. c \in 1..Len(row') /\ row'[c] = row[c]
          BY <2>1, <2>2
        <5> QED
          BY <1>1, <5>1, <5>2
      <4>2. CASE ~(az < a)
        <5>1. az - a \in 0..alpha_step - 1
          BY <3>1, <3>3, <3>4, <4>2
        <5>2. Len(row) + 1 \in 1..Len(row')
          BY <2>1, <2>2
        <5> QED
          BY <1>1, <2>2, <5>1, <5>2
      <4> QED
        BY <4>1, <4>2
    <3> QED
      BY <3>2, <3>4 DEF AzimuthsBefore
  <2>10. ColumnLoop'
    <3>1. b' \in Int /\ b' <= Quarter
      BY <1>2, <1>4 DEF ColumnLoop
    <3> QED
      BY <2>4, <2>7, <2>8, <2>9, <3>1 DEF ColumnLoop
  <2>11. Rectangular(coord_grid)' /\ EndlessOnlyByStep' /\ GridSound'
    BY <1>1, <1>2, <1>4 DEF RowLoop, GridIInv, Rectangular, EndlessOnlyByStep, GridSound
  <2> QED
    BY <1>1, <1>4, <2>3, <2>6, <2>10, <2>11 DEF GridIInv
<1> QED
  BY <1>3, <1>4 DEF NextColumn

LEMMA EndRowKeeps == ASSUME GridIInv, EndRow PROVE GridIInv'
<1>1. /\ gridAt = "alpha" /\ ~Within(a, AlphaStop)
      /\ UNCHANGED <<f_max, alpha_step, betta_step>>
  BY DEF EndRow
<1>2. GridTypes /\ RowLoop /\ ColumnLoop /\ Circle \in Nat /\ Quarter \in Nat
  BY <1>1, Angles DEF GridIInv
<1>3. CASE Exhausted
  <2>1. used = Memory /\ Memory \in Nat
    BY <1>3, Angles DEF Exhausted
  <2>2. ~Proper
    BY <1>1, <2>1, RoomLeft
  <2> QED
    BY <1>1, <1>3, <2>2, ExhaustedKeeps
<1>4. CASE /\ rows' = Append(rows, [betta |-> b, alphas |-> row])
           /\ used' = used + 1 /\ b' = Advance(b, betta_step)
           /\ gridAt' = "betta" /\ row' = <<>> /\ a' = 0
           /\ UNCHANGED <<coord_grid, setting>>
  <2>1. /\ rows \in Seq(GridRows) /\ Len(rows) \in Nat
        /\ row \in Seq(Azimuths) /\ Len(row) \in Nat /\ b \in Int /\ b <= Quarter
        /\ [betta |-> b, alphas |-> row] \in GridRows
    BY <1>2 DEF GridTypes, ColumnLoop, GridRows
  <2>2. PICK new \in GridRows : new = [betta |-> b, alphas |-> row]
    BY <2>1
  <2>3. /\ rows' \in Seq(GridRows) /\ Len(rows') = Len(rows) + 1 /\ rows' # <<>>
        /\ rows'[Len(rows) + 1] = new /\ \A r \in 1..Len(rows) : rows'[r] = rows[r]
    BY <1>4, <2>1, <2>2
  <2>4. new.betta = b /\ new.alphas = row
    BY <2>2
  <2>5. b' \in Int \cup {NaN} /\ (Proper => b' = b + betta_step /\ betta_step \in Nat \ {0})
    <3>1. Proper => betta_step \in Nat \ {0} /\ betta_step \notin {Inf, NaN}
      BY <1>2, ProperSteps DEF Proper
    <3>2. betta_step \in Int \cup {Inf, NaN}
      BY <1>2 DEF GridTypes
    <3>3. CASE betta_step \in {Inf, NaN}
      BY <1>4, <3>1, <3>3 DEF Advance
    <3>4. CASE betta_step \notin {Inf, NaN}
      <4>1. b' = b + betta_step /\ betta_step \in Int
        BY <1>4, <3>2, <3>4 DEF Advance
      <4> QED
        BY <2>1, <3>1, <4>1
    <3> QED
      BY <3>3, <3>4
  <2>6. GridTypes'
    <3>1. <<>> \in Seq(Azimuths)
      OBVIOUS
    <3> QED
      BY <1>1, <1>2, <1>4, <2>3, <2>5, <3>1 DEF GridTypes
  <2>7. Proper' <=> Proper
    BY <1>1 DEF Proper
  <2>8. Ended(row)
    BY <1>1, <1>2 DEF Ended, ColumnLoop
  <2>9. \A r \in 1..Len(rows') : r \in 1..Len(rows) \/ r = Len(rows) + 1
    BY <2>1, <2>3
  <2>10. (\A r \in 1..Len(rows) : Ended(rows[r].alphas))'
    <3>1. \A r \in 1..Len(rows') : Ended(rows'[r].alphas)
      BY <1>2, <2>3, <2>4, <2>8, <2>9 DEF RowLoop
    <3>2. \A s : Ended(s)' <=> Ended(s)
      BY <1>1 DEF Ended, Begun, Azimuth, AlphaStop
    <3> QED
      BY <3>1, <3>2
  <2>11. ASSUME Proper
         PROVE  /\ b' \in Int /\ Len(rows') <= b' + Quarter
                /\ used' <= Len(rows') * (Circle + 4) + 0
                /\ ElevationsBefore(rows, b)'
                /\ \A r \in 1..Len(rows') : AzimuthsBefore(rows'[r].alphas, Circle + 1)
    <3>1. /\ b' = b + betta_step /\ betta_step \in Nat \ {0}
          /\ Len(rows) <= b + Quarter /\ Len(row) <= Circle + 3
          /\ used <= Len(rows) * (Circle + 4) + Len(row) /\ used \in Nat
      BY <1>1, <1>2, <2>5, <2>11 DEF RowLoop, ColumnLoop, GridTypes
    <3>2. b' \in Int /\ Len(rows') <= b' + Quarter
      BY <1>2, <2>1, <2>3, <3>1
    <3>3. used' <= Len(rows') * (Circle + 4) + 0
      <4>1. (Len(rows) + 1) * (Circle + 4) = Len(rows) * (Circle + 4) + (Circle + 4)
        BY <1>2, <2>1
      <4>2. Len(rows) * (Circle + 4) \in Nat
        BY <1>2, <2>1
      <4> QED
        BY <1>2, <1>4, <2>1, <2>3, <3>1, <4>1, <4>2
    <3>4. ASSUME NEW el \in - Quarter..Quarter, el < b'
          PROVE  \E r \in 1..Len(rows') : el - rows'[r].betta \in 0..betta_step' - 1
      <4>1. CASE el < b
        <5>1. PICK r \in 1..Len(rows) : el - rows[r].betta \in 0..betta_step - 1
          BY <1>2, <2>11, <4>1 DEF RowLoop, ElevationsBefore
        <5>2. r \in 1..Len(rows') /\ rows'[r] = rows[r]
          BY <2>1, <2>3
        <5> QED
          BY <1>1, <5>1, <5>2
      <4>2. CASE ~(el < b)
        <5>1. el - b \in 0..betta_step - 1
          BY <1>2, <2>1, <3>1, <3>4, <4>2
        <5>2. Len(rows) + 1 \in 1..Len(rows')
          BY <2>1, <2>3
        <5> QED
          BY <1>1, <2>3, <2>4, <5>1, <5>2
      <4> QED
        BY <4>1, <4>2
    <3>5. AzimuthsBefore(row, Circle + 1)
      <4>1. Len(row) + 1 \in Nat
        BY <2>1
      <4>2. /\ a \in Int /\ alpha_step \in Nat \ {0}
            /\ ~(a <= Circle + alpha_step)
        BY <1>1, <1>2, <2>11, <4>1, ProperSteps DEF ColumnLoop
      <4>3. \A az \in 0..Circle : az < a
        BY <1>2, <4>2
      <4> QED
        BY <1>2, <2>11, <4>3 DEF ColumnLoop, AzimuthsBefore
    <3>6. \A r \in 1..Len(rows') : AzimuthsBefore(rows'[r].alphas, Circle + 1)
      BY <1>2, <2>3, <2>4, <2>9, <2>11, <3>5 DEF RowLoop
    <3> QED
      BY <3>2, <3>3, <3>4, <3>6 DEF ElevationsBefore
  <2>12. RowLoop'
    <3>1. setting' = "none" /\ rows' # <<>> /\ gridAt' # "alpha"
      BY <1>2, <1>4, <2>3 DEF RowLoop
    <3>2. ASSUME Proper PROVE (\A r \in 1..Len(rows) : AzimuthsBefore(rows[r].alphas, Circle + 1))'
      <4>1. \A s, x : AzimuthsBefore(s, x)' <=> AzimuthsBefore(s, x)
        BY <1>1 DEF AzimuthsBefore
      <4> QED
        BY <2>11, <3>2, <4>1
    <3> QED
      BY <2>7, <2>10, <2>11, <3>1, <3>2 DEF RowLoop
  <2>13. Rectangular(coord_grid)' /\ EndlessOnlyByStep' /\ GridSound'
    BY <1>1, <1>2, <1>4 DEF RowLoop, GridIInv, Rectangular, EndlessOnlyByStep, GridSound
  <2> QED
    BY <1>1, <1>4, <2>6, <2>12, <2>13 DEF GridIInv
<1> QED
  BY <1>3, <1>4 DEF EndRow

\* The loops ended by their own tests, and the grid is what they have made.
LEMMA GridMadeKeeps == ASSUME GridIInv, GridMade PROVE GridIInv'
<1>1. /\ gridAt = "betta" /\ ~Within(b, Quarter)
      /\ gridAt' = "idle" /\ coord_grid' = rows /\ setting' = "made"
      /\ rows' = <<>> /\ row' = <<>> /\ b' = 0 /\ used' = 0
      /\ UNCHANGED <<f_max, alpha_step, betta_step>>
  BY DEF GridMade, LeaveLoops
<1>2. GridTypes /\ RowLoop /\ Circle \in Nat /\ Quarter \in Nat /\ Inf \notin Int
  BY <1>1, Angles DEF GridIInv
<1>3. GridTypes'
  <2>1. <<>> \in Seq(GridRows) /\ <<>> \in Seq(Azimuths)
    OBVIOUS
  <2> QED
    BY <1>1, <1>2, <2>1 DEF GridTypes
<1>4. /\ rows \in Seq(GridRows) /\ Len(rows) \in Nat
      /\ \A r \in 1..Len(rows) : /\ rows[r].alphas \in Seq(Azimuths)
                                 /\ Len(rows[r].alphas) \in Nat
                                 /\ Ended(rows[r].alphas)
  <2>1. rows \in Seq(GridRows) /\ Len(rows) \in Nat
    BY <1>2 DEF GridTypes
  <2>2. ASSUME NEW r \in 1..Len(rows)
        PROVE  rows[r].alphas \in Seq(Azimuths) /\ Len(rows[r].alphas) \in Nat
    <3>1. rows[r] \in GridRows
      BY <2>1
    <3>2. rows[r].alphas \in Seq(Azimuths)
      BY <3>1 DEF GridRows
    <3> QED
      BY <3>2
  <2> QED
    BY <1>2, <2>1, <2>2 DEF RowLoop
<1>5. rows # <<>>
  <2>1. SUFFICES ASSUME rows = <<>> PROVE FALSE
    OBVIOUS
  <2>2. b = - Quarter
    BY <1>2, <2>1 DEF RowLoop
  <2>3. - Quarter \in Int /\ - Quarter <= Quarter
    BY <1>2
  <2> QED
    BY <1>1, <1>2, <2>2, <2>3 DEF Within
<1>6. Len(rows) > 0 /\ 1 \in 1..Len(rows)
  BY <1>4, <1>5
<1>7. \A r, q \in 1..Len(rows) : Len(rows[r].alphas) = Len(rows[q].alphas)
  BY <1>4, EndedAlike
<1>8. ASSUME f_max # NaN, f_max >= 0 PROVE Len(rows[1].alphas) > 0
  <2>1. alpha_step \in Nat \cup {Inf}
    BY <1>2, <1>8 DEF GridTypes
  <2>2. Within(AlphaStart, AlphaStop)
    <3>1. CASE alpha_step = Inf
      BY <3>1 DEF Within, AlphaStart
    <3>2. CASE alpha_step \in Nat
      <4>1. AlphaStart = 0 - alpha_step /\ AlphaStop = Circle + alpha_step
        BY <3>2, Angles DEF AlphaStart, AlphaStop
      <4>2. /\ 0 - alpha_step \in Int /\ Circle + alpha_step \in Int
            /\ 0 - alpha_step <= Circle + alpha_step
        BY <1>2, <3>2
      <4> QED
        BY <4>1, <4>2 DEF Within
    <3> QED
      BY <2>1, <3>1, <3>2
  <2>3. Azimuth(1) = AlphaStart
    BY <1>2, AzimuthSteps DEF GridTypes
  <2>4. Len(rows[1].alphas) # 0
    <3>1. SUFFICES ASSUME Len(rows[1].alphas) = 0 PROVE FALSE
      OBVIOUS
    <3>2. ~Within(Azimuth(Len(rows[1].alphas) + 1), AlphaStop)
      BY <1>4, <1>6 DEF Ended
    <3> QED
      BY <2>2, <2>3, <3>1, <3>2
  <2> QED
    BY <1>4, <1>6, <2>4
<1>9. ASSUME Proper
      PROVE  /\ \A el \in - Quarter..Quarter : \E r \in 1..Len(rows) :
                   el - rows[r].betta \in 0..betta_step - 1
             /\ \A az \in 0..Circle : \E c \in 1..Len(rows[1].alphas) :
                   az - rows[1].alphas[c] \in 0..alpha_step - 1
             /\ rows[1].alphas[2] <= 0
             /\ rows[1].alphas[Len(rows[1].alphas) - 1] > Circle - alpha_step
  <2>1. b \in Int /\ ElevationsBefore(rows, b) /\ AzimuthsBefore(rows[1].alphas, Circle + 1)
    BY <1>2, <1>6, <1>9 DEF RowLoop
  <2>2. ~(b <= Quarter)
    BY <1>1, <1>2, <2>1 DEF Within
  <2>3. \A el \in - Quarter..Quarter : el < b
    BY <1>2, <2>1, <2>2
  <2>4. \A az \in 0..Circle : az < Circle + 1
    BY <1>2
  <2>5. /\ rows[1].alphas[2] <= 0
        /\ rows[1].alphas[Len(rows[1].alphas) - 1] > Circle - alpha_step
    BY <1>2, <1>4, <1>6, <1>9, EndedProper
  <2> QED
    BY <2>1, <2>3, <2>4, <2>5 DEF ElevationsBefore, AzimuthsBefore
<1>10. Rectangular(coord_grid)'
  BY <1>1, <1>7 DEF Rectangular
<1>11. EndlessOnlyByStep'
  BY <1>1 DEF EndlessOnlyByStep
<1>12. GridSound'
  <2>1. Proper' <=> Proper
    BY <1>1 DEF Proper
  <2>2. \A r \in 1..Len(rows) : Len(rows[r].alphas) = Len(rows[1].alphas)
    BY <1>6, <1>7
  <2> QED
    BY <1>1, <1>6, <1>8, <1>9, <2>1, <2>2 DEF GridSound
<1> QED
  BY <1>1, <1>3, <1>10, <1>11, <1>12 DEF GridIInv

LEMMA GridInitially == Init => GridIInv
<1> SUFFICES ASSUME Init PROVE GridIInv
  OBVIOUS
<1>1. /\ gridAt = "idle" /\ f_max = 0 /\ alpha_step = 0 /\ betta_step = 0
      /\ rows = <<>> /\ row = <<>> /\ b = 0 /\ used = 0 /\ coord_grid = <<>>
      /\ setting = "none"
  BY DEF Init, GridInit
<1>2. /\ <<>> \in Seq(GridRows) /\ <<>> \in Seq(Azimuths) /\ Len(<<>>) = 0
  OBVIOUS
<1>3. GridTypes
  BY <1>1, <1>2 DEF GridTypes
<1>4. Rectangular(coord_grid) /\ EndlessOnlyByStep /\ GridSound
  BY <1>1, <1>2 DEF Rectangular, EndlessOnlyByStep, GridSound
<1> QED
  BY <1>1, <1>3, <1>4 DEF GridIInv

LEMMA GridNext == ASSUME GridIInv, [Next]_vars PROVE GridIInv'
<1>1. CASE MakeGrid
  BY <1>1, NextRowKeeps, NextColumnKeeps, EndRowKeeps, GridMadeKeeps DEF MakeGrid, GridStep
<1>2. ASSUME NEW carrier \in Carriers, NEW from \in Samples, NEW to \in Samples,
             NEW x \in Extents, NEW z \in Extents, SetParam(carrier, from, to, x, z)
      PROVE  GridIInv'
  BY <1>2, SetSignalParamKeeps DEF SetParam
<1>3. CASE \/ UNCHANGED vars
           \/ \E k \in 1..MaxElements : Estimate(k)
           \/ \E k \in 0..MaxBearings : Triangulate(k)
           \/ LoopPairs \/ Estimated
  <2>1. UNCHANGED gridVars
    BY <1>3 DEF vars, Estimate, Triangulate, LoopPairs, Estimated
  <2> QED
    BY <2>1, GridUnmoved
<1> QED
  BY <1>1, <1>2, <1>3 DEF Next, Work

\* The loops of generate_grid keep to the columns and rows that the steps give
\* (gridpel.cpp:87-115).
THEOREM GridInvariance == Spec => []GridIInv
BY GridInitially, GridNext, PTL DEF Spec

\* For every circle, resolution, carrier and antenna: set_signal_param uses up the
\* memory only when a step is not a number that moves an angle forwards
\* (gridpel.cpp:103-115).
THEOREM EndlessJustified == Spec => []EndlessOnlyByStep
<1>1. GridIInv => EndlessOnlyByStep
  BY DEF GridIInv
<1> QED
  BY <1>1, GridInvariance, PTL

\* For every circle, resolution, carrier and antenna: the grid can be indexed by
\* its first row, has a point for a frequency that is not negative, and with
\* proper steps has one less than a step from every direction.
THEOREM GridUsable == Spec => []GridSound
<1>1. GridIInv => GridSound
  BY DEF GridIInv
<1> QED
  BY <1>1, GridInvariance, PTL
=============================================================================
