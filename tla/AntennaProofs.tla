---------------------------- MODULE AntennaProofs ----------------------------
(***************************************************************************)
(* Proofs about Antenna, for any antennas, models, bases, orientations and *)
(* corrections.                                                            *)
(*                                                                         *)
(* Every operation on an antenna replaces all that is derived by what is   *)
(* derived from its new parameters, except the adjustment of the elements, *)
(* which DerivedUpToDate excludes; it is inductive once the variables are  *)
(* known to be functions of the antennas.                                  *)
(***************************************************************************)
EXTENDS Antenna, TLAPS

Maps == /\ model = [a \in Antennas |-> model[a]]
        /\ base = [a \in Antennas |-> base[a]]
        /\ orientation = [a \in Antennas |-> orientation[a]]
        /\ centre = [a \in Antennas |-> centre[a]]
        /\ elements = [a \in Antennas |-> elements[a]]
        /\ centreReal = [a \in Antennas |-> centreReal[a]]
        /\ stages = [a \in Antennas |-> stages[a]]
        /\ adjusted = [a \in Antennas |-> adjusted[a]]

\* DerivedUpToDate, of one antenna.
UpToDate(a) ==
    model[a] # Blank =>
        /\ centreReal[a] = Placed(centre[a], orientation[a], base[a])
        /\ ~adjusted[a] => elements[a] = AllPlaced(model[a], orientation[a], base[a])
        /\ stages[a] = Stages(model[a])

IInv == Maps /\ \A a \in Antennas : UpToDate(a)

\* What an operation that gives the antenna a anew and derives the rest does.
LEMMA DerivedAnew ==
    ASSUME IInv, NEW a \in Antennas, NEW m, NEW b, NEW q, NEW c,
           Give(a, m, b, q, c), Derive(a, m, b, q, c),
           stages' = [stages EXCEPT ![a] = Stages(m)]
           \/ (stages' = stages /\ m = model[a] /\ model[a] # Blank)
    PROVE  IInv'
<1>1. Maps'
  BY DEF IInv, Maps, Give, Derive
<1>2. ASSUME NEW x \in Antennas PROVE UpToDate(x)'
  <2>1. CASE x = a
    <3>1. /\ model'[a] = m /\ base'[a] = b /\ orientation'[a] = q /\ centre'[a] = c
          /\ elements'[a] = AllPlaced(m, q, b)
          /\ centreReal'[a] = Placed(c, q, b)
      BY DEF IInv, Maps, Give, Derive
    <3>2. stages'[a] = Stages(m)
      BY DEF IInv, Maps, UpToDate
    <3> QED
      BY <2>1, <3>1, <3>2 DEF UpToDate
  <2>2. CASE x # a
    <3>1. /\ model'[x] = model[x] /\ base'[x] = base[x]
          /\ orientation'[x] = orientation[x] /\ centre'[x] = centre[x]
          /\ elements'[x] = elements[x] /\ centreReal'[x] = centreReal[x]
          /\ stages'[x] = stages[x] /\ adjusted'[x] = adjusted[x]
      BY <2>2 DEF IInv, Maps, Give, Derive
    <3> QED
      BY <3>1 DEF IInv, UpToDate
  <2> QED
    BY <2>1, <2>2
<1> QED
  BY <1>1, <1>2 DEF IInv

LEMMA AdjustKeeps ==
    ASSUME IInv, NEW a \in Antennas, NEW correction, Adjust(a, correction)
    PROVE  IInv'
<1>1. Maps'
  BY DEF IInv, Maps, Adjust, givenVars
<1>2. ASSUME NEW x \in Antennas PROVE UpToDate(x)'
  <2>1. UNCHANGED <<model, base, orientation, centre, centreReal, stages>>
    BY DEF Adjust, givenVars
  <2>2. CASE x = a
    <3>1. adjusted'[x]
      BY <2>2 DEF IInv, Maps, Adjust
    <3> QED
      BY <2>1, <3>1 DEF IInv, UpToDate
  <2>3. CASE x # a
    <3>1. elements'[x] = elements[x] /\ adjusted'[x] = adjusted[x]
      BY <2>3 DEF IInv, Maps, Adjust
    <3> QED
      BY <2>1, <3>1 DEF IInv, UpToDate
  <2> QED
    BY <2>2, <2>3
<1> QED
  BY <1>1, <1>2 DEF IInv

LEMMA NextKeeps == ASSUME IInv, Next PROVE IInv'
<1>1. ASSUME NEW a \in Antennas, NEW m \in Models, SetModel(a, m) \/ LoadModel(a, m)
      PROVE  IInv'
  BY <1>1, DerivedAnew DEF SetModel, LoadModel
<1>2. ASSUME NEW a \in Antennas, NEW b \in Bases, SetBase(a, b) PROVE IInv'
  BY <1>2, DerivedAnew DEF SetBase
<1>3. ASSUME NEW a \in Antennas, NEW q \in Turns, SetOrientation(a, q) PROVE IInv'
  BY <1>3, DerivedAnew DEF SetOrientation
<1>4. ASSUME NEW a \in Antennas, NEW c \in Centres, SetPhaseCenter(a, c) PROVE IInv'
  BY <1>4, DerivedAnew DEF SetPhaseCenter
<1>5. ASSUME NEW a \in Antennas, NEW from \in Antennas, Copy(a, from) PROVE IInv'
  BY <1>5, DerivedAnew DEF Copy, Copied
<1>6. ASSUME NEW a \in Antennas, NEW correction \in Corrections, Adjust(a, correction)
      PROVE  IInv'
  BY <1>6, AdjustKeeps
<1>7. ASSUME NEW a \in Antennas, Save(a) PROVE IInv'
  BY <1>7 DEF Save, givenVars, derivedVars, IInv, Maps, UpToDate
<1>8. ASSUME NEW a \in Antennas, NEW b \in Bases, NEW q \in Turns, SystemLoad(a, b, q)
      PROVE  IInv'
  BY <1>8, DerivedAnew DEF SystemLoad
<1> QED
  BY <1>1, <1>2, <1>3, <1>4, <1>5, <1>6, <1>7, <1>8 DEF Next

\* The variables are maps of the antennas, and each antenna is up to date.
THEOREM Invariance == Spec => []IInv
<1>1. Init => IInv
  BY DEF Init, IInv, Maps, UpToDate
<1>2. ASSUME IInv, UNCHANGED vars PROVE IInv'
  BY <1>2 DEF vars, givenVars, derivedVars, IInv, Maps, UpToDate
<1> QED
  BY <1>1, <1>2, NextKeeps, PTL DEF Spec

\* No sequence of operations leaves the derived coordinates or stages stale.
THEOREM NeverStale == Spec => []DerivedUpToDate
<1>1. IInv => DerivedUpToDate
  BY DEF IInv, UpToDate, DerivedUpToDate
<1> QED
  BY <1>1, Invariance, PTL

\* A copy has its elements where the original has them.
THEOREM CopyFaithful == Spec => CopyInPlace
<1>1. ASSUME IInv, NEW a \in Antennas, NEW from \in Antennas,
             Copy(a, from), ~adjusted[from]
      PROVE  elements'[a] = elements[from]
  <2>1. elements'[a] = AllPlaced(model[from], orientation[from], base[from])
    BY <1>1 DEF Copy, Copied, Derive, IInv, Maps
  <2> QED
    BY <1>1, <2>1 DEF Copy, IInv, UpToDate
<1>2. IInv => [\A a, from \in Antennas :
                  Copy(a, from) /\ ~adjusted[from] => elements'[a] = elements[from]]_vars
  BY <1>1
<1> QED
  BY <1>2, Invariance, PTL DEF CopyInPlace
-----------------------------------------------------------------------------
(***************************************************************************)
(* The types of an antenna's state.                                        *)
(***************************************************************************)
USE ArgumentsAssumption

LEMMA PlacedType ==
    ASSUME NEW p \in Point, NEW q \in Int, NEW b \in Point
    PROVE  Placed(p, q, b) \in Point
<1>1. Rotated(p, q) \in Point
  <2>1. q % 4 \in 0..3
    OBVIOUS
  <2>2. CASE q % 4 = 0
    BY <2>2 DEF Rotated
  <2>3. CASE q % 4 = 1
    BY <2>3 DEF Rotated, Point
  <2>4. CASE q % 4 = 2
    BY <2>4 DEF Rotated, Point
  <2>5. CASE q % 4 = 3
    BY <2>5 DEF Rotated, Point
  <2> QED
    BY <2>1, <2>2, <2>3, <2>4, <2>5
<1> QED
  BY <1>1 DEF Placed, Plus, Point

\* The elements in space are points, as many as those of the model.
LEMMA ElementsType ==
    ASSUME NEW m \in Seq(Point), NEW q \in Int, NEW b \in Point
    PROVE  AllPlaced(m, q, b) \in Seq(Point) /\ Len(AllPlaced(m, q, b)) = Len(m)
<1>1. /\ DOMAIN m = 1..Len(m) /\ Len(m) \in Nat
      /\ \A ch \in 1..Len(m) : m[ch] \in Point
  OBVIOUS
<1>2. \A ch \in 1..Len(m) : Placed(m[ch], q, b) \in Point
  BY <1>1, PlacedType
<1>3. AllPlaced(m, q, b) = [ch \in 1..Len(m) |-> Placed(m[ch], q, b)]
  BY <1>1 DEF AllPlaced
<1> QED
  BY <1>1, <1>2, <1>3

LEMMA StagesType ==
    ASSUME NEW m \in Seq(Point)
    PROVE  Stages(m) \subseteq DOMAIN m /\ Stages(m) \in SUBSET Nat
BY DEF Stages

\* An operation that gives the antenna a anew keeps the types.
LEMMA DerivedTyped ==
    ASSUME TypeOK, NEW a \in Antennas, NEW m \in Seq(Point), NEW b \in Point,
           NEW q \in Turns \cup {0}, NEW c \in Point,
           Give(a, m, b, q, c), Derive(a, m, b, q, c),
           stages' = [stages EXCEPT ![a] = Stages(m)]
           \/ (stages' = stages /\ m = model[a] /\ model[a] # Blank),
           file' = file
    PROVE  TypeOK'
<1>1. /\ AllPlaced(m, q, b) \in Seq(Point) /\ Len(AllPlaced(m, q, b)) = Len(m)
      /\ Placed(c, q, b) \in Point
  BY ElementsType, PlacedType
<1>2. /\ model' \in [Antennas -> Seq(Point) \cup {Blank}]
      /\ base' \in [Antennas -> Point] /\ orientation' \in [Antennas -> Turns \cup {0}]
      /\ centre' \in [Antennas -> Point]
      /\ model' = [model EXCEPT ![a] = m]
  BY DEF TypeOK, Give
<1>3. /\ elements' \in [Antennas -> Seq(Point)] /\ centreReal' \in [Antennas -> Point]
      /\ adjusted' \in [Antennas -> BOOLEAN]
      /\ elements' = [elements EXCEPT ![a] = AllPlaced(m, q, b)]
  BY <1>1 DEF TypeOK, Derive
<1>4. /\ stages' \in [Antennas -> SUBSET Nat]
      /\ stages'[a] \subseteq DOMAIN m
      /\ \A x \in Antennas \ {a} : stages'[x] = stages[x]
  BY StagesType DEF TypeOK
<1>5. ASSUME NEW x \in Antennas, model'[x] # Blank
      PROVE  Len(elements'[x]) = Len(model'[x]) /\ stages'[x] \subseteq DOMAIN model'[x]
  <2>1. CASE x = a
    BY <1>1, <1>2, <1>3, <1>4, <2>1 DEF TypeOK
  <2>2. CASE x # a
    <3>1. model'[x] = model[x] /\ elements'[x] = elements[x] /\ stages'[x] = stages[x]
      BY <1>2, <1>3, <1>4, <2>2 DEF TypeOK
    <3> QED
      BY <1>5, <3>1 DEF TypeOK
  <2> QED
    BY <2>1, <2>2
<1> QED
  BY <1>2, <1>3, <1>4, <1>5 DEF TypeOK

LEMMA AdjustTyped ==
    ASSUME TypeOK, NEW a \in Antennas, NEW correction \in Corrections, Adjust(a, correction)
    PROVE  TypeOK'
<1> DEFINE moved == [ch \in DOMAIN elements[a] |->
                       IF ch <= 3 THEN Plus(elements[a][ch], correction[ch])
                                  ELSE elements[a][ch]]
<1>1. moved \in Seq(Point) /\ Len(moved) = Len(elements[a])
  <2>1. /\ DOMAIN elements[a] = 1..Len(elements[a]) /\ Len(elements[a]) \in Nat
        /\ \A ch \in 1..Len(elements[a]) : elements[a][ch] \in Point
    BY DEF TypeOK
  <2>2. ASSUME NEW ch \in 1..Len(elements[a])
        PROVE  (IF ch <= 3 THEN Plus(elements[a][ch], correction[ch])
                           ELSE elements[a][ch]) \in Point
    <3>1. CASE ch <= 3
      <4>1. correction[ch] \in Point /\ elements[a][ch] \in Point
        BY <2>1, <3>1
      <4>2. Plus(elements[a][ch], correction[ch]) \in Point
        BY <4>1 DEF Plus, Point
      <4> QED
        BY <3>1, <4>2
    <3>2. CASE ~(ch <= 3)
      BY <2>1, <3>2
    <3> QED
      BY <3>1, <3>2
  <2>3. moved \in [1..Len(elements[a]) -> Point]
    BY <2>1, <2>2
  <2> HIDE DEF moved
  <2> QED
    BY <2>1, <2>3
<1>2. /\ elements' = [elements EXCEPT ![a] = moved]
      /\ adjusted' = [adjusted EXCEPT ![a] = TRUE]
      /\ UNCHANGED <<model, base, orientation, centre, centreReal, stages, file>>
  BY DEF Adjust, givenVars, fileVars
<1> HIDE DEF moved
<1>3. ASSUME NEW x \in Antennas PROVE Len(elements'[x]) = Len(elements[x])
  BY <1>1, <1>2 DEF TypeOK
<1> QED
  BY <1>1, <1>2, <1>3 DEF TypeOK

LEMMA NextTyped == ASSUME TypeOK, Next PROVE TypeOK'
<1>1. /\ Origin \in Point /\ 0 \in Turns \cup {0}
      /\ \A a \in Antennas :
            /\ base[a] \in Point /\ centre[a] \in Point
            /\ orientation[a] \in Turns \cup {0}
            /\ model[a] # Blank => model[a] \in Seq(Point)
  BY DEF Origin, Point, TypeOK
<1>2. ASSUME NEW a \in Antennas, NEW m \in Models, SetModel(a, m) \/ LoadModel(a, m)
      PROVE  TypeOK'
  <2>1. m \in Seq(Point)
    OBVIOUS
  <2> QED
    BY <1>1, <1>2, <2>1, DerivedTyped DEF SetModel, LoadModel, fileVars
<1>3. ASSUME NEW a \in Antennas, NEW b \in Bases, SetBase(a, b) PROVE TypeOK'
  BY <1>1, <1>3, DerivedTyped DEF SetBase, fileVars
<1>4. ASSUME NEW a \in Antennas, NEW q \in Turns, SetOrientation(a, q) PROVE TypeOK'
  BY <1>1, <1>4, DerivedTyped DEF SetOrientation, fileVars
<1>5. ASSUME NEW a \in Antennas, NEW c \in Centres, SetPhaseCenter(a, c) PROVE TypeOK'
  BY <1>1, <1>5, DerivedTyped DEF SetPhaseCenter, fileVars
<1>6. ASSUME NEW a \in Antennas, NEW from \in Antennas, Copy(a, from) PROVE TypeOK'
  BY <1>1, <1>6, DerivedTyped DEF Copy, Copied, fileVars
<1>7. ASSUME NEW a \in Antennas, NEW correction \in Corrections, Adjust(a, correction)
      PROVE  TypeOK'
  BY <1>7, AdjustTyped
<1>8. ASSUME NEW a \in Antennas, Save(a) PROVE TypeOK'
  BY <1>8 DEF Save, givenVars, derivedVars, TypeOK
<1>9. ASSUME NEW a \in Antennas, NEW b \in Bases, NEW q \in Turns, SystemLoad(a, b, q)
      PROVE  TypeOK'
  <2>1. file \in Seq(Point)
    BY <1>9 DEF SystemLoad, TypeOK
  <2> QED
    BY <1>1, <1>9, <2>1, DerivedTyped DEF SystemLoad, fileVars
<1> QED
  BY <1>2, <1>3, <1>4, <1>5, <1>6, <1>7, <1>8, <1>9 DEF Next

\* For every model there are as many elements in space as in the model, and
\* stages begin at elements of it (antenna.cpp:184-202).
THEOREM TypeCorrect == Spec => []TypeOK
<1>1. Init => TypeOK
  BY DEF Init, TypeOK, Origin, Point
<1>2. ASSUME TypeOK, UNCHANGED vars PROVE TypeOK'
  BY <1>2 DEF vars, givenVars, derivedVars, fileVars, TypeOK
<1> QED
  BY <1>1, <1>2, NextTyped, PTL DEF Spec
=============================================================================
