---------------------------- MODULE WrappersProofs ----------------------------
(***************************************************************************)
(* Proofs about Wrappers, for any Antennas, addresses and files.           *)
(*                                                                         *)
(* Antennas that are gone point to nothing, so what holds of those that    *)
(* are there holds of all pointers; that is what each call preserves.      *)
(* While AntennaSystem.load runs, what it was asked for is what it has     *)
(* loaded followed by what it has still to load.                           *)
(***************************************************************************)
EXTENDS Wrappers, TLAPS

USE WrapperAssumption

Types == /\ held \subseteq Wrappers
         /\ antennas \in Seq(Wrappers)
         /\ c_ant \in [Wrappers -> Addresses \cup {Null}]
         /\ heap \in [Addresses -> Files \cup {Free}]
         /\ toLoad \in Seq(Files \cup {Broken})
         /\ asked \in Seq(Files \cup {Broken})
         /\ dropped \subseteq Addresses
         /\ overthrown \in BOOLEAN

Pointing == {w \in Wrappers : c_ant[w] # Null}

GoneNull == Pointing \subseteq Live(held, antennas)

\* OneOwner, of all pointers.
Owned == ~overthrown => \A w \in Pointing :
            heap[c_ant[w]] # Free /\ \A v \in Pointing \ {w} : c_ant[v] # c_ant[w]

\* LeaksOnlyDropped, of all pointers.
Reached == \A p \in Addresses :
              heap[p] # Free => (\E w \in Pointing : c_ant[w] = p) \/ p \in dropped

\* What is left of AntennaSystem.load is what was asked for and not loaded.
LoadState ==
    /\ asked = <<>> => Idle
    /\ asked # <<>> =>
         /\ Len(asked) = Len(antennas) + Len(toLoad)
         /\ \A k \in 1..Len(antennas) :
               /\ antennas[k] \in Pointing /\ asked[k] \in Files
               /\ asked[k] = heap[c_ant[antennas[k]]]
         /\ \A k \in 1..Len(toLoad) : toLoad[k] = asked[Len(antennas) + k]

IInv == Types /\ GoneNull /\ Owned /\ Reached /\ LoadState

LEMMA LiveWrappers ==
    ASSUME NEW h \in SUBSET Wrappers, NEW list \in Seq(Wrappers)
    PROVE  Live(h, list) \subseteq Wrappers
BY DEF Live, ToSet

LEMMA InitIInv == Init => IInv
<1> SUFFICES ASSUME Init PROVE IInv
  OBVIOUS
<1>1. Types
  <2>1. <<>> \in Seq(Wrappers) /\ <<>> \in Seq(Files \cup {Broken})
    OBVIOUS
  <2> QED
    BY <2>1 DEF Init, Types
<1>2. Pointing = {}
  BY DEF Init, Pointing
<1> QED
  BY <1>1, <1>2 DEF Init, IInv, GoneNull, Owned, Reached, LoadState, Idle
-----------------------------------------------------------------------------
(***************************************************************************)
(* What a call does.                                                       *)
(***************************************************************************)

\* References that change take pointers away and no antenna.
LEMMA ReferKeeps ==
    ASSUME IInv, NEW h \in SUBSET Wrappers, NEW list \in Seq(Wrappers),
           Refer(h, list), overthrown' = overthrown,
           toLoad' \in Seq(Files \cup {Broken}), asked' \in Seq(Files \cup {Broken}),
           LoadState'
    PROVE  IInv'
<1>1. Types'
  BY DEF IInv, Types, Refer
<1>2. /\ Pointing' = Pointing \cap Live(h, list)
      /\ \A w \in Pointing' : c_ant'[w] = c_ant[w]
      /\ heap' = heap
  BY DEF IInv, Types, Refer, Pointing
<1>3. GoneNull'
  BY <1>2 DEF GoneNull, Refer
<1>4. Owned'
  BY <1>2 DEF IInv, Owned
<1>5. Reached'
  <2> SUFFICES ASSUME NEW p \in Addresses, heap[p] # Free, p \notin dropped'
               PROVE  \E w \in Pointing' : c_ant'[w] = p
    BY <1>2 DEF Reached
  <2>1. PICK w \in Pointing : c_ant[w] = p
    BY DEF IInv, Reached, Refer
  <2>2. w \in Live(h, list)
    BY <2>1 DEF Refer, Pointing
  <2> QED
    BY <1>2, <2>1, <2>2
<1> QED
  BY <1>1, <1>3, <1>4, <1>5 DEF IInv

\* An Antenna gets a new C++ antenna; the one it had was deleted.
LEMMA NewKeeps ==
    ASSUME IInv, NEW w \in Wrappers, w \in Live(held, antennas)', NEW file \in Files,
           NewAt(w, Deleted(w), file), Defined(w),
           GoneNull', Types', LoadState', dropped' = dropped, overthrown' = overthrown
    PROVE  IInv'
<1>1. PICK p \in Addresses : /\ Deleted(w)[p] = Free
                             /\ heap' = [Deleted(w) EXCEPT ![p] = file]
                             /\ c_ant' = [c_ant EXCEPT ![w] = p]
  BY DEF NewAt
<1>2. /\ Pointing' = Pointing \cup {w}
      /\ c_ant'[w] = p /\ heap'[p] = file /\ file # Free
      /\ \A v \in Wrappers \ {w} : c_ant'[v] = c_ant[v]
      /\ \A q \in Addresses : q # p => heap'[q] = Deleted(w)[q]
  BY <1>1 DEF IInv, Types, Pointing, Deleted
<1>3. /\ \A q \in Addresses : q # c_ant[w] => Deleted(w)[q] = heap[q]
      /\ c_ant[w] # Null => Deleted(w)[c_ant[w]] = Free
  BY DEF IInv, Types, Deleted
<1>4. Owned'
  <2> SUFFICES ASSUME ~overthrown
               PROVE  \A v \in Pointing' :
                         /\ heap'[c_ant'[v]] # Free
                         /\ \A u \in Pointing' \ {v} : c_ant'[u] # c_ant'[v]
    BY DEF Owned
  <2>1. ASSUME NEW v \in Pointing' \ {w}
        PROVE  /\ heap'[c_ant'[v]] # Free /\ c_ant'[v] # p
               /\ v \in Pointing /\ c_ant'[v] = c_ant[v]
    <3>1. /\ v \in Pointing /\ c_ant'[v] = c_ant[v] /\ c_ant[v] \in Addresses
          /\ heap[c_ant[v]] # Free /\ c_ant[v] # c_ant[w]
      BY <1>2 DEF IInv, Types, Owned, Pointing
    <3>2. Deleted(w)[c_ant[v]] = heap[c_ant[v]]
      BY <1>3, <3>1
    <3> QED
      BY <1>1, <1>2, <3>1, <3>2
  <2>2. \A v, u \in Pointing \ {w} : v # u => c_ant[v] # c_ant[u]
    BY DEF IInv, Owned
  <2> QED
    BY <1>2, <2>1, <2>2
<1>5. Reached'
  <2> SUFFICES ASSUME NEW q \in Addresses, heap'[q] # Free, q \notin dropped, q # p
               PROVE  \E v \in Pointing' : c_ant'[v] = q
    BY <1>2 DEF Reached
  <2>1. q # c_ant[w] /\ heap[q] # Free
    BY <1>2, <1>3
  <2>2. PICK v \in Pointing : c_ant[v] = q
    BY <2>1 DEF IInv, Reached
  <2> QED
    BY <1>2, <2>1, <2>2 DEF Pointing
<1> QED
  BY <1>4, <1>5 DEF IInv

\* load() deletes the antenna and throws, or throws before there is one.
LEMMA ThrowKeeps ==
    ASSUME IInv, NEW w \in Wrappers, NEW file, Throws(w, Deleted(w), file), Defined(w),
           LoadState', UNCHANGED <<held, antennas, dropped>>,
           toLoad' \in Seq(Files \cup {Broken}), asked' \in Seq(Files \cup {Broken})
    PROVE  IInv'
<1>1. /\ c_ant' = c_ant /\ Pointing' = Pointing
      /\ heap' = Deleted(w)
      /\ overthrown' = (overthrown \/ c_ant[w] # Null)
  BY DEF Throws, Pointing
<1>2. /\ \A q \in Addresses : q # c_ant[w] => heap'[q] = heap[q]
      /\ c_ant[w] = Null => heap' = heap
      /\ c_ant[w] # Null => heap'[c_ant[w]] = Free
  BY <1>1 DEF IInv, Types, Deleted
<1>3. Types'
  BY <1>1 DEF IInv, Types, Deleted
<1>4. GoneNull'
  BY <1>1 DEF IInv, GoneNull
<1>5. Owned'
  BY <1>1, <1>2 DEF IInv, Owned
<1>6. Reached'
  BY <1>1, <1>2 DEF IInv, Types, Reached, Pointing
<1> QED
  BY <1>3, <1>4, <1>5, <1>6 DEF IInv
-----------------------------------------------------------------------------
(***************************************************************************)
(* The calls.                                                              *)
(***************************************************************************)

\* A call outside of AntennaSystem.load.
LEMMA CallKeeps ==
    ASSUME IInv, Idle, toLoad' = toLoad, asked' = <<>>
    PROVE  LoadState' /\ toLoad' \in Seq(Files \cup {Broken})
                      /\ asked' \in Seq(Files \cup {Broken})
BY DEF IInv, Types, LoadState, Idle

LEMMA ReferenceKeeps ==
    ASSUME IInv,
           \/ NewAntenna
           \/ \E w \in Wrappers : Drop(w) \/ AppendPost(w)
           \/ \E k \in DOMAIN antennas : GetPost(k) \/ Pop(k)
    PROVE  IInv'
<1>1. /\ held \subseteq Wrappers /\ antennas \in Seq(Wrappers)
      /\ \A k \in DOMAIN antennas : antennas[k] \in Wrappers
      /\ \A w \in Wrappers : Append(antennas, w) \in Seq(Wrappers)
  BY DEF IInv, Types
<1>2. \A k \in DOMAIN antennas : RemoveAt(antennas, k) \in Seq(Wrappers)
  BY <1>1 DEF RemoveAt
<1>3. PICK h \in SUBSET Wrappers, list \in Seq(Wrappers) : Refer(h, list)
  <2>1. CASE NewAntenna
    BY <1>1, <2>1 DEF NewAntenna
  <2>2. CASE \E w \in Wrappers : Drop(w) \/ AppendPost(w)
    BY <1>1, <2>2 DEF Drop, AppendPost
  <2>3. CASE \E k \in DOMAIN antennas : GetPost(k) \/ Pop(k)
    BY <1>1, <1>2, <2>3 DEF GetPost, Pop
  <2> QED
    BY <2>1, <2>2, <2>3
<1>4. Idle /\ asked' = <<>> /\ toLoad' = toLoad /\ overthrown' = overthrown
  BY DEF NewAntenna, Drop, AppendPost, GetPost, Pop
<1> QED
  BY <1>3, <1>4, CallKeeps, ReferKeeps

LEMMA LoadKeeps ==
    ASSUME IInv, NEW w \in Wrappers, NEW file \in Files \cup {Broken}, Load(w, file)
    PROVE  IInv'
<1>1. Idle /\ asked' = <<>> /\ w \in held /\ Defined(w)
      /\ UNCHANGED <<held, antennas, toLoad, dropped>>
  BY DEF Load
<1>2. CASE file # Broken /\ NewAt(w, Deleted(w), file) /\ UNCHANGED overthrown
  <2>1. Types'
    BY <1>1, <1>2, CallKeeps DEF NewAt, Deleted, IInv, Types
  <2>2. GoneNull' /\ w \in Live(held, antennas)'
    BY <1>1, <1>2 DEF NewAt, IInv, Types, GoneNull, Pointing, Live
  <2> QED
    BY <1>1, <1>2, <2>1, <2>2, CallKeeps, NewKeeps
<1>3. CASE Throws(w, Deleted(w), file)
  BY <1>1, <1>3, CallKeeps, ThrowKeeps
<1> QED
  BY <1>2, <1>3 DEF Load

LEMMA SetModelKeeps ==
    ASSUME IInv, NEW w \in Wrappers, NEW file \in Files, SetModel(w, file)
    PROVE  IInv'
<1>1. Idle /\ asked' = <<>> /\ w \in held /\ Defined(w)
      /\ UNCHANGED <<held, antennas, toLoad, dropped, overthrown>>
  BY DEF SetModel
<1>2. CASE c_ant[w] = Null /\ NewAt(w, heap, file)
  <2>1. Deleted(w) = heap
    BY <1>2 DEF Deleted
  <2>2. Types'
    BY <1>1, <1>2, CallKeeps DEF NewAt, IInv, Types
  <2>3. GoneNull' /\ w \in Live(held, antennas)'
    BY <1>1, <1>2 DEF NewAt, IInv, Types, GoneNull, Pointing, Live
  <2> QED
    BY <1>1, <1>2, <2>1, <2>2, <2>3, CallKeeps, NewKeeps
<1>3. CASE /\ c_ant[w] # Null
           /\ heap' = [heap EXCEPT ![c_ant[w]] = file]
           /\ UNCHANGED c_ant
  <2>1. Types' /\ LoadState'
    BY <1>1, <1>3, CallKeeps DEF IInv, Types
  <2>2. /\ Pointing' = Pointing /\ heap'[c_ant[w]] = file /\ file # Free
        /\ w \in Pointing /\ c_ant[w] \in Addresses
        /\ \A q \in Addresses : q # c_ant[w] => heap'[q] = heap[q]
    BY <1>3 DEF IInv, Types, Pointing
  <2>3. GoneNull'
    BY <1>1, <2>2 DEF IInv, GoneNull
  <2>4. Owned'
    BY <1>1, <1>3, <2>2 DEF IInv, Types, Owned, Pointing
  <2>5. Reached'
    BY <1>1, <1>3, <2>2 DEF IInv, Reached
  <2> QED
    BY <2>1, <2>3, <2>4, <2>5 DEF IInv
<1> QED
  BY <1>2, <1>3 DEF SetModel

LEMMA LoadSystemKeeps ==
    ASSUME IInv, NEW files \in Systems, LoadSystem(files)
    PROVE  IInv'
<1>1. files \in Seq(Files \cup {Broken}) /\ files # <<>>
  BY DEF Systems, SeqOf, LoadSystem
<1>2. LoadState'
  BY <1>1 DEF LoadSystem, Refer, LoadState, Idle
<1>3. /\ held \in SUBSET Wrappers /\ <<>> \in Seq(Wrappers)
      /\ Refer(held, <<>>) /\ toLoad' = files /\ asked' = files
      /\ overthrown' = overthrown
  BY DEF LoadSystem, IInv, Types
<1> QED
  BY <1>1, <1>2, <1>3, ReferKeeps

LEMMA LoadPostKeeps == ASSUME IInv, LoadPost PROVE IInv'
<1>1. PICK w \in Wrappers \ Live(held, antennas) :
         /\ ~Idle
         /\ Head(toLoad) # Broken
         /\ NewAt(w, heap, Head(toLoad))
         /\ antennas' = Append(antennas, w)
         /\ toLoad' = Tail(toLoad)
         /\ UNCHANGED <<held, asked, dropped, overthrown>>
  BY DEF LoadPost
<1>2. /\ toLoad # <<>> /\ Head(toLoad) \in Files /\ Head(toLoad) = toLoad[1]
      /\ Tail(toLoad) \in Seq(Files \cup {Broken})
      /\ Len(toLoad) \in Nat \ {0} /\ Len(Tail(toLoad)) = Len(toLoad) - 1
      /\ \A k \in 1..Len(toLoad) - 1 : Tail(toLoad)[k] = toLoad[k + 1]
  BY <1>1 DEF Idle, IInv, Types
<1>3. /\ antennas' \in Seq(Wrappers) /\ Len(antennas) \in Nat
      /\ Len(antennas') = Len(antennas) + 1 /\ antennas'[Len(antennas) + 1] = w
      /\ \A k \in 1..Len(antennas) : antennas'[k] = antennas[k] /\ antennas[k] # w
  BY <1>1 DEF IInv, Types, Live, ToSet
<1>4. c_ant[w] = Null /\ Deleted(w) = heap /\ Defined(w)
  BY <1>1 DEF IInv, GoneNull, Pointing, Deleted, Defined
<1>5. PICK p \in Addresses : /\ heap[p] = Free
                             /\ heap' = [heap EXCEPT ![p] = Head(toLoad)]
                             /\ c_ant' = [c_ant EXCEPT ![w] = p]
  BY <1>1 DEF NewAt
<1>6. Types'
  BY <1>1, <1>2, <1>3, <1>5 DEF IInv, Types
<1>7. Live(held, antennas)' = Live(held, antennas) \cup {w}
  <2>1. /\ DOMAIN antennas = 1..Len(antennas)
        /\ DOMAIN antennas' = 1..Len(antennas) + 1
    BY <1>3 DEF IInv, Types
  <2>2. ToSet(antennas') = ToSet(antennas) \cup {w}
    BY <1>3, <2>1 DEF ToSet
  <2> QED
    BY <1>1, <2>2 DEF Live
<1>8. Pointing' = Pointing \cup {w}
  BY <1>5, <1>6 DEF IInv, Types, Pointing
<1>9. GoneNull'
  BY <1>7, <1>8 DEF IInv, GoneNull
<1>10. LoadState'
  <2>1. asked # <<>> /\ asked' = asked
    BY <1>1 DEF IInv, LoadState
  <2>2. Len(asked') = Len(antennas') + Len(toLoad')
    <3>1. Len(asked) = Len(antennas) + Len(toLoad)
      BY <2>1 DEF IInv, LoadState
    <3>2. Len(toLoad') = Len(toLoad) - 1
      BY <1>1, <1>2
    <3> QED
      BY <1>2, <1>3, <2>1, <3>1, <3>2
  <2>3. ASSUME NEW k \in 1..Len(antennas)
        PROVE  /\ antennas'[k] \in Pointing' /\ asked'[k] \in Files
               /\ asked'[k] = heap'[c_ant'[antennas'[k]]]
    <3>1. /\ antennas[k] \in Pointing /\ asked[k] \in Files
          /\ asked[k] = heap[c_ant[antennas[k]]]
      BY <2>1 DEF IInv, LoadState
    <3>2. c_ant[antennas[k]] # p /\ c_ant[antennas[k]] \in Addresses
      BY <1>5, <3>1 DEF IInv, Types, Pointing
    <3> QED
      BY <1>3, <1>5, <1>8, <2>1, <3>1, <3>2 DEF IInv, Types, Pointing
  <2>4. LET k == Len(antennas) + 1
        IN  /\ antennas'[k] \in Pointing' /\ asked'[k] \in Files
            /\ asked'[k] = heap'[c_ant'[antennas'[k]]]
    <3>1. toLoad[1] = asked[Len(antennas) + 1]
      BY <1>2, <2>1 DEF IInv, LoadState
    <3>2. heap'[c_ant'[w]] = Head(toLoad)
      BY <1>5 DEF IInv, Types
    <3> QED
      BY <1>2, <1>3, <1>8, <2>1, <3>1, <3>2
  <2>5. ASSUME NEW k \in 1..Len(toLoad')
        PROVE  toLoad'[k] = asked'[Len(antennas') + k]
    <3>1. k \in Nat /\ k + 1 \in 1..Len(toLoad) /\ toLoad'[k] = toLoad[k + 1]
      BY <1>1, <1>2
    <3>2. toLoad[k + 1] = asked[Len(antennas) + (k + 1)]
      BY <2>1, <3>1 DEF IInv, LoadState
    <3>3. Len(antennas) + (k + 1) = Len(antennas') + k
      BY <1>3, <3>1
    <3> QED
      BY <2>1, <3>1, <3>2, <3>3
  <2>6. \A k \in 1..Len(antennas') : k \in 1..Len(antennas) \/ k = Len(antennas) + 1
    BY <1>3
  <2> QED
    BY <2>1, <2>2, <2>3, <2>4, <2>5, <2>6 DEF LoadState
<1> QED
  BY <1>1, <1>2, <1>4, <1>6, <1>7, <1>9, <1>10, NewKeeps

LEMMA PostThrowsKeeps == ASSUME IInv, PostThrows PROVE IInv'
<1>1. PICK w \in Wrappers \ Live(held, antennas) : Throws(w, heap, Head(toLoad))
  BY DEF PostThrows
<1>2. c_ant[w] = Null /\ Deleted(w) = heap /\ Defined(w)
  BY <1>1 DEF IInv, GoneNull, Pointing, Deleted, Defined
<1>3. /\ toLoad' = <<>> /\ asked' = <<>> /\ <<>> \in Seq(Files \cup {Broken})
      /\ UNCHANGED <<held, antennas, dropped>>
  BY DEF PostThrows
<1>4. LoadState'
  BY <1>3 DEF LoadState, Idle
<1> QED
  BY <1>1, <1>2, <1>3, <1>4, ThrowKeeps

\* Each C++ antenna is accounted for, and a load is as far as it has come.
THEOREM Invariance == Spec => []IInv
<1>1. ASSUME IInv, Next PROVE IInv'
  BY <1>1, ReferenceKeeps, LoadKeeps, SetModelKeeps, LoadSystemKeeps, LoadPostKeeps,
     PostThrowsKeeps DEF Next
<1>2. ASSUME IInv, UNCHANGED vars PROVE IInv'
  BY <1>2 DEF vars, IInv, Types, Pointing, GoneNull, Live, Owned, Reached, LoadState, Idle
<1> QED
  BY <1>1, <1>2, InitIInv, PTL DEF Spec
-----------------------------------------------------------------------------
LEMMA AllPointersLive == ASSUME IInv PROVE Loaded = Pointing
<1>1. Live(held, antennas) \subseteq Wrappers
  BY LiveWrappers DEF IInv, Types
<1> QED
  BY <1>1 DEF IInv, GoneNull, Loaded, Pointing

\* No call deletes, reads or changes the antenna of another Antenna, until a load
\* has failed half way.
THEOREM Ownership == Spec => []OneOwner
<1>1. IInv => OneOwner
  BY AllPointersLive DEF IInv, Owned, OneOwner
<1> QED
  BY <1>1, Invariance, PTL

\* Only dropping an Antenna leaks its C++ antenna.
THEOREM LeaksAccounted == Spec => []LeaksOnlyDropped
<1>1. IInv => LeaksOnlyDropped
  BY AllPointersLive DEF IInv, Reached, LeaksOnlyDropped
<1> QED
  BY <1>1, Invariance, PTL

\* A system that was loaded has the antennas of its file.
THEOREM SystemComplete == Spec => []SystemAsAsked
<1>1. ASSUME IInv, Idle, asked # <<>>
      PROVE  asked = [k \in DOMAIN antennas |-> heap[c_ant[antennas[k]]]]
  <2>1. /\ DOMAIN asked = 1..Len(asked) /\ DOMAIN antennas = 1..Len(antennas)
        /\ asked = [k \in 1..Len(asked) |-> asked[k]]
        /\ Len(asked) \in Nat /\ Len(antennas) \in Nat
    BY <1>1 DEF IInv, Types
  <2>2. Len(asked) = Len(antennas)
    BY <1>1, <2>1 DEF IInv, LoadState, Idle
  <2> QED
    BY <1>1, <2>1, <2>2 DEF IInv, LoadState
<1>2. IInv => SystemAsAsked
  BY <1>1 DEF SystemAsAsked
<1> QED
  BY <1>2, Invariance, PTL
=============================================================================
