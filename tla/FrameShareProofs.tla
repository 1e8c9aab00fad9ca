--------------------------- MODULE FrameShareProofs ---------------------------
(***************************************************************************)
(* Proofs about FrameShare for any finite set of threads, any set of       *)
(* frames and any serials, when the calls are serialised.                  *)
(***************************************************************************)
EXTENDS FrameShare, FiniteSetTheorems, TLAPS

\* The cardinality facts the counter is compared with.
LEMMA HolderCount ==
    ASSUME NEW S \in SUBSET Threads
    PROVE  /\ Cardinality(S) \in Nat
           /\ Cardinality(S) = 0 <=> S = {}
           /\ \A t \in S : Cardinality(S \ {t}) = Cardinality(S) - 1
           /\ \A t \in Threads \ S : Cardinality(S \cup {t}) = Cardinality(S) + 1
           /\ \A t \in S : Cardinality(S) = 1 => S = {t}
<1>1. IsFiniteSet(S)
  BY ThreadsAssumption, FS_Subset
<1>2. /\ Cardinality(S) \in Nat
      /\ Cardinality(S) = 0 <=> S = {}
  BY <1>1, FS_CardinalityType, FS_EmptySet
<1>3. \A t \in S : /\ Cardinality(S \ {t}) = Cardinality(S) - 1
                   /\ IsFiniteSet(S \ {t})
  BY <1>1, FS_RemoveElement
<1>4. \A t \in Threads \ S : Cardinality(S \cup {t}) = Cardinality(S) + 1
  BY <1>1, FS_AddElement
<1>5. \A t \in S : Cardinality(S) = 1 => S = {t}
  <2> SUFFICES ASSUME NEW t \in S, Cardinality(S) = 1 PROVE S = {t}
    OBVIOUS
  <2>1. Cardinality(S \ {t}) = 0
    BY <1>3
  <2>2. S \ {t} = {}
    BY <1>3, <2>1, FS_EmptySet
  <2> QED
    BY <2>2
<1> QED
  BY <1>2, <1>3, <1>4, <1>5

\* The constructors establish the invariant.
LEMMA InitIInv == Init => IInv
<1> SUFFICES ASSUME Init PROVE IInv
  OBVIOUS
<1>1. TypeOK
  BY DEF Init, TypeOK, Phases, Points
<1>2. OneCaller /\ CallState
  BY DEF Init, OneCaller, CallState
<1>3. CounterCountsHolders /\ Ownership /\ SerialsDiffer /\ NoStrayErase
  BY DEF Init, CounterCountsHolders, Ownership, SerialsDiffer, NoStrayErase
<1> QED
  BY <1>1, <1>2, <1>3 DEF IInv

\* The producer's operations work on frames no thread has.
LEMMA RefillIInv ==
    ASSUME IInv, NEW f \in Frames,
           Clear(f) \/ \E g \in Frames : Assign(f, g)
    PROVE  IInv'
<1> USE DEF IInv
<1>1. /\ phase[f] # "shared"
      /\ reference_counter' = [reference_counter EXCEPT ![f] = 1]
      /\ phase' = [phase EXCEPT ![f] = "cleared"]
      /\ \E s \in Serials \cup {-1} : serial' = [serial EXCEPT ![f] = s]
      /\ UNCHANGED <<parent, refs, given, stray, callVars>>
  BY DEF Clear, Assign, TypeOK
<1>2. TypeOK'
  BY <1>1 DEF TypeOK, callVars, Phases
<1>3. OneCaller'
  BY <1>1 DEF OneCaller, callVars
<1>4. CallState'
  BY <1>1 DEF CallState, TypeOK, callVars
<1>5. CounterCountsHolders'
  BY <1>1 DEF CounterCountsHolders, TypeOK
<1>6. Ownership'
  BY <1>1 DEF Ownership, TypeOK, Leaving, InCall, callVars
<1>7. SerialsDiffer' /\ NoStrayErase'
  BY <1>1 DEF SerialsDiffer, NoStrayErase, TypeOK
<1> QED
  BY <1>2, <1>3, <1>4, <1>5, <1>6, <1>7

LEMMA PublishIInv ==
    ASSUME IInv, NEW f \in Frames, NEW t \in Threads, NEW s \in Serials,
           Publish(f, t, s)
    PROVE  IInv'
<1> USE DEF IInv, Publish
<1>1. TypeOK'
  BY DEF TypeOK, callVars, Phases
<1>2. OneCaller'
  BY DEF OneCaller, callVars
<1>3. CallState'
  BY DEF CallState, TypeOK, callVars
<1>4. CounterCountsHolders'
  <2>1. Cardinality({t}) = 1
    BY FS_Singleton
  <2>2. Cardinality(refs'[f]) = reference_counter'[f]
    BY <2>1 DEF Ownership, TypeOK
  <2> QED
    BY <2>2 DEF CounterCountsHolders, TypeOK
<1>5. Ownership'
  BY DEF Ownership, TypeOK, Leaving, InCall, callVars
<1>6. SerialsDiffer' /\ NoStrayErase'
  BY DEF SerialsDiffer, NoStrayErase, Outstanding, TypeOK
<1> QED
  BY <1>1, <1>2, <1>3, <1>4, <1>5, <1>6

\* Entering a call changes nothing but the caller's locals.
LEMMA LoadIInv ==
    ASSUME IInv, Serialised, NEW f \in Frames, NEW t \in Threads,
           EraseLoad(t, f) \/ \E u \in Threads : CopyLoad(t, f, u)
    PROVE  IInv'
<1> USE DEF IInv
<1>1. PICK u \in Threads \cup {None} :
         /\ \A v \in Threads : pc[v] = "idle"
         /\ t \in refs[f]
         /\ \E p \in {"copy", "erase"} :
              /\ pc' = [pc EXCEPT ![t] = p]
              /\ p = "copy" => u \in Threads /\ u \notin given[f]
         /\ arg' = [arg EXCEPT ![t] = f]
         /\ dest' = [dest EXCEPT ![t] = u]
         /\ reg' = [reg EXCEPT ![t] = reference_counter[f]]
         /\ UNCHANGED <<frameVars, ownerVars>>
  <2>1. CASE EraseLoad(t, f)
    <3>1. dest[t] \in Threads \cup {None} /\ dest' = [dest EXCEPT ![t] = dest[t]]
      BY <2>1 DEF EraseLoad, TypeOK
    <3> QED
      BY <2>1, <3>1 DEF EraseLoad, MayCall
  <2>2. CASE \E u \in Threads : CopyLoad(t, f, u)
    BY <2>2 DEF CopyLoad, MayCall
  <2> QED
    BY <2>1, <2>2
<1>2. TypeOK'
  BY <1>1 DEF TypeOK, frameVars, ownerVars, Points
<1>3. OneCaller'
  BY <1>1 DEF OneCaller, TypeOK
<1>4. CallState'
  BY <1>1 DEF CallState, Ownership, TypeOK, frameVars, ownerVars
<1>5. CounterCountsHolders' /\ SerialsDiffer' /\ NoStrayErase'
  BY <1>1 DEF CounterCountsHolders, SerialsDiffer, NoStrayErase, frameVars, ownerVars
<1>6. Ownership'
  <2>1. \A g \in Frames : Leaving(g) = {}
    BY <1>1 DEF Leaving, InCall
  <2> QED
    BY <1>1, <2>1 DEF Ownership, frameVars, ownerVars
<1> QED
  BY <1>2, <1>3, <1>4, <1>5, <1>6

\* The caller is alone, so no register but its own can be out of date.
LEMMA OthersIdle ==
    ASSUME IInv, NEW t \in Threads, pc[t] # "idle"
    PROVE  /\ \A u \in Threads \ {t} : pc[u] = "idle" /\ arg[u] = None
           /\ \A f \in Frames :
                Leaving(f) = IF f = arg[t] /\ pc[t] \in {"test", "signal"}
                             THEN {t} ELSE {}
<1>1. \A u \in Threads \ {t} : pc[u] = "idle" /\ arg[u] = None
  BY DEF IInv, OneCaller, CallState
<1> QED
  BY <1>1, NoneAssumption DEF Leaving, InCall

LEMMA CopyStoreIInv ==
    ASSUME IInv, NEW t \in Threads, CopyStore(t)
    PROVE  IInv'
<1> USE DEF IInv, CopyStore, Return
<1> DEFINE f == arg[t]
<1>1. /\ f \in Frames /\ phase[f] = "shared" /\ t \in refs[f]
      /\ reg[t] = reference_counter[f] /\ dest[t] \in Threads \ refs[f]
  BY DEF CallState
<1>2. \A u \in Threads \ {t} : pc[u] = "idle" /\ arg[u] = None
  BY OthersIdle
<1>3. TypeOK'
  BY <1>1 DEF TypeOK, Points
<1>4. OneCaller' /\ CallState'
  BY <1>1, <1>2 DEF OneCaller, CallState, TypeOK
<1>5. CounterCountsHolders'
  <2>1. Cardinality(refs'[f]) = Cardinality(refs[f]) + 1
    BY <1>1, HolderCount DEF TypeOK
  <2>2. Cardinality(refs'[f]) = reference_counter'[f]
    BY <1>1, <2>1 DEF CounterCountsHolders, TypeOK
  <2> QED
    BY <1>1, <2>2 DEF CounterCountsHolders, TypeOK
<1>6. Ownership'
  <2>1. \A g \in Frames : Leaving(g) = {}
    BY OthersIdle
  <2> QED
    BY <1>1, <2>1 DEF Ownership, TypeOK
<1>7. SerialsDiffer' /\ NoStrayErase'
  BY DEF SerialsDiffer, NoStrayErase
<1> QED
  BY <1>3, <1>4, <1>5, <1>6, <1>7

\* The store of -- takes the thread out of the holders and of the counter.
LEMMA EraseStoreIInv ==
    ASSUME IInv, NEW t \in Threads, EraseStore(t)
    PROVE  IInv'
<1> USE DEF IInv, EraseStore
<1> DEFINE f == arg[t]
<1>1. /\ f \in Frames /\ phase[f] = "shared" /\ t \in refs[f]
      /\ reg[t] = reference_counter[f]
  BY DEF CallState
<1>2. \A u \in Threads \ {t} : pc[u] = "idle" /\ arg[u] = None
  BY OthersIdle
<1>3. /\ Cardinality(refs[f]) = reference_counter[f]
      /\ reference_counter[f] \in Nat \ {0}
  BY <1>1, HolderCount DEF CounterCountsHolders, TypeOK
<1>4. TypeOK'
  BY <1>1, <1>3 DEF TypeOK, Points
<1>5. OneCaller' /\ CallState'
  BY <1>1, <1>2 DEF OneCaller, CallState, TypeOK
<1>6. CounterCountsHolders'
  <2>1. Cardinality(refs'[f]) = Cardinality(refs[f]) - 1
    BY <1>1, HolderCount DEF TypeOK
  <2>2. Cardinality(refs'[f]) = reference_counter'[f]
    BY <1>1, <1>3, <2>1 DEF TypeOK
  <2> QED
    BY <1>1, <2>2 DEF CounterCountsHolders, TypeOK
<1>7. Ownership'
  <2>1. t \in Leaving(f)'
    BY <1>1 DEF Leaving, InCall, TypeOK
  <2>2. \A g \in Frames : Leaving(g) = {}
    BY OthersIdle
  <2> QED
    BY <1>1, <2>1, <2>2 DEF Ownership, TypeOK
<1>8. SerialsDiffer' /\ NoStrayErase'
  BY DEF SerialsDiffer, NoStrayErase
<1> QED
  BY <1>4, <1>5, <1>6, <1>7, <1>8

\* What the invariant says of a thread that is past the store of erase().
LEMMA AfterDecrement ==
    ASSUME IInv, NEW t \in Threads, pc[t] \in {"test", "signal"}
    PROVE  /\ arg[t] \in Frames /\ phase[arg[t]] = "shared" /\ parent[arg[t]]
           /\ t \notin refs[arg[t]]
           /\ reg[t] = reference_counter[arg[t]]
           /\ \A v \in Tested(t) : v = reg[t]
           /\ reg[t] = 0 <=> refs[arg[t]] = {}
           /\ \A f \in Frames : Leaving(f) = IF f = arg[t] THEN {t} ELSE {}
<1>1. /\ arg[t] \in Frames /\ phase[arg[t]] = "shared" /\ parent[arg[t]]
      /\ t \notin refs[arg[t]] /\ reg[t] = reference_counter[arg[t]]
  BY DEF IInv, CallState, Ownership
<1>2. \A v \in Tested(t) : v = reg[t]
  BY <1>1 DEF Tested
<1>3. refs[arg[t]] \in SUBSET Threads /\ Cardinality(refs[arg[t]]) = reg[t]
  BY <1>1 DEF IInv, TypeOK, CounterCountsHolders
<1>4. reg[t] = 0 <=> refs[arg[t]] = {}
  BY <1>3, HolderCount
<1>5. \A f \in Frames : Leaving(f) = IF f = arg[t] THEN {t} ELSE {}
  BY OthersIdle
<1> QED
  BY <1>1, <1>2, <1>4, <1>5

LEMMA EraseLastIInv ==
    ASSUME IInv, NEW t \in Threads, EraseLast(t)
    PROVE  IInv'
<1> USE DEF IInv, EraseLast, LastHolder
<1>1. reg[t] = 0 /\ pc[t] = "test" /\ pc' = [pc EXCEPT ![t] = "signal"]
  BY AfterDecrement
<1>2. TypeOK'
  BY DEF TypeOK, Points, frameVars, ownerVars
<1>3. OneCaller' /\ CallState'
  BY <1>1 DEF OneCaller, CallState, TypeOK, frameVars, ownerVars
<1>4. Ownership'
  <2>1. \A g \in Frames : Leaving(g)' = Leaving(g)
    BY <1>1 DEF Leaving, InCall, TypeOK
  <2> QED
    BY <2>1 DEF Ownership, frameVars, ownerVars
<1>5. CounterCountsHolders' /\ SerialsDiffer' /\ NoStrayErase'
  BY DEF CounterCountsHolders, SerialsDiffer, NoStrayErase, frameVars, ownerVars
<1> QED
  BY <1>2, <1>3, <1>4, <1>5

LEMMA EraseNotLastIInv ==
    ASSUME IInv, NEW t \in Threads, EraseNotLast(t)
    PROVE  IInv'
<1> USE DEF IInv, EraseNotLast, Return, LastHolder
<1>1. /\ arg[t] \in Frames /\ refs[arg[t]] # {}
      /\ \A f \in Frames : Leaving(f) = IF f = arg[t] THEN {t} ELSE {}
  BY AfterDecrement
<1>2. \A u \in Threads \ {t} : pc[u] = "idle" /\ arg[u] = None
  BY OthersIdle
<1>3. TypeOK'
  BY DEF TypeOK, Points, frameVars, ownerVars
<1>4. OneCaller' /\ CallState'
  BY <1>2 DEF OneCaller, CallState, TypeOK, frameVars, ownerVars
<1>5. Ownership'
  BY <1>1 DEF Ownership, frameVars, ownerVars
<1>6. CounterCountsHolders' /\ SerialsDiffer' /\ NoStrayErase'
  BY DEF CounterCountsHolders, SerialsDiffer, NoStrayErase, frameVars, ownerVars
<1> QED
  BY <1>3, <1>4, <1>5, <1>6

\* erase_frame finds the frame the thread erases, and only that one.
LEMMA SignalFindsFrame ==
    ASSUME IInv, NEW t \in Threads, pc[t] = "signal"
    PROVE  Outstanding(serial[arg[t]]) = {arg[t]} /\ refs[arg[t]] = {}
<1>1. /\ arg[t] \in Frames /\ phase[arg[t]] = "shared"
      /\ refs[arg[t]] = {}
  BY AfterDecrement DEF IInv, CallState
<1> QED
  BY <1>1 DEF IInv, SerialsDiffer, Outstanding

LEMMA EraseSignalIInv ==
    ASSUME IInv, NEW t \in Threads, EraseSignal(t)
    PROVE  IInv'
<1> USE DEF IInv, EraseSignal, Return
<1> DEFINE f == arg[t]
<1>1. /\ f \in Frames /\ phase[f] = "shared" /\ refs[f] = {}
      /\ Outstanding(serial[f]) = {f}
  BY AfterDecrement, SignalFindsFrame
<1>2. \A u \in Threads \ {t} : pc[u] = "idle" /\ arg[u] = None
  BY OthersIdle
<1>3. phase' = [phase EXCEPT ![f] = "pool"] /\ stray' = stray
  BY <1>1 DEF TypeOK, NoStrayErase
<1>4. TypeOK'
  BY <1>1, <1>3 DEF TypeOK, Points, Phases, frameVars
<1>5. OneCaller' /\ CallState'
  BY <1>1, <1>2 DEF OneCaller, CallState, TypeOK, frameVars
<1>6. Ownership'
  <2>1. \A g \in Frames \ {f} : Leaving(g) = {}
    BY AfterDecrement
  <2>2. \A g \in Frames : phase'[g] = IF g = f THEN "pool" ELSE phase[g]
    BY <1>3 DEF TypeOK
  <2> QED
    BY <1>1, <2>1, <2>2 DEF Ownership, frameVars
<1>7. CounterCountsHolders' /\ SerialsDiffer' /\ NoStrayErase'
  BY <1>1, <1>3 DEF CounterCountsHolders, SerialsDiffer, NoStrayErase, TypeOK, frameVars
<1> QED
  BY <1>4, <1>5, <1>6, <1>7

\* Every step of the serialised system preserves the invariant.
LEMMA NextIInv ==
    ASSUME Serialised, IInv, [Next]_vars
    PROVE  IInv'
<1>1. CASE UNCHANGED vars
  BY <1>1 DEF vars, frameVars, ownerVars, callVars, IInv, TypeOK, OneCaller,
     CallState, CounterCountsHolders, Ownership, Leaving, InCall, SerialsDiffer,
     NoStrayErase
<1>2. ASSUME NEW f \in Frames,
             Clear(f) \/ \E g \in Frames : Assign(f, g)
      PROVE  IInv'
  BY <1>2, RefillIInv
<1>3. ASSUME NEW f \in Frames, NEW t \in Threads, NEW s \in Serials,
             Publish(f, t, s)
      PROVE  IInv'
  BY <1>3, PublishIInv
<1>4. ASSUME NEW f \in Frames, NEW t \in Threads,
             EraseLoad(t, f) \/ \E u \in Threads : CopyLoad(t, f, u)
      PROVE  IInv'
  BY <1>4, LoadIInv
<1>5. ASSUME NEW t \in Threads, Step(t)
      PROVE  IInv'
  BY <1>5, CopyStoreIInv, EraseStoreIInv, EraseLastIInv, EraseNotLastIInv,
     EraseSignalIInv DEF Step
<1> QED
  BY <1>1, <1>2, <1>3, <1>4, <1>5 DEF Next

\* The invariant holds in every reachable state of the serialised system.
THEOREM Invariance == ASSUME Serialised PROVE Spec => []IInv
<1>1. Init => IInv
  BY InitIInv
<1>2. IInv /\ [Next]_vars => IInv'
  BY NextIInv
<1> QED
  BY <1>1, <1>2, PTL DEF Spec

\* Type correctness of the serialised system.
THEOREM TypeCorrect == ASSUME Serialised PROVE Spec => []TypeOK
<1>1. IInv => TypeOK
  BY DEF IInv
<1> QED
  BY <1>1, Invariance, PTL

\* No thread holds a frame that went back to its parent (specframe.h:40-41).
THEOREM HolderSafety == ASSUME Serialised PROVE Spec => []NoHolderAfterErase
<1>1. IInv => NoHolderAfterErase
  BY DEF IInv, Ownership, NoHolderAfterErase
<1> QED
  BY <1>1, Invariance, PTL

\* A frame every thread has erased is with its parent (specframe.h:49-50).
THEOREM NothingLost == ASSUME Serialised PROVE Spec => []ErasedWhenReleased
<1>1. IInv => ErasedWhenReleased
  BY DEF IInv, Ownership, Leaving, ErasedWhenReleased
<1> QED
  BY <1>1, Invariance, PTL

\* reference_counter is the number of holders, between and during calls.
THEOREM CounterExact == ASSUME Serialised PROVE Spec => []CounterCountsHolders
<1>1. IInv => CounterCountsHolders
  BY DEF IInv
<1> QED
  BY <1>1, Invariance, PTL

\* erase_frame is called once per publication.
THEOREM SignalOnce == ASSUME Serialised PROVE Spec => []NoStrayErase
<1>1. IInv => NoStrayErase
  BY DEF IInv
<1> QED
  BY <1>1, Invariance, PTL
-----------------------------------------------------------------------------
(***************************************************************************)
(* Refinement: each step is a step of FrameLifetime or leaves phase and    *)
(* the abstract holders alone.                                             *)
(***************************************************************************)
Holding == [f \in Frames |-> refs[f] \cup Leaving(f)]

\* The store of -- moves the thread from the holders to those that leave.
LEMMA EraseStoreStutters ==
    ASSUME IInv, NEW t \in Threads, EraseStore(t)
    PROVE  Holding' = Holding
<1>1. arg[t] \in Frames /\ t \in refs[arg[t]]
  BY DEF IInv, CallState, EraseStore
<1>2. \A g \in Frames : Leaving(g)' = IF g = arg[t] THEN Leaving(g) \cup {t} ELSE Leaving(g)
  BY <1>1 DEF EraseStore, Leaving, InCall, IInv, TypeOK
<1>3. \A g \in Frames : refs'[g] = IF g = arg[t] THEN refs[g] \ {t} ELSE refs[g]
  BY <1>1 DEF EraseStore, IInv, TypeOK
<1>4. \A g \in Frames : refs'[g] \cup Leaving(g)' = refs[g] \cup Leaving(g)
  BY <1>1, <1>2, <1>3
<1> QED
  BY <1>4 DEF Holding

\* A call that was entered or is past its test has the holders it had.
LEMMA PcStutters ==
    ASSUME NEW t \in Threads, NEW p \in Points, TypeOK, refs' = refs,
           \/ /\ pc[t] = "idle" /\ p \in {"copy", "erase"}
              /\ \E f \in Frames : arg' = [arg EXCEPT ![t] = f]
           \/ pc[t] = "test" /\ p = "signal" /\ arg' = arg,
           pc' = [pc EXCEPT ![t] = p]
    PROVE  Holding' = Holding
<1>1. \A g \in Frames : Leaving(g)' = Leaving(g)
  BY DEF Leaving, InCall, TypeOK
<1> QED
  BY <1>1 DEF Holding

\* The end of erase() takes the thread, and nobody else, out of the holders.
LEMMA ReturnReleases ==
    ASSUME IInv, NEW t \in Threads, pc[t] \in {"test", "signal"}, Return(t), refs' = refs
    PROVE  /\ t \in Holding[arg[t]]
           /\ Holding' = [Holding EXCEPT ![arg[t]] = @ \ {t}]
           /\ Holding[arg[t]] = {t} <=> refs[arg[t]] = {}
<1>1. /\ arg[t] \in Frames /\ t \notin refs[arg[t]]
      /\ \A g \in Frames : Leaving(g) = IF g = arg[t] THEN {t} ELSE {}
  BY AfterDecrement
<1>2. \A g \in Frames : Leaving(g)' = Leaving(g) \ {t}
  BY <1>1, NoneAssumption DEF Leaving, InCall, Return, IInv, TypeOK
<1>3. \A g \in Frames : refs'[g] \cup Leaving(g)' =
           IF g = arg[t] THEN (refs[g] \cup Leaving(g)) \ {t} ELSE refs[g] \cup Leaving(g)
  BY <1>1, <1>2
<1>4. \A g \in Frames : Holding[g] = refs[g] \cup Leaving(g)
  BY DEF Holding
<1>5. Holding' = [Holding EXCEPT ![arg[t]] = @ \ {t}]
  <2>1. Holding' = [g \in Frames |-> IF g = arg[t] THEN Holding[g] \ {t} ELSE Holding[g]]
    BY <1>3, <1>4 DEF Holding
  <2> QED
    BY <2>1 DEF Holding
<1>6. t \in Holding[arg[t]] /\ (Holding[arg[t]] = {t} <=> refs[arg[t]] = {})
  BY <1>1, <1>4
<1> QED
  BY <1>5, <1>6

LEMMA StepSimulation ==
    ASSUME IInv, [Next]_vars
    PROVE  [Lifetime!Next]_(Lifetime!lifetimeVars)
<1> USE DEF Lifetime!lifetimeVars
<1>0. TypeOK
  BY DEF IInv
<1>1. ASSUME UNCHANGED <<refs, pc, arg>> PROVE Holding' = Holding
  BY <1>1 DEF Holding, Leaving, InCall
<1>2. CASE UNCHANGED vars
  BY <1>1, <1>2 DEF vars, ownerVars, callVars, Holding
<1>3. ASSUME NEW f \in Frames, Clear(f)
      PROVE  Lifetime!Recycle(f)
  BY <1>1, <1>3 DEF Clear, callVars, Lifetime!Recycle, Holding
<1>4. ASSUME NEW f \in Frames, NEW g \in Frames, Assign(f, g)
      PROVE  Lifetime!Recycle(f) \/ UNCHANGED <<phase, Holding>>
  BY <1>0, <1>1, <1>4 DEF Assign, callVars, Lifetime!Recycle, TypeOK, Holding
<1>5. ASSUME NEW f \in Frames, NEW t \in Threads, NEW s \in Serials,
             Publish(f, t, s)
      PROVE  Lifetime!Publish(f, t)
  <2>1. \A g \in Frames : Leaving(g)' = Leaving(g)
    BY <1>5 DEF Publish, callVars, Leaving, InCall
  <2>2. Leaving(f) = {}
    BY <1>5, NoneAssumption DEF Publish, Leaving, InCall, IInv, CallState
  <2>3. Holding' = [Holding EXCEPT ![f] = {t}]
    <3>1. \A g \in Frames : refs'[g] \cup Leaving(g)' =
                               IF g = f THEN {t} ELSE refs[g] \cup Leaving(g)
      BY <1>0, <1>5, <2>1, <2>2 DEF Publish, TypeOK
    <3> QED
      BY <3>1 DEF Holding
  <2> QED
    BY <1>5, <2>3 DEF Publish, Lifetime!Publish, Holding
<1>6. ASSUME NEW f \in Frames, NEW t \in Threads,
             EraseLoad(t, f) \/ \E u \in Threads : CopyLoad(t, f, u)
      PROVE  UNCHANGED <<phase, Holding>>
  BY <1>0, <1>6, PcStutters DEF EraseLoad, CopyLoad, MayCall, ownerVars, Points
<1>7. ASSUME NEW t \in Threads, CopyStore(t)
      PROVE  \E f \in Frames, u \in Threads : Lifetime!HandOut(f, u)
  <2>1. /\ arg[t] \in Frames /\ dest[t] \in Threads /\ refs[arg[t]] # {}
    BY <1>7 DEF CopyStore, IInv, CallState
  <2>2. \A g \in Frames : Leaving(g)' = Leaving(g)
    BY <1>0, <1>7, NoneAssumption DEF CopyStore, Return, Leaving, InCall, TypeOK
  <2>3. /\ Holding' = [Holding EXCEPT ![arg[t]] = @ \cup {dest[t]}]
        /\ Holding[arg[t]] # {} /\ phase' = phase
    BY <1>0, <1>7, <2>1, <2>2 DEF CopyStore, Holding, TypeOK
  <2> QED
    BY <2>1, <2>3 DEF Lifetime!HandOut, Holding
<1>8. ASSUME NEW t \in Threads, EraseStore(t) \/ EraseLast(t)
      PROVE  UNCHANGED <<phase, Holding>>
  BY <1>0, <1>8, EraseStoreStutters, PcStutters DEF EraseStore, EraseLast, ownerVars, Points
<1>9. ASSUME NEW t \in Threads, EraseNotLast(t)
      PROVE  \E f \in Frames : Lifetime!Release(f, t)
  <2>1. /\ arg[t] \in Frames /\ refs[arg[t]] # {} /\ pc[t] = "test"
        /\ Return(t) /\ refs' = refs
    BY <1>9, AfterDecrement DEF EraseNotLast, LastHolder, ownerVars
  <2>2. phase' = [phase EXCEPT ![arg[t]] = @]
    BY <1>0, <1>9 DEF EraseNotLast, ownerVars, TypeOK
  <2> QED
    BY <2>1, <2>2, ReturnReleases DEF Lifetime!Release, Holding
<1>10. ASSUME NEW t \in Threads, EraseSignal(t)
      PROVE  \E f \in Frames : Lifetime!Release(f, t)
  <2>1. /\ arg[t] \in Frames /\ refs[arg[t]] = {} /\ pc[t] = "signal"
        /\ Outstanding(serial[arg[t]]) = {arg[t]}
        /\ Return(t) /\ refs' = refs
    BY <1>10, AfterDecrement, SignalFindsFrame DEF EraseSignal
  <2>2. phase' = [phase EXCEPT ![arg[t]] = "pool"]
    BY <1>0, <1>10, <2>1 DEF EraseSignal, TypeOK
  <2> QED
    BY <2>1, <2>2, ReturnReleases DEF Lifetime!Release, Holding
<1> QED
  BY <1>2, <1>3, <1>4, <1>5, <1>6, <1>7, <1>8, <1>9, <1>10
     DEF Next, Step, Lifetime!Next, Holding

\* copy() and erase() implement FrameLifetime.
THEOREM Refinement == ASSUME Serialised PROVE Spec => ImplementsLifetime
<1>1. Init => Lifetime!Init
  BY DEF Init, Lifetime!Init, Leaving, InCall
<1>2. IInv /\ [Next]_vars => [Lifetime!Next]_(Lifetime!lifetimeVars)
  BY StepSimulation
<1> QED
  BY <1>1, <1>2, Invariance, PTL DEF Spec, ImplementsLifetime, Lifetime!Spec
=============================================================================
