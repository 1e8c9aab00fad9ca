------------------------------ MODULE FrameShare ------------------------------
(***************************************************************************)
(* The sharing of SpecFrame objects between processing threads             *)
(* (specframe.h, specframe.cpp): copy() and erase() keep reference_counter *)
(* and the thread whose erase() brings it to 0 calls                       *)
(* SpecFrameParent::erase_frame(serial).                                   *)
(*                                                                         *)
(* reference_counter is a plain int, so ++ and -- are a load and a store,  *)
(* and the `reference_counter == 0' after -- tests the register or, if     *)
(* Reload, may read the field again.  Calls of several threads interleave  *)
(* at those steps, unless Serialised: then a call starts only when no      *)
(* other is in progress (the callers hold a lock, as the Python            *)
(* interpreter does).                                                      *)
(*                                                                         *)
(* A thread that calls erase() holds the frame until its -- is stored; it  *)
(* reads nothing of the frame after that but what the test needs.          *)
(*                                                                         *)
(* The parent and the threads are outside the library.  The parent is an   *)
(* owner of a pool of frames that refills a frame only after erase_frame   *)
(* returned it, looks a frame up by its serial, and gives outstanding      *)
(* frames different serials; a thread erases what it holds, and is handed  *)
(* a frame at most once per publication.                                   *)
(*                                                                         *)
(* A definition named <Operation>_<Flaw> is Operation with a flaw; no      *)
(* specification uses it, it is there to show that a property depends on   *)
(* what Operation does.                                                    *)
(***************************************************************************)
EXTENDS Integers, FiniteSets

CONSTANTS Threads,      \* the processing threads
          Frames,       \* the SpecFrame objects of the parent
          Serials,      \* the serial numbers the producer gives out
          None,         \* "no frame", "no thread"
          Serialised,   \* calls of copy() and erase() exclude each other
          Reload        \* the test after -- may read the field again

ASSUME ThreadsAssumption == IsFiniteSet(Threads)
ASSUME SerialsAssumption == Serials \subseteq Nat
ASSUME NoneAssumption == None \notin Frames /\ None \notin Threads
ASSUME SwitchesAssumption == Serialised \in BOOLEAN /\ Reload \in BOOLEAN

VARIABLES
    reference_counter,  \* SpecFrame::reference_counter
    serial,             \* SpecFrame::serial, -1 when not written
    parent,             \* SpecFrame::parent is not NULL
    phase,              \* where the frame is: "pool", "cleared" or "shared"
    refs,               \* the threads that hold the frame
    given,              \* the threads that have held it since its publication
    stray,              \* erase_frame got a serial no outstanding frame has
    pc, arg, dest, reg  \* the call each thread is in and its locals

frameVars == <<reference_counter, serial, parent>>
ownerVars == <<phase, refs, given, stray>>
callVars  == <<pc, arg, dest, reg>>
vars == <<frameVars, ownerVars, callVars>>

Phases == {"pool", "cleared", "shared"}
Points == {"idle", "copy", "erase", "test", "signal"}

\* The state after SpecFrame::SpecFrame: new frames, ready to be filled.
Init == /\ reference_counter = [f \in Frames |-> 1]
        /\ serial = [f \in Frames |-> -1]
        /\ parent = [f \in Frames |-> FALSE]
        /\ phase = [f \in Frames |-> "cleared"]
        /\ refs = [f \in Frames |-> {}]
        /\ given = [f \in Frames |-> {}]
        /\ stray = FALSE
        /\ pc = [t \in Threads |-> "idle"]
        /\ arg = [t \in Threads |-> None]
        /\ dest = [t \in Threads |-> None]
        /\ reg = [t \in Threads |-> 0]

(***************************************************************************)
(* The producer's side: SpecFrame::clear, SpecFrame::operator= and the     *)
(* setters of SpecFrameWriter, on a frame the parent owns.                 *)
(***************************************************************************)
Clear_NoReset(f) ==
    /\ phase[f] = "pool"
    /\ serial' = [serial EXCEPT ![f] = -1]
    /\ phase' = [phase EXCEPT ![f] = "cleared"]
    /\ UNCHANGED <<reference_counter, parent, refs, given, stray, callVars>>

Clear(f) ==
    /\ phase[f] = "pool"
    /\ reference_counter' = [reference_counter EXCEPT ![f] = 1]
    /\ serial' = [serial EXCEPT ![f] = -1]
    /\ phase' = [phase EXCEPT ![f] = "cleared"]
    /\ UNCHANGED <<parent, refs, given, stray, callVars>>

Assign_NoReset(f, g) ==
    /\ phase[f] \in {"pool", "cleared"}
    /\ f # g
    /\ serial' = [serial EXCEPT ![f] = serial[g]]
    /\ phase' = [phase EXCEPT ![f] = "cleared"]
    /\ UNCHANGED <<reference_counter, parent, refs, given, stray, callVars>>

\* *f = *g: parent is not assigned; g may be a frame the threads hold.
Assign(f, g) ==
    /\ phase[f] \in {"pool", "cleared"}
    /\ f # g
    /\ reference_counter' = [reference_counter EXCEPT ![f] = 1]
    /\ serial' = [serial EXCEPT ![f] = serial[g]]
    /\ phase' = [phase EXCEPT ![f] = "cleared"]
    /\ UNCHANGED <<parent, refs, given, stray, callVars>>

Outstanding(s) == {f \in Frames : phase[f] = "shared" /\ serial[f] = s}

\* write_serial and write_parent, then the first thread gets the frame.
Publish(f, t, s) ==
    /\ phase[f] = "cleared"
    /\ Outstanding(s) = {}
    /\ serial' = [serial EXCEPT ![f] = s]
    /\ parent' = [parent EXCEPT ![f] = TRUE]
    /\ phase' = [phase EXCEPT ![f] = "shared"]
    /\ refs' = [refs EXCEPT ![f] = {t}]
    /\ given' = [given EXCEPT ![f] = {t}]
    /\ UNCHANGED <<reference_counter, stray, callVars>>

(***************************************************************************)
(* The threads' side.  A call is entered with its load of                  *)
(* reference_counter and left with Return.                                 *)
(***************************************************************************)
MayCall(t) == /\ pc[t] = "idle"
              /\ Serialised => \A u \in Threads : pc[u] = "idle"

Return(t) == /\ pc' = [pc EXCEPT ![t] = "idle"]
             /\ arg' = [arg EXCEPT ![t] = None]
             /\ dest' = [dest EXCEPT ![t] = None]
             /\ reg' = [reg EXCEPT ![t] = 0]

\* copy() called by the holder t for thread u: the load of ++.
CopyLoad(t, f, u) ==
    /\ MayCall(t)
    /\ t \in refs[f]
    /\ u \notin given[f]
    /\ \A v \in Threads : arg[v] = f => dest[v] # u
    /\ pc' = [pc EXCEPT ![t] = "copy"]
    /\ arg' = [arg EXCEPT ![t] = f]
    /\ dest' = [dest EXCEPT ![t] = u]
    /\ reg' = [reg EXCEPT ![t] = reference_counter[f]]
    /\ UNCHANGED <<frameVars, ownerVars>>

\* The store of ++; copy() returns and u has the frame.
CopyStore(t) ==
    /\ pc[t] = "copy"
    /\ reference_counter' = [reference_counter EXCEPT ![arg[t]] = reg[t] + 1]
    /\ refs' = [refs EXCEPT ![arg[t]] = @ \cup {dest[t]}]
    /\ given' = [given EXCEPT ![arg[t]] = @ \cup {dest[t]}]
    /\ Return(t)
    /\ UNCHANGED <<serial, parent, phase, stray>>

\* erase() called by the holder t: the load of --.
EraseLoad(t, f) ==
    /\ MayCall(t)
    /\ t \in refs[f]
    /\ pc' = [pc EXCEPT ![t] = "erase"]
    /\ arg' = [arg EXCEPT ![t] = f]
    /\ reg' = [reg EXCEPT ![t] = reference_counter[f]]
    /\ UNCHANGED <<dest, frameVars, ownerVars>>

\* The store of --: the thread is counted out and holds the frame no more.
EraseStore(t) ==
    /\ pc[t] = "erase"
    /\ reference_counter' = [reference_counter EXCEPT ![arg[t]] = reg[t] - 1]
    /\ refs' = [refs EXCEPT ![arg[t]] = @ \ {t}]
    /\ pc' = [pc EXCEPT ![t] = "test"]
    /\ reg' = [reg EXCEPT ![t] = @ - 1]
    /\ UNCHANGED <<arg, dest, serial, parent, phase, given, stray>>

\* The values that the `if' of erase() may test: the register's or, if
\* Reload, that of a second load.
Tested(t) == {reg[t]} \cup IF Reload THEN {reference_counter[arg[t]]} ELSE {}

LastHolder_Early(f, v) == v <= 1 /\ parent[f]
LastHolder_Late(f, v) == v < 0 /\ parent[f]
LastHolder(f, v) == v = 0 /\ parent[f]

EraseLast(t) ==
    /\ pc[t] = "test"
    /\ \E v \in Tested(t) : LastHolder(arg[t], v)
    /\ pc' = [pc EXCEPT ![t] = "signal"]
    /\ UNCHANGED <<arg, dest, reg, frameVars, ownerVars>>

EraseNotLast(t) ==
    /\ pc[t] = "test"
    /\ \E v \in Tested(t) : ~LastHolder(arg[t], v)
    /\ Return(t)
    /\ UNCHANGED <<ownerVars, frameVars>>

\* parent->erase_frame(serial): the outstanding frame with that serial goes
\* back to the pool.  The thread touches the frame no more.
EraseSignal(t) ==
    /\ pc[t] = "signal"
    /\ LET found == Outstanding(serial[arg[t]])
       IN  /\ phase' = [f \in Frames |-> IF f \in found THEN "pool" ELSE phase[f]]
           /\ stray' = (stray \/ found = {})
    /\ Return(t)
    /\ UNCHANGED <<refs, given, frameVars>>

Step(t) == CopyStore(t) \/ EraseStore(t) \/ EraseLast(t) \/ EraseNotLast(t)
             \/ EraseSignal(t)

Next ==
    \/ \E f \in Frames :
         \/ Clear(f)
         \/ \E g \in Frames : Assign(f, g)
         \/ \E t \in Threads, s \in Serials : Publish(f, t, s)
         \/ \E t, u \in Threads : CopyLoad(t, f, u)
         \/ \E t \in Threads : EraseLoad(t, f)
    \/ \E t \in Threads : Step(t)

Spec == Init /\ [][Next]_vars

\* A call that was entered returns, and every thread calls erase() on what it
\* holds (specframe.h:49).  The threads compete for the call slot, so the
\* fairness of entering erase() is strong.
Fairness == \A t \in Threads :
               /\ WF_vars(Step(t))
               /\ \A f \in Frames : SF_vars(EraseLoad(t, f))

FairSpec == Spec /\ Fairness
-----------------------------------------------------------------------------
(***************************************************************************)
(* Properties.                                                             *)
(***************************************************************************)

\* Every variable has its type; in particular the counter never falls below
\* zero, as it would if a frame were published with a counter left at 0.
TypeOK ==
    /\ reference_counter \in [Frames -> Nat]
    /\ serial \in [Frames -> Serials \cup {-1}]
    /\ parent \in [Frames -> BOOLEAN]
    /\ phase \in [Frames -> Phases]
    /\ refs \in [Frames -> SUBSET Threads]
    /\ given \in [Frames -> SUBSET Threads]
    /\ stray \in BOOLEAN
    /\ pc \in [Threads -> Points]
    /\ arg \in [Threads -> Frames \cup {None}]
    /\ dest \in [Threads -> Threads \cup {None}]
    /\ reg \in [Threads -> Nat]

InCall(f) == {t \in Threads : arg[t] = f}

\* specframe.h:40: the erased signal is sent only after every copy has been
\* erased.  No thread holds a frame that its parent took back, which is what
\* keeps clear(), resize() and operator= from running under a reader.
NoHolderAfterErase == \A f \in Frames : phase[f] # "shared" => refs[f] = {}

\* specframe.h:50: as soon as all threads have let the frame go the signal is
\* sent.  A frame nobody holds and nobody is in a call on is with its parent;
\* otherwise the parent would wait for it for ever.
ErasedWhenReleased ==
    \A f \in Frames :
        phase[f] = "shared" => refs[f] # {} \/ InCall(f) # {}

\* reference_counter is the number of threads that hold the frame, also while
\* a call is in progress: copy() and erase() of any threads in any order, and
\* the resets of clear() and operator= before them, keep it so.
CounterCountsHolders ==
    \A f \in Frames :
        phase[f] = "shared" => reference_counter[f] = Cardinality(refs[f])

\* The signal is sent once per publication: erase_frame never gets the serial
\* of a frame that is already back, so it cannot hit a frame that meanwhile
\* received the serial anew.
NoStrayErase == ~stray

\* The threads that were counted out and whose erase() has not returned.
Leaving(f) == {t \in InCall(f) : pc[t] \in {"test", "signal"}}

\* The counter implements the promise of FrameLifetime: copy() is a hand-out,
\* the end of erase() a release, and the release of the last holder is the
\* step in which the parent gets the frame.
Lifetime == INSTANCE FrameLifetime WITH
               holders <- [f \in Frames |-> refs[f] \cup Leaving(f)]

ImplementsLifetime == Lifetime!Spec

\* Every published frame returns to its parent if all threads erase it.
EveryFrameReturns == \A f \in Frames : phase[f] = "shared" ~> phase[f] = "pool"
-----------------------------------------------------------------------------
(***************************************************************************)
(* The inductive invariant of the serialised system.                       *)
(***************************************************************************)

OneCaller == \A t, u \in Threads : pc[t] # "idle" /\ pc[u] # "idle" => t = u

\* The caller holds the frame until it is counted out, and its register is up
\* to date.
CallState ==
    \A t \in Threads :
        IF pc[t] = "idle"
        THEN arg[t] = None
        ELSE /\ arg[t] \in Frames
             /\ phase[arg[t]] = "shared"
             /\ t \in refs[arg[t]] <=> pc[t] \in {"copy", "erase"}
             /\ reg[t] = reference_counter[arg[t]]
             /\ pc[t] = "copy" => dest[t] \in Threads \ refs[arg[t]]
             /\ pc[t] = "signal" => reg[t] = 0

\* A shared frame without holders is one whose last erase() has not returned.
Ownership ==
    \A f \in Frames :
        /\ refs[f] \subseteq given[f]
        /\ phase[f] = "cleared" => reference_counter[f] = 1
        /\ phase[f] # "shared" => refs[f] = {}
        /\ phase[f] = "shared" => parent[f] /\ refs[f] \cup Leaving(f) # {}

SerialsDiffer ==
    \A f, g \in Frames :
        phase[f] = "shared" /\ phase[g] = "shared" /\ serial[f] = serial[g]
            => f = g

\* What the serialised steps preserve; it implies the invariants above.
IInv == /\ TypeOK
        /\ OneCaller
        /\ CallState
        /\ CounterCountsHolders
        /\ Ownership
        /\ SerialsDiffer
        /\ NoStrayErase
=============================================================================
