------------------------------- MODULE Wrappers -------------------------------
(***************************************************************************)
(* Who owns the C++ antennas: the Antenna and AntennaSystem classes of     *)
(* source_localization.pyx.                                                *)
(*                                                                         *)
(* A Python Antenna points to a C++ antenna that it made, and is there as  *)
(* long as the caller or the list of the AntennaSystem refers to it.  Its  *)
(* finaliser is called __dealoc__, a name Python does not know, so nothing *)
(* is deleted when it goes.  load() deletes before it makes the new        *)
(* antenna, and the constructor may throw.  An address is used again once  *)
(* it is free.  Of an antenna only the model is kept.                      *)
(*                                                                         *)
(* A step that deletes or reads a freed antenna is undefined, and is not a *)
(* step here, as are a file that cannot be opened, and set_base,           *)
(* set_orientation and set_phase_center of an Antenna that has not been    *)
(* loaded, which make an antenna without a model and read its elements.    *)
(* On one that has been loaded they leave the model alone.                 *)
(* AntennaSystem's save() and clear() raise an exception at once.          *)
(*                                                                         *)
(* A definition named <Operation>_<Flaw> is Operation with a flaw; no      *)
(* specification uses it, it is there to show that a property depends on   *)
(* what Operation does.                                                    *)
(***************************************************************************)
EXTENDS Naturals, FiniteSets, SequencesExt

CONSTANTS Wrappers,     \* the Python Antenna objects, each used again once gone
          Addresses,    \* where a C++ antenna can be
          Files,        \* the ini files, each with its model
          Broken,       \* a file with text where a number should be
          Free,         \* no antenna at an address
          Null,
          MaxPosts      \* bound: antennas of an AntennaSystem

ASSUME WrapperAssumption == /\ Broken \notin Files /\ Free \notin Files
                            /\ Null \notin Addresses
                            /\ MaxPosts \in Nat

VARIABLES
    held,       \* the Antennas that the caller refers to
    antennas,   \* AntennaSystem.antennas
    c_ant,
    heap,       \* the model at each address
    toLoad,     \* the files of the posts that AntennaSystem.load has still to load
    asked,      \* the files of all its posts, once it has returned, else <<>>
    dropped,    \* history: addresses that Antennas pointed to when they went
    overthrown  \* history: a load() that had deleted an antenna has thrown

vars == <<held, antennas, c_ant, heap, toLoad, asked, dropped, overthrown>>

Systems == SeqOf(Files \cup {Broken}, MaxPosts)

Live(h, list) == h \cup ToSet(list)

Init == /\ held = {} /\ antennas = <<>>
        /\ c_ant = [w \in Wrappers |-> Null]
        /\ heap = [p \in Addresses |-> Free]
        /\ toLoad = <<>> /\ asked = <<>>
        /\ dropped = {}
        /\ overthrown = FALSE

\* One thread holds the GIL from the start of a call to its end.
Idle == toLoad = <<>>

\* The references become h and list; Antennas without one go, and their
\* antennas are not deleted.
Refer_Delete(h, list) ==
    LET going == {w \in Wrappers : w \notin h /\ c_ant[w] # Null}
    IN  /\ held' = h /\ antennas' = list
        /\ c_ant' = [w \in Wrappers |->
                        IF w \in Live(h, list) THEN c_ant[w] ELSE Null]
        /\ heap' = [p \in Addresses |->
                        IF p \in {c_ant[w] : w \in going} THEN Free ELSE heap[p]]
        /\ UNCHANGED dropped
Refer(h, list) ==
    /\ held' = h /\ antennas' = list
    /\ c_ant' = [w \in Wrappers |->
                    IF w \in Live(h, list) THEN c_ant[w] ELSE Null]
    /\ dropped' = dropped \cup
                  ({c_ant[w] : w \in Wrappers \ Live(h, list)} \ {Null})
    /\ UNCHANGED heap

NewAntenna == /\ Idle
              /\ \E w \in Wrappers \ Live(held, antennas) : Refer(held \cup {w}, antennas)
              /\ asked' = <<>>
              /\ UNCHANGED <<toLoad, overthrown>>

Drop(w) == /\ Idle
           /\ w \in held
           /\ Refer(held \ {w}, antennas)
           /\ asked' = <<>>
           /\ UNCHANGED <<toLoad, overthrown>>

\* del self.c_ant; undefined when it was freed already.
Deleted_Not(w) == heap
Deleted(w) == IF c_ant[w] = Null THEN heap ELSE [heap EXCEPT ![c_ant[w]] = Free]

Defined(w) == c_ant[w] # Null => heap[c_ant[w]] # Free

\* self.c_ant = new src.Antenna(...)
NewAt(w, memory, file) == \E p \in Addresses : /\ memory[p] = Free
                                               /\ heap' = [memory EXCEPT ![p] = file]
                                               /\ c_ant' = [c_ant EXCEPT ![w] = p]

\* The constructor throws, or operator new does: c_ant is what it was.
Throws(w, memory, file) == /\ file = Broken \/ Free \notin {memory[p] : p \in Addresses}
                           /\ heap' = memory
                           /\ overthrown' = (overthrown \/ c_ant[w] # Null)
                           /\ UNCHANGED c_ant

Load(w, file) ==
    /\ Idle
    /\ w \in held /\ Defined(w)
    /\ \/ /\ file # Broken
          /\ NewAt(w, Deleted(w), file)
          /\ UNCHANGED overthrown
       \/ Throws(w, Deleted(w), file)
    /\ asked' = <<>>
    /\ UNCHANGED <<held, antennas, toLoad, dropped>>

\* set_model, with the model of some file.
SetModel(w, file) ==
    /\ Idle
    /\ w \in held /\ Defined(w)
    /\ \/ c_ant[w] = Null /\ NewAt(w, heap, file)
       \/ /\ c_ant[w] # Null
          /\ heap' = [heap EXCEPT ![c_ant[w]] = file]
          /\ UNCHANGED c_ant
    /\ asked' = <<>>
    /\ UNCHANGED <<held, antennas, toLoad, dropped, overthrown>>

AppendPost(w) == /\ Idle
                 /\ w \in held /\ Len(antennas) < MaxPosts
                 /\ Refer(held, Append(antennas, w))
                 /\ asked' = <<>>
                 /\ UNCHANGED <<toLoad, overthrown>>

\* system[k]
GetPost(k) == /\ Idle
              /\ Refer(held \cup {antennas[k]}, antennas)
              /\ asked' = <<>>
              /\ UNCHANGED <<toLoad, overthrown>>

Pop(k) == /\ Idle
          /\ Refer(held \cup {antennas[k]}, RemoveAt(antennas, k))
          /\ asked' = <<>>
          /\ UNCHANGED <<toLoad, overthrown>>

\* AntennaSystem.load, up to its loop.
LoadSystem(files) ==
    /\ Idle
    /\ files # <<>>
    /\ Len(files) <= Cardinality(Wrappers \ held)
    /\ Refer(held, <<>>)
    /\ toLoad' = files
    /\ asked' = files
    /\ UNCHANGED overthrown

\* The loop of AntennaSystem.load: a new Antenna, its load(), its setters.
LoadPost_Again ==
    \E w \in Wrappers \ held :
        /\ antennas # <<>> => w = antennas[1]
        /\ ~Idle
        /\ Head(toLoad) # Broken
        /\ NewAt(w, Deleted(w), Head(toLoad))
        /\ antennas' = Append(antennas, w)
        /\ toLoad' = Tail(toLoad)
        /\ UNCHANGED <<held, asked, dropped, overthrown>>
LoadPost ==
    \E w \in Wrappers \ Live(held, antennas) :
        /\ ~Idle
        /\ Head(toLoad) # Broken
        /\ NewAt(w, heap, Head(toLoad))
        /\ antennas' = Append(antennas, w)
        /\ toLoad' = Tail(toLoad)
        /\ UNCHANGED <<held, asked, dropped, overthrown>>

\* The exception leaves the system with the posts loaded so far.
PostThrows == /\ ~Idle
              /\ \E w \in Wrappers \ Live(held, antennas) :
                    Throws(w, heap, Head(toLoad))
              /\ toLoad' = <<>>
              /\ asked' = <<>>
              /\ UNCHANGED <<held, antennas, dropped>>

Next == \/ NewAntenna
        \/ \E w \in Wrappers : \/ Drop(w)
                               \/ \E file \in Files \cup {Broken} : Load(w, file)
                               \/ \E file \in Files : SetModel(w, file)
                               \/ AppendPost(w)
        \/ \E k \in DOMAIN antennas : GetPost(k) \/ Pop(k)
        \/ \E files \in Systems : LoadSystem(files)
        \/ LoadPost
        \/ PostThrows

Spec == Init /\ [][Next]_vars
-----------------------------------------------------------------------------
(***************************************************************************)
(* Properties.                                                             *)
(***************************************************************************)
Loaded == {w \in Live(held, antennas) : c_ant[w] # Null}

\* Until a load() that had deleted an antenna throws, each Antenna that points
\* to a C++ antenna has it for itself, and it is there: no call deletes or reads
\* a freed antenna, or changes the antenna of another.
OneOwner ==
    ~overthrown => \A w \in Loaded : /\ heap[c_ant[w]] # Free
                                     /\ \A v \in Loaded \ {w} : c_ant[v] # c_ant[w]

\* Only Antennas that go leave a C++ antenna that nothing points to: load()
\* itself leaks none, whether it throws or not.
LeaksOnlyDropped ==
    \A p \in Addresses : heap[p] # Free =>
        (\E w \in Loaded : c_ant[w] = p) \/ p \in dropped

\* When AntennaSystem.load has returned, the system has an antenna for each post
\* of its file and each has the model of its own file.
SystemAsAsked ==
    Idle /\ asked # <<>> => asked = [k \in DOMAIN antennas |-> heap[c_ant[antennas[k]]]]
=============================================================================
