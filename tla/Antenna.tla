------------------------------- MODULE Antenna -------------------------------
(***************************************************************************)
(* Antenna objects (antenna.h, antenna.cpp), their Python wrapper's save() *)
(* and AntennaSystem.load() (source_localization.pyx).                     *)
(*                                                                         *)
(* An antenna keeps what it was given -- the model, the base, the          *)
(* orientation and the phase centre of the model -- and what it derives    *)
(* from it: the elements and the phase centre in space, and the stages.    *)
(* Every setter must bring the derived part up to date.                    *)
(*                                                                         *)
(* Points are triples of integers, an orientation is a number of quarter   *)
(* turns, so cos and sin are exact; a list of points has one point for     *)
(* each channel (the code keeps one list for each of the 3 coordinates).   *)
(* The default constructor leaves the model empty, and then every setter   *)
(* but set_model reads model[0], which does not exist: an antenna is blank *)
(* until set_model, and nothing else is called on it.                      *)
(*                                                                         *)
(* A definition named <Operation>_<Flaw> is Operation with a flaw; no      *)
(* specification uses it, it is there to show that a property depends on   *)
(* what Operation does.                                                    *)
(***************************************************************************)
EXTENDS Integers, Sequences

CONSTANTS Antennas,     \* the objects
          Models,       \* the models given to set_model, or read from a file
          Bases,        \* the coordinates given to set_base
          Turns,        \* the orientations, in quarter turns
          Centres,      \* the phase centres given to set_phase_center
          Corrections,  \* the corrections of adjust_elements_coordinates
          Blank         \* the model of a default-constructed antenna

Point == Int \X Int \X Int

\* calculate_elements_coordinates reads three coordinates of what is given;
\* adjust_elements_coordinates reads three elements of a correction.
ASSUME ArgumentsAssumption ==
    /\ Models \subseteq Seq(Point) /\ Bases \subseteq Point
    /\ Turns \subseteq Int /\ Centres \subseteq Point
    /\ \A correction \in Corrections :
          \A ch \in 1..3 : correction[ch] \in Point

VARIABLES model, base, orientation, centre,     \* what the antenna was given
          elements, centreReal, stages,         \* what it derives
          adjusted,     \* history: elements were adjusted since the last setter
          file,         \* the ini file save() wrote, Blank before
          saved         \* history: the antenna that was saved

givenVars   == <<model, base, orientation, centre>>
derivedVars == <<elements, centreReal, stages>>
fileVars    == <<file, saved>>
vars == <<givenVars, derivedVars, adjusted, fileVars>>

Origin == <<0, 0, 0>>

Plus(p, b) == <<p[1] + b[1], p[2] + b[2], p[3] + b[3]>>

\* x cos - y sin, x sin + y cos, z.
Rotated(p, q) == CASE q % 4 = 0 -> p
                   [] q % 4 = 1 -> <<-p[2], p[1], p[3]>>
                   [] q % 4 = 2 -> <<-p[1], -p[2], p[3]>>
                   [] q % 4 = 3 -> <<p[2], -p[1], p[3]>>

Placed(p, q, b) == Plus(Rotated(p, q), b)

AllPlaced(m, q, b) == [ch \in DOMAIN m |-> Placed(m[ch], q, b)]

Stages_OneMore(m) ==
    {ch + 1 : ch \in {c \in DOMAIN m : c > 1 /\ m[c][3] # m[c - 1][3]}}

\* calculate_stages_number: ch + 1 where the height changes, ch counted from 0.
\* The vector has them in this order, so it is no more than their set.
Stages(m) == {ch \in DOMAIN m : ch > 1 /\ m[ch][3] # m[ch - 1][3]}

TypeOK ==
    /\ model \in [Antennas -> Seq(Point) \cup {Blank}]
    /\ base \in [Antennas -> Point]
    /\ orientation \in [Antennas -> Turns \cup {0}]
    /\ centre \in [Antennas -> Point]
    /\ elements \in [Antennas -> Seq(Point)]
    /\ centreReal \in [Antennas -> Point]
    /\ stages \in [Antennas -> SUBSET Nat]
    /\ \A a \in Antennas :
          model[a] # Blank => /\ Len(elements[a]) = Len(model[a])
                             /\ stages[a] \subseteq DOMAIN model[a]
    /\ adjusted \in [Antennas -> BOOLEAN]
    /\ file \in Seq(Point) \cup {Blank}

Init == /\ model = [a \in Antennas |-> Blank]
        /\ base = [a \in Antennas |-> Origin]
        /\ orientation = [a \in Antennas |-> 0]
        /\ centre = [a \in Antennas |-> Origin]
        /\ elements = [a \in Antennas |-> <<>>]
        /\ centreReal = [a \in Antennas |-> Origin]
        /\ stages = [a \in Antennas |-> {}]
        /\ adjusted = [a \in Antennas |-> FALSE]
        /\ file = Blank
        /\ saved = [elements |-> <<>>, base |-> Origin, orientation |-> 0]

\* The antenna a is given a model, a base, an orientation and a centre.
Give(a, m, b, q, c) ==
    /\ model' = [model EXCEPT ![a] = m]
    /\ base' = [base EXCEPT ![a] = b]
    /\ orientation' = [orientation EXCEPT ![a] = q]
    /\ centre' = [centre EXCEPT ![a] = c]

\* calculate_elements_coordinates
Derive(a, m, b, q, c) ==
    /\ elements' = [elements EXCEPT ![a] = AllPlaced(m, q, b)]
    /\ centreReal' = [centreReal EXCEPT ![a] = Placed(c, q, b)]
    /\ adjusted' = [adjusted EXCEPT ![a] = FALSE]

SetModel(a, m) ==
    /\ Give(a, m, base[a], orientation[a], centre[a])
    /\ Derive(a, m, base[a], orientation[a], centre[a])
    /\ stages' = [stages EXCEPT ![a] = Stages(m)]
    /\ UNCHANGED fileVars

SetBase(a, b) ==
    /\ model[a] # Blank
    /\ Give(a, model[a], b, orientation[a], centre[a])
    /\ Derive(a, model[a], b, orientation[a], centre[a])
    /\ UNCHANGED <<stages, fileVars>>

SetOrientation_NotDerived(a, q) ==
    /\ model[a] # Blank
    /\ Give(a, model[a], base[a], q, centre[a])
    /\ UNCHANGED <<derivedVars, adjusted, fileVars>>

SetOrientation(a, q) ==
    /\ model[a] # Blank
    /\ Give(a, model[a], base[a], q, centre[a])
    /\ Derive(a, model[a], base[a], q, centre[a])
    /\ UNCHANGED <<stages, fileVars>>

SetPhaseCenter(a, c) ==
    /\ model[a] # Blank
    /\ Give(a, model[a], base[a], orientation[a], c)
    /\ Derive(a, model[a], base[a], orientation[a], c)
    /\ UNCHANGED <<stages, fileVars>>

\* Antenna(string): center_x, center_y and center_z of the file are appended
\* to the zeros phase_center_model already holds, and so never used.
LoadModel(a, m) ==
    /\ Give(a, m, Origin, 0, Origin)
    /\ Derive(a, m, Origin, 0, Origin)
    /\ stages' = [stages EXCEPT ![a] = Stages(m)]
    /\ UNCHANGED fileVars

\* Antenna(const Antenna &): set_model, set_base, set_orientation.  The phase
\* centre of the model and the adjustment of the elements are not copied.
Copied_Unturned(a, from) ==
    /\ Give(a, model[from], base[from], 0, Origin)
    /\ Derive(a, model[from], base[from], 0, Origin)

Copied(a, from) ==
    /\ Give(a, model[from], base[from], orientation[from], Origin)
    /\ Derive(a, model[from], base[from], orientation[from], Origin)

Copy(a, from) ==
    /\ a # from
    /\ model[from] # Blank
    /\ Copied(a, from)
    /\ stages' = [stages EXCEPT ![a] = Stages(model[from])]
    /\ UNCHANGED fileVars

\* adjust_elements_coordinates takes the 3 coordinates for the number of
\* channels: it corrects the first 3 channels, and needs as many.  Bound: the
\* elements are adjusted once between two setters.
Adjust(a, correction) ==
    /\ model[a] # Blank
    /\ ~adjusted[a]
    /\ Len(elements[a]) >= 3
    /\ elements' = [elements EXCEPT ![a] =
                      [ch \in DOMAIN @ |-> IF ch <= 3 THEN Plus(@[ch], correction[ch])
                                                      ELSE @[ch]]]
    /\ adjusted' = [adjusted EXCEPT ![a] = TRUE]
    /\ UNCHANGED <<givenVars, centreReal, stages, fileVars>>

\* Antenna.save of the wrapper writes get_elements().  Bound: an antenna read
\* from a file, or adjusted before, is not saved.
Save(a) ==
    /\ model[a] \in Models
    /\ ~adjusted[a]
    /\ file' = elements[a]
    /\ saved' = [elements |-> elements[a], base |-> base[a],
                 orientation |-> orientation[a]]
    /\ UNCHANGED <<givenVars, derivedVars, adjusted>>

\* AntennaSystem.load: a new antenna from the ini file, set_base,
\* set_orientation.
SystemLoad(a, b, q) ==
    /\ file # Blank
    /\ Give(a, file, b, q, Origin)
    /\ Derive(a, file, b, q, Origin)
    /\ stages' = [stages EXCEPT ![a] = Stages(file)]
    /\ UNCHANGED fileVars

Next ==
    \E a \in Antennas :
       \/ \E m \in Models : SetModel(a, m) \/ LoadModel(a, m)
       \/ \E b \in Bases : SetBase(a, b)
       \/ \E q \in Turns : SetOrientation(a, q)
       \/ \E c \in Centres : SetPhaseCenter(a, c)
       \/ \E from \in Antennas : Copy(a, from)
       \/ \E correction \in Corrections : Adjust(a, correction)
       \/ Save(a)
       \/ \E b \in Bases, q \in Turns : SystemLoad(a, b, q)

Spec == Init /\ [][Next]_vars
-----------------------------------------------------------------------------
(***************************************************************************)
(* Properties.                                                             *)
(***************************************************************************)

\* After any sequence of operations the derived coordinates are those of the
\* model at the base and orientation last given: no setter leaves them stale.
DerivedUpToDate ==
    \A a \in Antennas :
        model[a] # Blank =>
            /\ centreReal[a] = Placed(centre[a], orientation[a], base[a])
            /\ ~adjusted[a] => elements[a] = AllPlaced(model[a], orientation[a], base[a])
            /\ stages[a] = Stages(model[a])

\* A copy, as the Pelengator makes of its antenna, has its elements where the
\* original has them.
CopyInPlace ==
    [][\A a, from \in Antennas :
          Copy(a, from) /\ ~adjusted[from] => elements'[a] = elements[from]]_vars

\* source_localization.pyx:216, 249: save() saves the antenna's parameters and
\* load() of the system loads them.  An antenna that is saved and loaded at
\* the base and orientation it had is where it was.
SaveLoadInPlace ==
    [][\A a \in Antennas :
          SystemLoad(a, saved.base, saved.orientation)
            => elements'[a] = saved.elements]_vars
=============================================================================
