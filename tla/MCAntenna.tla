------------------------------ MODULE MCAntenna ------------------------------
(* Antenna with two objects and one or two arrays of 3 or 4 elements.      *)
EXTENDS Antenna

MCModels == {<< <<1, 0, 0>>, <<0, 1, 0>>, <<0, 0, 1>> >>,
             << <<1, 0, 0>>, <<0, 1, 1>>, <<-1, 0, 1>>, <<0, -1, 2>> >>}
MCBases == {Origin, <<2, 1, 0>>}
MCCentres == {Origin, <<1, 1, 0>>}
MCCorrections == {<< <<1, 0, 0>>, <<0, 0, 0>>, <<0, 0, 1>>, <<0, 1, 0>> >>}
=============================================================================
