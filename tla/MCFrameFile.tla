----------------------------- MODULE MCFrameFile -----------------------------
(* FrameFile on small instances.                                           *)
EXTENDS FrameFile

Shape(ch, len, full, bound) == [ch |-> ch, len |-> len, full |-> full, bound |-> bound]

\* Whole frames of no, one and two channels.
FullShapes == {Shape(0, 2, 2, 0), Shape(1, 2, 2, 0), Shape(2, 2, 2, 0)}

\* A frame with samples 1 and 2 of a whole frame of 4.
BandShapes == {Shape(1, 2, 4, 1)}
=============================================================================
