------------------------------ MODULE Recording ------------------------------
(***************************************************************************)
(* What a recording promises to its reader (specframeloader.h:11-20): a    *)
(* stream gives the recorded frames one after another, while more of them  *)
(* may be recorded, and then ends for good.  At its end it may give one    *)
(* frame that lacks what the recorder could not write.                     *)
(***************************************************************************)
EXTENDS Sequences, Naturals

CONSTANTS Frames,       \* what can be recorded
          Torn(_)       \* what may be left of a frame

VARIABLES saved,        \* the frames recorded
          loaded,       \* the frames the stream has given
          over          \* the stream has ended

recordingVars == <<saved, loaded, over>>

Init == saved = <<>> /\ loaded = <<>> /\ over = FALSE

Record(f) == saved' = Append(saved, f) /\ UNCHANGED <<loaded, over>>

NextFrame == saved[Len(loaded) + 1]

Deliver == /\ ~over
           /\ Len(loaded) < Len(saved)
           /\ \/ loaded' = Append(loaded, NextFrame) /\ over' = FALSE
              \/ /\ \E g \in Torn(NextFrame) : loaded' = Append(loaded, g)
                 /\ over' = TRUE
           /\ UNCHANGED saved

End == over' = TRUE /\ UNCHANGED <<saved, loaded>>

\* Another stream of the same recording.
Open == loaded' = <<>> /\ over' = FALSE /\ UNCHANGED saved

Next == (\E f \in Frames : Record(f)) \/ Deliver \/ End \/ Open

Spec == Init /\ [][Next]_recordingVars
=============================================================================
