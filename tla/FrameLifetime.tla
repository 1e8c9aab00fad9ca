---------------------------- MODULE FrameLifetime ----------------------------
(***************************************************************************)
(* What the sharing of a SpecFrame promises to the threads that process it *)
(* and to the SpecFrameParent that owns it (specframe.h:40-41, 49-50): a   *)
(* frame goes back to its parent in the very step in which the last        *)
(* holder lets it go, never before and never later.                        *)
(*                                                                         *)
(* phase[f]   "pool":    the parent owns the frame,                        *)
(*            "cleared": it is being refilled,                             *)
(*            "shared":  at least one thread holds it.                     *)
(* holders[f] the threads that hold the frame.                             *)
(***************************************************************************)
CONSTANTS Threads, Frames

VARIABLES phase, holders

lifetimeVars == <<phase, holders>>

Init == /\ phase = [f \in Frames |-> "cleared"]
        /\ holders = [f \in Frames |-> {}]

\* The parent takes the frame out of its pool to refill it.
Recycle(f) == /\ phase[f] = "pool"
              /\ phase' = [phase EXCEPT ![f] = "cleared"]
              /\ UNCHANGED holders

\* The refilled frame is handed to its first thread.
Publish(f, t) == /\ phase[f] = "cleared"
                 /\ phase' = [phase EXCEPT ![f] = "shared"]
                 /\ holders' = [holders EXCEPT ![f] = {t}]

\* A holder passes a copy of the frame to another thread.
HandOut(f, u) == /\ holders[f] # {}
                 /\ holders' = [holders EXCEPT ![f] = @ \cup {u}]
                 /\ UNCHANGED phase

\* A holder lets the frame go; the last one returns it to the parent.
Release(f, t) ==
    /\ t \in holders[f]
    /\ holders' = [holders EXCEPT ![f] = @ \ {t}]
    /\ phase' = [phase EXCEPT ![f] = IF holders[f] = {t} THEN "pool" ELSE @]

Next == \E f \in Frames :
           \/ Recycle(f)
           \/ \E t \in Threads :
                \/ Publish(f, t)
                \/ HandOut(f, t)
                \/ Release(f, t)

Spec == Init /\ [][Next]_lifetimeVars
==============================================================================
