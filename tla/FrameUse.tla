------------------------------ MODULE FrameUse ------------------------------
(***************************************************************************)
(* Frames as the threads use them: the memory of FrameMemory under the     *)
(* ownership of FrameLifetime, which FrameShare implements.                *)
(*                                                                         *)
(* The producer builds, resizes, assigns, clears and destroys only frames  *)
(* that no thread holds.  A thread that holds a frame runs estimators on   *)
(* it.  Each of them asks for the data pointer once and then reads rows    *)
(* through it, one or two in an iteration of its loop, while it asks the   *)
(* frame, or its own antenna, for the number of channels.  The model has   *)
(* the rows; which samples of them are read is in EstimatorWindow.  An     *)
(* estimate() that throws, or whose window has no sample, reads no row and *)
(* is left out.  Rows are counted from 1.                                  *)
(***************************************************************************)
EXTENDS FrameMemory, Integers

CONSTANTS Threads,
          RefRows,          \* the rows set_signal_parameters may name as ref_ch
          FrameChannels     \* the estimator asks the frame for its channels

ASSUME RefRowsAssumption == RefRows \subseteq Int
ASSUME FrameChannelsAssumption == FrameChannels \notin Channels

VARIABLES phase, holders,   \* as in FrameLifetime
          reader            \* the estimate() each thread is in, or Null

useVars == <<phase, holders, reader>>
allVars == <<vars, useVars>>

Lifetime == INSTANCE FrameLifetime WITH Frames <- Objects

\* AmpEstimator, PhaseEstimator, PseudoPhaseEstimator (and DelayEstimator,
\* which runs it), LhPel.
Estimators == {"amp", "phase", "pseudo", "pel"}

\* What an estimate() has in its locals: the frame, its data pointer (as the
\* rows it pointed to), the channels it is to read, the row it is at and the
\* one that it reads along with it.
Readers == [estimator : Estimators, frame : Objects, table : Seq(Blocks) \cup {Null},
            wanted : Channels \cup {FrameChannels}, ch : Nat,
            ref : Nat \cup RefRows]

UseTypeOK == /\ TypeOK
             /\ phase \in [Objects -> {"pool", "cleared", "shared"}]
             /\ holders \in [Objects -> SUBSET Threads]
             /\ reader \in [Threads -> Readers \cup {Null}]

UseInit == Init /\ Lifetime!Init /\ reader = [t \in Threads |-> Null]

(***************************************************************************)
(* The producer.                                                           *)
(***************************************************************************)
Owned(f) == phase[f] # "shared"

Build(f, n, length) == Construct(f, n, length) /\ UNCHANGED useVars

BuildCopy(f, from) == CopyConstruct(f, from) /\ UNCHANGED useVars

Refit(f, n, length) ==
    /\ Owned(f)
    /\ Resize(f, n, length)
    /\ UNCHANGED useVars

\* The frame copied from may be one that threads hold.
Overwrite(f, from) ==
    /\ Owned(f)
    /\ Assign(f, from)
    /\ phase' = [phase EXCEPT ![f] = "cleared"]
    /\ UNCHANGED <<holders, reader>>

Drop(f) ==
    /\ Owned(f)
    /\ Destroy(f)
    /\ phase' = [phase EXCEPT ![f] = "cleared"]
    /\ UNCHANGED <<holders, reader>>

\* clear() zeroes the samples in place.
Clear(f) == Lifetime!Recycle(f) /\ UNCHANGED <<vars, reader>>

Publish(f, t) ==
    /\ f \in alive
    /\ Lifetime!Publish(f, t)
    /\ UNCHANGED <<vars, reader>>

(***************************************************************************)
(* The threads.                                                            *)
(***************************************************************************)
HandOut(f, t) ==
    /\ t \notin holders[f]
    /\ Lifetime!HandOut(f, t)
    /\ UNCHANGED <<vars, reader>>

Reads(t, f) == reader[t] # Null /\ reader[t].frame = f

\* The frame goes back with the first erase().
Release_Early(f, t) ==
    /\ t \in holders[f] /\ ~Reads(t, f)
    /\ holders' = [holders EXCEPT ![f] = @ \ {t}]
    /\ phase' = [phase EXCEPT ![f] = "pool"]
    /\ UNCHANGED <<vars, reader>>

\* erase(), when the thread is done with the frame.
Release(f, t) ==
    /\ ~Reads(t, f)
    /\ Lifetime!Release(f, t)
    /\ UNCHANGED <<vars, reader>>

\* estimate() is entered and gets the data pointer.
Begin(t, f, estimator, wanted, ch, ref) ==
    /\ reader[t] = Null
    /\ t \in holders[f]
    /\ reader' = [reader EXCEPT ![t] =
                     [estimator |-> estimator, frame |-> f, table |-> rows[f],
                      wanted |-> wanted, ch |-> ch, ref |-> ref]]
    /\ UNCHANGED <<vars, phase, holders>>

\* Of a frame without samples the guard of AmpEstimator accepts only windows
\* that have none either.
BeginAmp(t, f) == /\ samp_per_channel[f] # 0
                  /\ Begin(t, f, "amp", FrameChannels, 1, 1)

\* The guard of PhaseEstimator accepts the first sample past the frame, also of
\* a frame without samples.
BeginPhase(t, f) == Begin(t, f, "phase", FrameChannels, 1, 1)

\* PseudoPhaseEstimator has no guard; ref_ch is what set_signal_parameters got.
BeginPseudo(t, f, ref) == Begin(t, f, "pseudo", FrameChannels, 1, ref)

\* LhPel reads the pairs of an antenna of n channels.  It limits the window to
\* the frame, and to sample -1 of a frame without samples.
BeginPel(t, f, n) == Begin(t, f, "pel", n, 2, 1)

\* The loop's bound is asked for in each iteration.
MoreRows(r) ==
    r.ch <= IF r.wanted = FrameChannels THEN channels_total[r.frame] ELSE r.wanted

InTable(r, row) == r.table # Null /\ row \in DOMAIN r.table

\* The rows an iteration reads samples of: data[ch], data[ch] and
\* data[ref_ch], or signal[m] and signal[l].
RowsRead(r) == IF r.estimator \in {"amp", "phase"} THEN {r.ch} ELSE {r.ch, r.ref}

\* LhPel goes on to the next m, or to the next l when there is none.
NextRow(r) == IF r.estimator = "pel" /\ r.ch >= r.wanted
              THEN [r EXCEPT !.ref = @ + 1, !.ch = r.ref + 2]
              ELSE [r EXCEPT !.ch = @ + 1]

\* One iteration.  What a thread does that reads past the table is undefined;
\* it takes no further step.
ReadRow(t) ==
    /\ reader[t] # Null /\ MoreRows(reader[t])
    /\ \A row \in RowsRead(reader[t]) : InTable(reader[t], row)
    /\ reader' = [reader EXCEPT ![t] = NextRow(@)]
    /\ UNCHANGED <<vars, phase, holders>>

EndRead(t) ==
    /\ reader[t] # Null /\ ~MoreRows(reader[t])
    /\ reader' = [reader EXCEPT ![t] = Null]
    /\ UNCHANGED <<vars, phase, holders>>

UseNext ==
    \/ /\ ~fault
       /\ \E f \in Objects :
            \/ \E n \in Channels, length \in Lengths :
                  Build(f, n, length) \/ Refit(f, n, length)
            \/ \E from \in Objects : BuildCopy(f, from) \/ Overwrite(f, from)
            \/ Drop(f)
            \/ Clear(f)
            \/ \E t \in Threads :
                 \/ Publish(f, t) \/ HandOut(f, t) \/ Release(f, t)
                 \/ BeginAmp(t, f) \/ BeginPhase(t, f)
                 \/ \E ref \in RefRows : BeginPseudo(t, f, ref)
                 \/ \E n \in Channels : BeginPel(t, f, n)
    \/ ~fault /\ \E t \in Threads : ReadRow(t) \/ EndRead(t)

UseSpec == UseInit /\ [][UseNext]_allVars
-----------------------------------------------------------------------------
(***************************************************************************)
(* Properties.                                                             *)
(***************************************************************************)

\* The rows an estimator does not check against the frame: the reference row
\* of PseudoPhaseEstimator and DelayEstimator, and both rows of LhPel, which
\* counts the channels of its antenna.
Unchecked(r) == CASE r.estimator = "pel"    -> {r.ch, r.ref}
                  [] r.estimator = "pseudo" -> {r.ref}
                  [] OTHER                  -> {}

\* An estimator's data pointer is still the frame's, and each row that it is
\* about to read through it is a row of the frame and still allocated, whatever
\* the producer and the other threads did since.  Two things can be wrong with
\* a row: it is one that the estimator does not check, and is past the rows of
\* the frame; or the frame was made without samples, has no table, and the
\* estimator is another than AmpEstimator.
ReadsSound ==
    ~fault =>
        \A t \in Threads :
            reader[t] # Null /\ MoreRows(reader[t]) =>
                LET r == reader[t]
                    f == r.frame
                IN  /\ r.table = rows[f]
                    /\ \A row \in RowsRead(r) :
                          \/ InTable(r, row) /\ r.table[row] \in heap
                          \/ row \in Unchecked(r) /\ row \notin 1..channels_total[f]
                          \/ /\ r.estimator # "amp"
                             /\ r.table = Null /\ samp_per_channel[f] = 0
=============================================================================
