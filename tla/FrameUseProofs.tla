---------------------------- MODULE FrameUseProofs ----------------------------
(***************************************************************************)
(* Proofs about FrameMemory and FrameUse, for any objects, heap, sizes and *)
(* threads.                                                                *)
(*                                                                         *)
(* The properties of the memory need each other: that a free takes just    *)
(* the rows of its frame rests on the number of rows being the number of   *)
(* channels, that the rows of the others survive it on no row being        *)
(* shared.  Their conjunction is inductive.  What the threads read is      *)
(* sound because holders are of frames that are shared, which the producer *)
(* leaves alone.                                                           *)
(***************************************************************************)
EXTENDS FrameUse, TLAPS

MemoryIInv == TypeOK /\ NothingLeaks /\ NoBadFree /\ RowsMatchChannels /\ NoSharedRows

USE SizesAssumption, NullAssumption, RefRowsAssumption

\* The rows of all frames but f.
Others(f) == UNION {RowsOf(g) : g \in alive \ {f}}
-----------------------------------------------------------------------------
(***************************************************************************)
(* What free_memory and allocate_memory do.                                *)
(***************************************************************************)

\* Freeing as many rows as the frame has channels frees its rows and no other.
LEMMA FreedAll ==
    ASSUME MemoryIInv, ~fault, NEW f \in alive
    PROVE  /\ ~Unsound(f, channels_total[f])
           /\ Freed(f, channels_total[f]) = RowsOf(f)
<1>1. CASE rows[f] = Null
  BY <1>1 DEF Unsound, Freed, RowsOf
<1>2. CASE rows[f] # Null
  <2>1. /\ rows[f] \in Seq(Blocks) /\ Len(rows[f]) = channels_total[f]
        /\ RowsOf(f) \subseteq heap
    BY <1>2 DEF MemoryIInv, TypeOK, RowsMatchChannels
  <2>2. DOMAIN rows[f] = 1..channels_total[f] /\ channels_total[f] \in Nat
    BY <2>1
  <2>3. Freed(f, channels_total[f]) = RowsOf(f)
    BY <1>2, <2>2 DEF Freed, RowsOf, Range
  <2> QED
    BY <2>1, <2>2, <2>3 DEF Unsound
<1> QED
  BY <1>1, <1>2

\* A free of any number of rows that is sound frees rows of the frame.
LEMMA FreedOwn ==
    ASSUME MemoryIInv, NEW f \in Objects, NEW n \in Nat
    PROVE  Freed(f, n) \subseteq RowsOf(f)
BY DEF Freed, RowsOf, Range

\* allocate_memory gives a frame n rows that are not in use.
LEMMA Allocated ==
    ASSUME NEW f \in Objects, NEW n \in Channels, NEW left \in SUBSET Blocks,
           rows \in [Objects -> Seq(Blocks) \cup {Null}], Allocate(f, n, left)
    PROVE  \E table \in Seq(Blocks) :
              /\ table # Null /\ Len(table) = n /\ IsInjective(table)
              /\ rows' = [rows EXCEPT ![f] = table]
              /\ RowsOf(f)' = Range(table)
              /\ Range(table) \subseteq Blocks \ left
              /\ heap' = left \cup Range(table)
<1>1. PICK table \in Injection(1..n, Blocks \ left) :
         rows' = [rows EXCEPT ![f] = table] /\ heap' = left \cup Range(table)
  BY DEF Allocate
<1>2. table \in [1..n -> Blocks \ left] /\ n \in Nat
  BY DEF Injection
<1>3. table \in Seq(Blocks) /\ Len(table) = n
  BY <1>2
<1>4. Range(table) \subseteq Blocks \ left
  BY <1>2 DEF Range
<1>5. IsInjective(table)
  BY <1>1, <1>2 DEF Injection, IsInjective
<1> QED
  BY <1>1, <1>3, <1>4, <1>5 DEF RowsOf
-----------------------------------------------------------------------------
(***************************************************************************)
(* What the operations of a frame do to all frames.                        *)
(***************************************************************************)

\* A frame gets new rows while `left' stays allocated: the rows of the others,
\* and no more unless some leaked.
LEMMA RefillKeeps ==
    ASSUME MemoryIInv, ~fault,
           NEW f \in Objects, NEW n \in Channels, NEW length \in Lengths,
           NEW left \in SUBSET heap, Others(f) \subseteq left,
           Size(f, n, length), Allocate(f, n, left), alive' = alive \cup {f},
           misuse \subseteq misuse', misuse' \subseteq Misuses,
           "fewer" \notin misuse' => left = Others(f),
           fault' = FALSE
    PROVE  MemoryIInv'
<1>1. /\ TypeOK /\ left \in SUBSET Blocks
      /\ \A g \in alive \ {f} : RowsOf(g) \subseteq left
  BY DEF MemoryIInv, TypeOK, Others
<1>2. PICK table \in Seq(Blocks) :
         /\ table # Null /\ Len(table) = n /\ IsInjective(table)
         /\ rows' = [rows EXCEPT ![f] = table]
         /\ RowsOf(f)' = Range(table)
         /\ Range(table) \subseteq Blocks \ left
         /\ heap' = left \cup Range(table)
  BY <1>1, Allocated DEF TypeOK
<1>3. TypeOK'
  BY <1>1, <1>2 DEF TypeOK, Size
<1>4. ASSUME NEW g \in alive \ {f}
      PROVE  /\ g \in Objects
             /\ rows'[g] = rows[g] /\ RowsOf(g)' = RowsOf(g)
             /\ channels_total'[g] = channels_total[g]
             /\ samp_per_channel'[g] = samp_per_channel[g]
  BY <1>1, <1>2 DEF TypeOK, Size, RowsOf
<1>5. RowsMatchChannels'
  <2>1. rows'[f] = table /\ channels_total'[f] = n
    BY <1>1, <1>2 DEF TypeOK, Size
  <2>2. ASSUME NEW g \in alive \ {f}
        PROVE  IF rows'[g] = Null
               THEN channels_total'[g] = 0 \/ samp_per_channel'[g] = 0
               ELSE Len(rows'[g]) = channels_total'[g] /\ RowsOf(g)' \subseteq heap'
    BY <1>1, <1>2, <1>4 DEF MemoryIInv, RowsMatchChannels
  <2> QED
    BY <1>2, <2>1, <2>2 DEF RowsMatchChannels
<1>6. NoSharedRows'
  <2>1. \A g, h \in alive' : g # h => RowsOf(g)' \cap RowsOf(h)' = {}
    BY <1>1, <1>2, <1>4 DEF MemoryIInv, NoSharedRows
  <2>2. rows'[f] = table
    BY <1>1, <1>2 DEF TypeOK
  <2>3. \A g \in alive' : rows'[g] # Null => IsInjective(rows'[g])
    BY <1>2, <1>4, <2>2 DEF MemoryIInv, NoSharedRows
  <2> QED
    BY <2>1, <2>3 DEF NoSharedRows
<1>7. NothingLeaks'
  <2>1. UNION {RowsOf(g)' : g \in alive'} = Others(f) \cup Range(table)
    BY <1>2, <1>4 DEF Others
  <2> QED
    BY <1>2, <2>1 DEF NothingLeaks
<1>8. NoBadFree'
  BY DEF NoBadFree
<1> QED
  BY <1>3, <1>5, <1>6, <1>7, <1>8 DEF MemoryIInv

\* After a bad free nothing is promised but that there was a misuse.
LEMMA FaultKeeps ==
    ASSUME TypeOK', fault', misuse' \cap {"more", "copied"} # {}
    PROVE  MemoryIInv'
BY DEF MemoryIInv, NothingLeaks, NoBadFree, RowsMatchChannels, NoSharedRows

\* The rows of a frame and those of the others are apart.
LEMMA Apart ==
    ASSUME MemoryIInv, ~fault, NEW f \in alive
    PROVE  /\ Others(f) \subseteq heap \ RowsOf(f)
           /\ "fewer" \notin misuse => heap \ RowsOf(f) = Others(f)
<1>1. \A g \in alive : RowsOf(g) \subseteq heap
  BY DEF MemoryIInv, RowsMatchChannels, RowsOf
<1>2. \A g \in alive \ {f} : RowsOf(g) \cap RowsOf(f) = {}
  BY DEF MemoryIInv, NoSharedRows
<1>3. "fewer" \notin misuse => heap = UNION {RowsOf(g) : g \in alive}
  BY DEF MemoryIInv, NothingLeaks
<1> QED
  BY <1>1, <1>2, <1>3 DEF Others

LEMMA ConstructKeeps ==
    ASSUME MemoryIInv, ~fault, NEW f \in Objects, NEW n \in Channels,
           NEW length \in Lengths, Construct(f, n, length)
    PROVE  MemoryIInv'
<1>1. /\ Others(f) \subseteq heap
      /\ "fewer" \notin misuse => heap = Others(f)
      /\ alive \ {f} = alive /\ alive' = alive \cup {f}
      /\ fault' = FALSE /\ misuse' = misuse /\ misuse \subseteq Misuses
  BY DEF Construct, MemoryIInv, TypeOK, RowsMatchChannels, NothingLeaks, RowsOf, Others
<1>2. CASE Allocate(f, n, heap)
  BY <1>1, <1>2, RefillKeeps DEF Construct
<1>3. CASE n = 0 \/ length = 0
  <2> SUFFICES ASSUME rows' = [rows EXCEPT ![f] = Null] /\ heap' = heap
               PROVE  MemoryIInv'
    BY <1>2, <1>3 DEF Construct
  <2>1. TypeOK /\ TypeOK'
    BY <1>1 DEF MemoryIInv, TypeOK, Construct, Size
  <2>2. /\ \A g \in alive : /\ RowsOf(g)' = RowsOf(g) /\ rows'[g] = rows[g]
                            /\ channels_total'[g] = channels_total[g]
                            /\ samp_per_channel'[g] = samp_per_channel[g]
      /\ RowsOf(f)' = {} /\ rows'[f] = Null
      /\ channels_total'[f] = n /\ samp_per_channel'[f] = length
    BY <1>1, <2>1 DEF TypeOK, Construct, Size, RowsOf
  <2>3. RowsMatchChannels'
    BY <1>1, <1>3, <2>2 DEF MemoryIInv, RowsMatchChannels
  <2>4. NoSharedRows'
    BY <1>1, <2>2 DEF MemoryIInv, NoSharedRows
  <2>5. NothingLeaks'
    <3>1. UNION {RowsOf(g)' : g \in alive'} = UNION {RowsOf(g) : g \in alive}
      BY <1>1, <2>2
    <3> QED
      BY <1>1, <3>1 DEF MemoryIInv, NothingLeaks
  <2>6. NoBadFree'
    BY <1>1 DEF NoBadFree
  <2> QED
    BY <2>1, <2>3, <2>4, <2>5, <2>6 DEF MemoryIInv
<1> QED
  BY <1>2, <1>3 DEF Construct

LEMMA CopyConstructKeeps ==
    ASSUME MemoryIInv, ~fault, NEW f \in Objects, NEW from \in Objects,
           CopyConstruct(f, from)
    PROVE  MemoryIInv'
<1>1. /\ Others(f) \subseteq heap
      /\ "fewer" \notin misuse => heap = Others(f)
      /\ channels_total[from] \in Channels /\ samp_per_channel[from] \in Lengths
      /\ misuse' = misuse \cup {"copied"} /\ misuse' \subseteq Misuses
  BY DEF CopyConstruct, MemoryIInv, TypeOK, Misuses, RowsMatchChannels, NothingLeaks,
         RowsOf, Others
<1>2. CASE fault' = fault /\ Allocate(f, channels_total[from], heap)
  BY <1>1, <1>2, RefillKeeps DEF CopyConstruct, MemoryIInv, TypeOK
<1>3. CASE fault' = TRUE /\ UNCHANGED <<rows, heap>>
  <2>1. TypeOK'
    BY <1>1, <1>3 DEF CopyConstruct, MemoryIInv, TypeOK, Size
  <2> QED
    BY <1>1, <1>3, <2>1, FaultKeeps
<1> QED
  BY <1>2, <1>3 DEF CopyConstruct

LEMMA DestroyKeeps ==
    ASSUME MemoryIInv, ~fault, NEW f \in Objects, Destroy(f)
    PROVE  MemoryIInv'
<1>1. /\ f \in alive /\ alive' = alive \ {f}
      /\ heap' = heap \ RowsOf(f) /\ fault' = FALSE
      /\ rows' = [rows EXCEPT ![f] = Null]
      /\ UNCHANGED <<sizeVars, misuse>>
  BY FreedAll DEF Destroy, MemoryIInv, TypeOK
<1>2. /\ Others(f) \subseteq heap'
      /\ "fewer" \notin misuse => heap' = Others(f)
  BY <1>1, Apart
<1>3. TypeOK /\ TypeOK'
  BY <1>1 DEF MemoryIInv, TypeOK, sizeVars
<1>4. \A g \in alive \ {f} : RowsOf(g)' = RowsOf(g) /\ rows'[g] = rows[g]
  BY <1>1, <1>3 DEF TypeOK, RowsOf
<1>5. RowsMatchChannels'
  BY <1>1, <1>2, <1>4 DEF MemoryIInv, RowsMatchChannels, Others, sizeVars
<1>6. NoSharedRows'
  BY <1>1, <1>4 DEF MemoryIInv, NoSharedRows
<1>7. NothingLeaks'
  BY <1>1, <1>2, <1>4 DEF NothingLeaks, Others
<1>8. NoBadFree'
  BY <1>1 DEF NoBadFree
<1> QED
  BY <1>3, <1>5, <1>6, <1>7, <1>8 DEF MemoryIInv

LEMMA ResizeKeeps ==
    ASSUME MemoryIInv, ~fault, NEW f \in Objects, NEW n \in Channels,
           NEW length \in Lengths, Resize(f, n, length)
    PROVE  MemoryIInv'
<1>1. /\ f \in alive /\ fault' = FALSE
      /\ Allocate(f, n, heap \ RowsOf(f))
  BY FreedAll DEF Resize, MemoryIInv, TypeOK
<1>2. alive' = alive \cup {f} /\ misuse' = misuse /\ misuse \subseteq Misuses
  BY <1>1 DEF Resize, MemoryIInv, TypeOK
<1> QED
  BY <1>1, <1>2, Apart, RefillKeeps DEF Resize

\* operator= frees all rows of the frame, too few or too many of them.
LEMMA AssignKeeps ==
    ASSUME MemoryIInv, ~fault, NEW f \in Objects, NEW from \in Objects,
           Assign(f, from)
    PROVE  MemoryIInv'
<1> DEFINE n == channels_total[from]
           left == heap \ Freed(f, n)
<1>1. /\ f \in alive /\ alive' = alive \cup {f}
      /\ n \in Channels /\ samp_per_channel[from] \in Lengths
      /\ misuse \subseteq misuse' /\ misuse' \subseteq Misuses
      /\ Size(f, n, samp_per_channel[from]) /\ Allocate(f, n, left)
      /\ fault' = (fault \/ Unsound(f, n))
  BY DEF Assign, MemoryIInv, TypeOK
<1>2. TypeOK
  BY DEF MemoryIInv
<1>3. CASE Unsound(f, n)
  <2>1. "more" \in misuse'
    <3>1. rows[f] # Null /\ Len(rows[f]) = channels_total[f] /\ RowsOf(f) \subseteq heap
      BY <1>1, <1>3 DEF Unsound, MemoryIInv, RowsMatchChannels
    <3>2. n > channels_total[f]
      BY <1>1, <1>3, <3>1, FreedOwn DEF Unsound
    <3> QED
      BY <3>1, <3>2 DEF Assign, Misuses
  <2>2. PICK table \in Seq(Blocks) :
           /\ rows' = [rows EXCEPT ![f] = table]
           /\ Range(table) \subseteq Blocks \ left
           /\ heap' = left \cup Range(table)
    <3>1. left \in SUBSET Blocks /\ rows \in [Objects -> Seq(Blocks) \cup {Null}]
      BY <1>2 DEF TypeOK
    <3> HIDE DEF left, n
    <3> QED
      BY <1>1, <3>1, Allocated
  <2>3. TypeOK'
    BY <1>1, <1>2, <1>3, <2>2 DEF TypeOK, Size
  <2> QED
    BY <1>1, <1>3, <2>1, <2>3, FaultKeeps
<1>4. CASE ~Unsound(f, n)
  <2>1. Others(f) \subseteq left
    BY <1>1, <1>2, Apart, FreedOwn
  <2>2. ASSUME "fewer" \notin misuse' PROVE left = Others(f)
    <3>1. CASE rows[f] = Null
      BY <1>1, <2>2, <3>1, Apart DEF Freed, RowsOf
    <3>2. CASE rows[f] # Null
      <4>1. Len(rows[f]) = channels_total[f] /\ channels_total[f] \in Nat /\ n \in Nat
        BY <1>1, <1>2, <3>2 DEF MemoryIInv, RowsMatchChannels, TypeOK
      <4>2. n = channels_total[f]
        BY <1>4, <2>2, <3>2, <4>1 DEF Unsound, Assign, Misuses
      <4> QED
        BY <1>1, <2>2, <4>2, FreedAll, Apart
    <3> QED
      BY <3>1, <3>2
  <2> QED
    BY <1>1, <1>4, <2>1, <2>2, RefillKeeps DEF MemoryIInv, TypeOK
<1> QED
  BY <1>3, <1>4

LEMMA MemoryNextKeeps == ASSUME MemoryIInv, Next PROVE MemoryIInv'
BY ConstructKeeps, CopyConstructKeeps, DestroyKeeps, ResizeKeeps, AssignKeeps DEF Next

LEMMA MemoryStutter == ASSUME MemoryIInv, UNCHANGED vars PROVE MemoryIInv'
BY DEF vars, sizeVars, MemoryIInv, TypeOK, NothingLeaks, NoBadFree, RowsMatchChannels,
       NoSharedRows, RowsOf

LEMMA MemoryInit == Init => MemoryIInv
<1> SUFFICES ASSUME Init PROVE MemoryIInv
  OBVIOUS
<1>1. TypeOK
  BY DEF Init, TypeOK
<1> QED
  BY <1>1 DEF Init, MemoryIInv, NothingLeaks, NoBadFree, RowsMatchChannels, NoSharedRows
-----------------------------------------------------------------------------
(***************************************************************************)
(* The threads.                                                            *)
(***************************************************************************)

\* Holders are of frames that are shared, and those exist.
Sharing == \A f \in Objects : /\ holders[f] # {} => phase[f] = "shared"
                              /\ phase[f] = "shared" => f \in alive

\* A thread in an estimate() holds the frame, its pointer is the frame's, and the
\* estimators differ in what they ask.
Sound(t, r) == /\ t \in holders[r.frame]
               /\ ~fault => r.table = rows[r.frame]
               /\ ~fault /\ r.estimator = "amp" => samp_per_channel[r.frame] # 0
               /\ r.estimator # "pel" => r.wanted = FrameChannels
               /\ r.estimator = "pel" => r.ref \in Nat
               /\ r.ch \in Nat /\ r.ch >= 1

Reading == \A t \in Threads : reader[t] # Null => Sound(t, reader[t])

IInv == UseTypeOK /\ MemoryIInv /\ Sharing /\ Reading

\* The frame that a thread reads is shared.
LEMMA ReadIsShared ==
    ASSUME IInv, NEW t \in Threads, reader[t] # Null
    PROVE  LET f == reader[t].frame
           IN  /\ reader[t] \in Readers /\ f \in Objects
               /\ t \in holders[f] /\ phase[f] = "shared" /\ f \in alive
<1> DEFINE f == reader[t].frame
<1>1. reader[t] \in Readers
  BY DEF IInv, UseTypeOK
<1>2. f \in Objects
  BY <1>1 DEF Readers
<1>3. t \in holders[f]
  BY DEF IInv, Reading, Sound
<1>4. holders[f] # {}
  BY <1>3
<1> HIDE DEF f
<1>5. phase[f] = "shared" /\ f \in alive
  BY <1>2, <1>4 DEF IInv, Sharing
<1> QED
  BY <1>1, <1>2, <1>3, <1>5 DEF f

\* Each operation of the producer is one of FrameMemory, and those of the
\* threads leave the memory alone.
LEMMA MemoryStep == ASSUME UseNext PROVE Next \/ UNCHANGED vars
BY DEF UseNext, Build, BuildCopy, Refit, Overwrite, Drop, Clear, Publish, HandOut,
       Release, BeginAmp, BeginPhase, BeginPseudo, BeginPel, Begin, ReadRow, EndRead, Next

LEMMA MemoryKept == ASSUME MemoryIInv, [UseNext]_allVars PROVE MemoryIInv'
BY MemoryStep, MemoryNextKeeps, MemoryStutter DEF allVars

\* The producer's operations on a frame that is not shared.
LEMMA ProducerKeeps ==
    ASSUME IInv, MemoryIInv', NEW f \in Objects, phase[f] # "shared",
           f \in alive' \/ phase'[f] # "shared",
           \A g \in Objects \ {f} : /\ rows'[g] = rows[g]
                                   /\ samp_per_channel'[g] = samp_per_channel[g]
                                   /\ (g \in alive <=> g \in alive'),
           \/ phase' = phase
           \/ phase' = [phase EXCEPT ![f] = "cleared"],
           UNCHANGED <<holders, reader>>, ~fault
    PROVE  IInv'
<1>1. UseTypeOK'
  BY DEF IInv, UseTypeOK, MemoryIInv
<1>2. Sharing'
  <2> SUFFICES ASSUME NEW g \in Objects
               PROVE  /\ holders[g] # {} => phase'[g] = "shared"
                      /\ phase'[g] = "shared" => g \in alive'
    BY DEF Sharing
  <2>1. g # f => phase'[g] = phase[g] /\ (g \in alive <=> g \in alive')
    BY DEF IInv, UseTypeOK
  <2>2. holders[f] = {} /\ (phase'[f] = "shared" => f \in alive')
    BY DEF IInv, Sharing
  <2> QED
    BY <2>1, <2>2 DEF IInv, Sharing
<1>3. Reading'
  <2> SUFFICES ASSUME NEW t \in Threads, reader[t] # Null
               PROVE  /\ rows'[reader[t].frame] = rows[reader[t].frame]
                      /\ samp_per_channel'[reader[t].frame]
                            = samp_per_channel[reader[t].frame]
    BY DEF IInv, Reading, Sound
  <2>1. reader[t].frame \in Objects \ {f}
    BY ReadIsShared
  <2> QED
    BY <2>1
<1> QED
  BY <1>1, <1>2, <1>3 DEF IInv

\* What the threads do changes nothing that the others rely on.
LEMMA SoundKept ==
    ASSUME UNCHANGED <<vars, phase, holders>>, NEW t, NEW r, Sound(t, r)
    PROVE  Sound(t, r)'
BY DEF Sound, vars, sizeVars

\* A thread has entered an estimate() of a frame that it holds.
Entered(t) == \E r \in Readers : /\ reader' = [reader EXCEPT ![t] = r]
                                 /\ Sound(t, r)
                                 /\ UNCHANGED <<vars, phase, holders>>

\* An estimator starts as it should.
LEMMA BeginSound ==
    ASSUME TypeOK, NEW t \in Threads, NEW f \in Objects, NEW estimator \in Estimators,
           NEW wanted \in Channels \cup {FrameChannels}, NEW ch \in Nat, ch >= 1,
           NEW ref \in Nat \cup RefRows, Begin(t, f, estimator, wanted, ch, ref),
           estimator = "amp" => samp_per_channel[f] # 0,
           estimator # "pel" => wanted = FrameChannels,
           estimator = "pel" => ref \in Nat
    PROVE  Entered(t)
<1> DEFINE r == [estimator |-> estimator, frame |-> f, table |-> rows[f],
                 wanted |-> wanted, ch |-> ch, ref |-> ref]
<1>1. r \in Readers
  BY DEF TypeOK, Readers
<1>2. Sound(t, r)
  BY DEF Begin, Sound
<1>3. reader' = [reader EXCEPT ![t] = r] /\ UNCHANGED <<vars, phase, holders>>
  BY DEF Begin
<1> HIDE DEF r
<1> QED
  BY <1>1, <1>2, <1>3 DEF Entered

\* Each iteration leaves it so.
LEMMA NextRowSound ==
    ASSUME NEW t \in Threads, NEW r \in Readers, Sound(t, r)
    PROVE  NextRow(r) \in Readers /\ Sound(t, NextRow(r))
<1>1. CASE r.estimator = "pel" /\ r.ch >= r.wanted
  <2> DEFINE next == [estimator |-> r.estimator, frame |-> r.frame, table |-> r.table,
                      wanted |-> r.wanted, ch |-> r.ref + 2, ref |-> r.ref + 1]
  <2>1. r.ref \in Nat /\ NextRow(r) = next
    BY <1>1 DEF NextRow, Sound, Readers
  <2>2. next \in Readers
    BY <2>1 DEF Readers
  <2>3. Sound(t, next)
    BY <2>1 DEF Sound
  <2> QED
    BY <2>1, <2>2, <2>3
<1>2. CASE ~(r.estimator = "pel" /\ r.ch >= r.wanted)
  <2>1. NextRow(r) = [r EXCEPT !.ch = r.ch + 1]
    BY <1>2 DEF NextRow
  <2> QED
    BY <2>1 DEF Readers, Sound
<1> QED
  BY <1>1, <1>2

LEMMA NextKeeps == ASSUME IInv, UseNext PROVE IInv'
<1>1. MemoryIInv'
  BY MemoryKept DEF IInv
<1>2. TypeOK /\ TypeOK' /\ UseTypeOK
  BY <1>1 DEF IInv, MemoryIInv
<1>3. ASSUME NEW f \in Objects, NEW n \in Channels, NEW length \in Lengths, ~fault,
             Build(f, n, length) \/ Refit(f, n, length)
      PROVE  IInv'
  BY <1>1, <1>2, <1>3, ProducerKeeps
     DEF Build, Refit, Construct, Resize, Allocate, Size, Owned, useVars, TypeOK, IInv,
         Sharing
<1>4. ASSUME NEW f \in Objects, NEW from \in Objects, ~fault,
             BuildCopy(f, from) \/ Overwrite(f, from)
      PROVE  IInv'
  BY <1>1, <1>2, <1>4, ProducerKeeps
     DEF BuildCopy, Overwrite, CopyConstruct, Assign, Allocate, Size, Owned, useVars,
         TypeOK, IInv, Sharing
<1>5. ASSUME NEW f \in Objects, ~fault, Drop(f) PROVE IInv'
  BY <1>1, <1>2, <1>5, ProducerKeeps DEF Drop, Destroy, Owned, UseTypeOK, TypeOK, sizeVars
<1>6. ASSUME NEW f \in Objects, ~fault, Clear(f) PROVE IInv'
  BY <1>1, <1>2, <1>6, ProducerKeeps DEF Clear, Lifetime!Recycle, UseTypeOK, vars, sizeVars
<1>7. ASSUME NEW f \in Objects, NEW t \in Threads,
             Publish(f, t) \/ HandOut(f, t) \/ Release(f, t)
      PROVE  IInv'
  <2>1. UNCHANGED <<vars, reader>>
    BY <1>7 DEF Publish, HandOut, Release
  <2>2. UseTypeOK'
    BY <1>1, <1>2, <1>7, <2>1
       DEF UseTypeOK, MemoryIInv, Publish, HandOut, Release, Lifetime!Publish,
           Lifetime!HandOut, Lifetime!Release
  <2>3. Sharing'
    BY <1>2, <1>7, <2>1
       DEF IInv, UseTypeOK, Sharing, Publish, HandOut, Release, Lifetime!Publish,
           Lifetime!HandOut, Lifetime!Release, vars
  <2>4. Reading'
    <3> SUFFICES ASSUME NEW u \in Threads, reader[u] # Null
                 PROVE  u \in holders'[reader[u].frame]
      BY <2>1 DEF IInv, Reading, Sound, vars, sizeVars
    <3>1. /\ reader[u].frame \in Objects /\ u \in holders[reader[u].frame]
          /\ phase[reader[u].frame] = "shared"
      BY ReadIsShared
    <3>2. u = t => Reads(t, reader[u].frame)
      BY DEF Reads
    <3> QED
      BY <1>2, <1>7, <3>1, <3>2
         DEF UseTypeOK, Publish, HandOut, Release, Lifetime!Publish, Lifetime!HandOut,
             Lifetime!Release
  <2> QED
    BY <1>1, <2>2, <2>3, <2>4 DEF IInv
<1>8. ASSUME NEW t \in Threads, NEW f \in Objects,
             \/ BeginAmp(t, f) \/ BeginPhase(t, f)
             \/ \E ref \in RefRows : BeginPseudo(t, f, ref)
             \/ \E n \in Channels : BeginPel(t, f, n)
      PROVE  IInv'
  <2>0. Entered(t)
    <3>0. /\ FrameChannels \in Channels \cup {FrameChannels}
          /\ RefRows \subseteq Nat \cup RefRows /\ 1 \in Nat \cup RefRows
          /\ 1 \in Nat /\ 1 >= 1
      OBVIOUS
    <3>1. CASE BeginAmp(t, f)
      <4>1. /\ Begin(t, f, "amp", FrameChannels, 1, 1)
            /\ "amp" \in Estimators /\ "amp" # "pel"
            /\ samp_per_channel[f] # 0
        BY <3>1 DEF BeginAmp, Estimators
      <4> QED
        BY <1>2, <3>0, <4>1, BeginSound
    <3>2. CASE BeginPhase(t, f)
      <4>1. /\ Begin(t, f, "phase", FrameChannels, 1, 1)
            /\ "phase" \in Estimators
            /\ "phase" # "amp" /\ "phase" # "pel"
        BY <3>2 DEF BeginPhase, Estimators
      <4> QED
        BY <1>2, <3>0, <4>1, BeginSound
    <3>3. ASSUME NEW ref \in RefRows, BeginPseudo(t, f, ref)
          PROVE  Entered(t)
      <4>1. /\ Begin(t, f, "pseudo", FrameChannels, 1, ref)
            /\ "pseudo" \in Estimators
            /\ "pseudo" # "amp" /\ "pseudo" # "pel"
        BY <3>3 DEF BeginPseudo, Estimators
      <4> QED
        BY <1>2, <3>0, <4>1, BeginSound
    <3>4. ASSUME NEW n \in Channels, BeginPel(t, f, n)
          PROVE  Entered(t)
      <4>1. /\ Begin(t, f, "pel", n, 2, 1)
            /\ "pel" \in Estimators
            /\ "pel" # "amp" /\ 1 \in Nat /\ 2 \in Nat
        BY <3>4 DEF BeginPel, Estimators
      <4> QED
        BY <1>2, <3>0, <4>1, BeginSound
    <3> QED
      BY <1>8, <3>1, <3>2, <3>3, <3>4
  <2>1. PICK r \in Readers :
           /\ reader' = [reader EXCEPT ![t] = r]
           /\ Sound(t, r)
           /\ UNCHANGED <<vars, phase, holders>>
    BY <2>0 DEF Entered
  <2>2. UseTypeOK' /\ Sharing'
    BY <1>1, <1>2, <2>1 DEF UseTypeOK, MemoryIInv, IInv, Sharing, vars
  <2>3. Reading'
    BY <1>2, <2>1, SoundKept DEF UseTypeOK, IInv, Reading
  <2> QED
    BY <1>1, <2>2, <2>3 DEF IInv
<1>9. ASSUME NEW t \in Threads, ReadRow(t) PROVE IInv'
  <2> DEFINE r == NextRow(reader[t])
  <2>1. /\ reader[t] \in Readers /\ Sound(t, reader[t])
        /\ reader' = [reader EXCEPT ![t] = r]
        /\ UNCHANGED <<vars, phase, holders>>
    BY <1>2, <1>9 DEF ReadRow, UseTypeOK, IInv, Reading
  <2>2. r \in Readers /\ Sound(t, r)
    BY <2>1, NextRowSound
  <2>3. UseTypeOK' /\ Sharing'
    BY <1>1, <1>2, <2>1, <2>2 DEF UseTypeOK, MemoryIInv, IInv, Sharing, vars
  <2>4. Reading'
    BY <1>2, <2>1, <2>2, SoundKept DEF UseTypeOK, IInv, Reading
  <2> QED
    BY <1>1, <2>3, <2>4 DEF IInv
<1>10. ASSUME NEW t \in Threads, EndRead(t) PROVE IInv'
  <2>1. UseTypeOK' /\ Sharing'
    BY <1>1, <1>2, <1>10 DEF EndRead, UseTypeOK, MemoryIInv, IInv, Sharing, vars
  <2>2. Reading'
    BY <1>2, <1>10, SoundKept DEF EndRead, UseTypeOK, IInv, Reading
  <2> QED
    BY <1>1, <2>1, <2>2 DEF IInv
<1> QED
  BY <1>3, <1>4, <1>5, <1>6, <1>7, <1>8, <1>9, <1>10 DEF UseNext

\* The memory is sound, and no frame changes under a thread that reads it.
THEOREM Invariance == UseSpec => []IInv
<1>1. UseInit => IInv
  <2> SUFFICES ASSUME UseInit PROVE IInv
    OBVIOUS
  <2>1. MemoryIInv
    BY MemoryInit DEF UseInit
  <2>2. UseTypeOK
    BY <2>1 DEF UseInit, UseTypeOK, MemoryIInv, Lifetime!Init
  <2> QED
    BY <2>1, <2>2 DEF UseInit, Lifetime!Init, IInv, Sharing, Reading
<1>2. ASSUME IInv, UNCHANGED allVars PROVE IInv'
  <2>1. MemoryIInv'
    BY <1>2, MemoryKept DEF IInv
  <2> QED
    BY <1>2, <2>1 DEF allVars, useVars, vars, IInv, MemoryIInv, UseTypeOK, Sharing, Reading,
                       Sound, sizeVars
<1> QED
  BY <1>1, <1>2, NextKeeps, PTL DEF UseSpec
-----------------------------------------------------------------------------
\* Every variable has its type.
THEOREM TypeCorrect == UseSpec => []UseTypeOK
<1>1. IInv => UseTypeOK
  BY DEF IInv
<1> QED
  BY <1>1, Invariance, PTL

\* Nothing leaks while no frame was assigned to one with more channels.
THEOREM LeakFree == UseSpec => []NothingLeaks
<1>1. IInv => NothingLeaks
  BY DEF IInv, MemoryIInv
<1> QED
  BY <1>1, Invariance, PTL

\* Only the two misuses of frames free what is not to be freed.
THEOREM FreesSound == UseSpec => []NoBadFree
<1>1. IInv => NoBadFree
  BY DEF IInv, MemoryIInv
<1> QED
  BY <1>1, Invariance, PTL

\* A frame has as many rows as channels, and they are allocated.
THEOREM SizesTrue == UseSpec => []RowsMatchChannels
<1>1. IInv => RowsMatchChannels
  BY DEF IInv, MemoryIInv
<1> QED
  BY <1>1, Invariance, PTL

\* Copies are deep.
THEOREM CopiesDeep == UseSpec => []NoSharedRows
<1>1. IInv => NoSharedRows
  BY DEF IInv, MemoryIInv
<1> QED
  BY <1>1, Invariance, PTL

\* Threads read allocated rows of their frame, save where the estimator does not
\* check the row or was given a frame without samples.
THEOREM ReadersSafe == UseSpec => []ReadsSound
<1>1. ASSUME IInv PROVE ReadsSound
  <2> SUFFICES ASSUME ~fault, NEW t \in Threads, reader[t] # Null, MoreRows(reader[t])
               PROVE  LET r == reader[t]
                          f == r.frame
                      IN  /\ r.table = rows[f]
                          /\ \A row \in RowsRead(r) :
                                \/ InTable(r, row) /\ r.table[row] \in heap
                                \/ row \in Unchecked(r) /\ row \notin 1..channels_total[f]
                                \/ /\ r.estimator # "amp"
                                   /\ r.table = Null /\ samp_per_channel[f] = 0
    BY DEF ReadsSound
  <2> DEFINE r == reader[t]
             f == r.frame
             n == channels_total[f]
  <2>1. /\ f \in alive /\ f \in Objects /\ r.table = rows[f]
        /\ r \in Readers /\ Sound(t, r) /\ n \in Nat
    BY <1>1, ReadIsShared DEF IInv, Reading, Sound, MemoryIInv, TypeOK
  <2> USE DEF Estimators
  <2>2. ASSUME NEW row \in RowsRead(r), row \in 1..n, rows[f] # Null
        PROVE  InTable(r, row) /\ r.table[row] \in heap
    <3>1. rows[f] \in Seq(Blocks) /\ Len(rows[f]) = n /\ Range(rows[f]) \subseteq heap
      BY <1>1, <2>1, <2>2 DEF IInv, MemoryIInv, TypeOK, RowsMatchChannels, RowsOf
    <3> QED
      BY <2>1, <2>2, <3>1 DEF InTable, Range
  <2>3. ASSUME NEW row \in RowsRead(r), row \notin 1..n
        PROVE  row \in Unchecked(r)
    <3>1. CASE r.estimator = "pel"
      BY <3>1, <2>3 DEF RowsRead, Unchecked
    <3>2. CASE r.estimator # "pel"
      <4>1. r.ch \in 1..n
        <5>1. r.wanted = FrameChannels /\ r.ch \in Nat /\ r.ch >= 1
          BY <2>1, <3>2 DEF Sound
        <5>2. r.ch <= n
          BY <5>1 DEF MoreRows
        <5> QED
          BY <2>1, <5>1, <5>2
      <4>2. r.estimator = "pseudo" /\ row = r.ref
        BY <2>1, <2>3, <3>2, <4>1 DEF RowsRead, Readers
      <4> QED
        BY <4>2 DEF Unchecked
    <3> QED
      BY <3>1, <3>2
  <2>4. ASSUME NEW row \in RowsRead(r), row \in 1..n, rows[f] = Null
        PROVE  r.estimator # "amp" /\ r.table = Null /\ samp_per_channel[f] = 0
    <3>1. n # 0
      BY <2>1, <2>4
    <3>2. samp_per_channel[f] = 0
      BY <1>1, <2>1, <2>4, <3>1 DEF IInv, MemoryIInv, RowsMatchChannels
    <3> QED
      BY <2>1, <2>4, <3>2 DEF Sound
  <2> QED
    BY <2>1, <2>2, <2>3, <2>4
<1> QED
  BY <1>1, Invariance, PTL
=============================================================================
