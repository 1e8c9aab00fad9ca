----------------------------- MODULE FrameMemory -----------------------------
(***************************************************************************)
(* The memory of frames: what SpecFrame allocates and frees (specframe.h,  *)
(* specframe.cpp) when frames are constructed, resized, assigned and       *)
(* destroyed, in any order.                                                *)
(*                                                                         *)
(* The samples of a frame are rows, one for each channel, each a block of  *)
(* the heap.  rows[f] is the data pointer: Null, or the table of rows.     *)
(* free_memory frees as many rows of the table as channels_total says, and *)
(* each operation must call it while that is still the number of rows.     *)
(*                                                                         *)
(* A definition named <Operation>_<Flaw> is Operation with a flaw; no      *)
(* specification uses it, it is there to show that a property depends on   *)
(* what Operation does.                                                    *)
(***************************************************************************)
EXTENDS Naturals, Sequences, FiniteSets, Functions

CONSTANTS Objects,      \* the frame objects
          Blocks,       \* the blocks of the heap, a bound
          Channels,     \* numbers of channels
          Lengths,      \* numbers of samples in a channel
          Null

ASSUME SizesAssumption == Channels \subseteq Nat /\ Lengths \subseteq Nat

ASSUME NullAssumption == Null \notin Seq(Blocks)

VARIABLES alive,        \* the objects that exist
          channels_total, samp_per_channel,
          rows,         \* SpecFrame::data
          heap,         \* the blocks allocated
          misuse,       \* history: the calls that went wrong, of Misuses
          fault         \* memory that is not the frame's was freed

sizeVars == <<channels_total, samp_per_channel>>
vars == <<alive, sizeVars, rows, heap, misuse, fault>>

\* The frame assigned had fewer, or more, channels than the one assigned to;
\* a frame was built by the copy constructor.
Misuses == {"fewer", "more", "copied"}

TypeOK == /\ alive \subseteq Objects
          /\ channels_total \in [Objects -> Channels]
          /\ samp_per_channel \in [Objects -> Lengths]
          /\ rows \in [Objects -> Seq(Blocks) \cup {Null}]
          /\ heap \subseteq Blocks
          /\ misuse \subseteq Misuses
          /\ fault \in BOOLEAN

RowsOf(f) == IF rows[f] = Null THEN {} ELSE Range(rows[f])

Init == /\ alive = {}
        /\ channels_total \in [Objects -> {0} \cap Channels]
        /\ samp_per_channel \in [Objects -> {0} \cap Lengths]
        /\ rows = [f \in Objects |-> Null]
        /\ heap = {}
        /\ misuse = {}
        /\ fault = FALSE

\* free_memory(), called when channels_total is n: the blocks it frees.  It
\* reads past the table of rows, or frees what is not allocated, if Unsound.
Freed(f, n) == IF rows[f] = Null THEN {}
               ELSE {rows[f][ch] : ch \in (1..n) \cap DOMAIN rows[f]}

Unsound(f, n) == /\ rows[f] # Null
                 /\ \/ n > Len(rows[f])
                    \/ ~(Freed(f, n) \subseteq heap)

\* allocate_memory(): n rows, while the blocks in `left' stay allocated.
Allocate(f, n, left) ==
    \E table \in Injection(1..n, Blocks \ left) :
        /\ rows' = [rows EXCEPT ![f] = table]
        /\ heap' = left \cup Range(table)

Size_Total(f, n, length) ==
    /\ channels_total' = [channels_total EXCEPT ![f] = n]
    /\ samp_per_channel' = [samp_per_channel EXCEPT ![f] = n * length]

Size_KeepsChannels(f, n, length) ==
    /\ channels_total' = channels_total
    /\ samp_per_channel' = [samp_per_channel EXCEPT ![f] = length]

Size(f, n, length) ==
    /\ channels_total' = [channels_total EXCEPT ![f] = n]
    /\ samp_per_channel' = [samp_per_channel EXCEPT ![f] = length]

\* SpecFrame(channels, length)
Construct(f, n, length) ==
    /\ f \notin alive
    /\ alive' = alive \cup {f}
    /\ Size(f, n, length)
    /\ \/ /\ n = 0 \/ length = 0
          /\ rows' = [rows EXCEPT ![f] = Null]
          /\ heap' = heap
       \/ /\ n # 0 /\ length # 0
          /\ Allocate(f, n, heap)
    /\ UNCHANGED <<misuse, fault>>

\* SpecFrame(const SpecFrame &) calls free_memory before data has a value: the
\* memory the object is built in holds a null pointer by chance, or it does not.
CopyConstruct(f, from) ==
    /\ f \notin alive /\ from \in alive
    /\ alive' = alive \cup {f}
    /\ Size(f, channels_total[from], samp_per_channel[from])
    /\ misuse' = misuse \cup {"copied"}
    /\ \/ fault' = fault /\ Allocate(f, channels_total[from], heap)
       \/ fault' = TRUE /\ UNCHANGED <<rows, heap>>

Destroy_NotFreed(f) ==
    /\ f \in alive
    /\ alive' = alive \ {f}
    /\ rows' = [rows EXCEPT ![f] = Null]
    /\ UNCHANGED <<sizeVars, heap, misuse, fault>>

\* ~SpecFrame()
Destroy(f) ==
    /\ f \in alive
    /\ alive' = alive \ {f}
    /\ heap' = heap \ Freed(f, channels_total[f])
    /\ fault' = (fault \/ Unsound(f, channels_total[f]))
    /\ rows' = [rows EXCEPT ![f] = Null]
    /\ UNCHANGED <<sizeVars, misuse>>

Resize_SizeFirst(f, n, length) ==
    /\ f \in alive
    /\ Size(f, n, length)
    /\ fault' = (fault \/ Unsound(f, n))
    /\ Allocate(f, n, heap \ Freed(f, n))
    /\ UNCHANGED <<alive, misuse>>

\* resize(): the loader calls it for each frame, the writer for new data.
Resize(f, n, length) ==
    /\ f \in alive
    /\ Size(f, n, length)
    /\ fault' = (fault \/ Unsound(f, channels_total[f]))
    /\ Allocate(f, n, heap \ Freed(f, channels_total[f]))
    /\ UNCHANGED <<alive, misuse>>

\* operator=: channels_total is already the other frame's when free_memory
\* is called.
Assign_Shallow(f, from) ==
    /\ f \in alive /\ from \in alive \ {f}
    /\ channels_total[f] = channels_total[from]
    /\ Size(f, channels_total[from], samp_per_channel[from])
    /\ rows' = [rows EXCEPT ![f] = rows[from]]
    /\ heap' = heap \ Freed(f, channels_total[f])
    /\ UNCHANGED <<alive, misuse, fault>>

Assign(f, from) ==
    /\ f \in alive /\ from \in alive \ {f}
    /\ LET n == channels_total[from]
       IN /\ Size(f, n, samp_per_channel[from])
          /\ misuse' = misuse \cup
                {m \in Misuses :
                    /\ rows[f] # Null
                    /\ \/ m = "fewer" /\ n < channels_total[f]
                       \/ m = "more" /\ n > channels_total[f]}
          /\ fault' = (fault \/ Unsound(f, n))
          /\ Allocate(f, n, heap \ Freed(f, n))
    /\ UNCHANGED alive

\* What follows a bad free is undefined.
Next == /\ ~fault
        /\ \E f \in Objects :
           \/ \E n \in Channels, length \in Lengths : Construct(f, n, length)
           \/ \E n \in Channels, length \in Lengths : Resize(f, n, length)
           \/ \E from \in Objects : CopyConstruct(f, from) \/ Assign(f, from)
           \/ Destroy(f)

Spec == Init /\ [][Next]_vars
-----------------------------------------------------------------------------
(***************************************************************************)
(* Properties.                                                             *)
(***************************************************************************)

\* As long as no frame was assigned to one with more channels, every allocated
\* row belongs to a frame that exists: nothing leaks through any sequence of
\* constructing, resizing, assigning and destroying.
NothingLeaks ==
    "fewer" \notin misuse /\ ~fault => heap = UNION {RowsOf(f) : f \in alive}

\* As long as no frame was assigned to one with fewer channels and none was
\* built by the copy constructor, nothing is freed that is not a row of the
\* frame, and no row is freed twice.
NoBadFree == misuse \cap {"more", "copied"} = {} => ~fault

\* The rows a frame points to are allocated, and as many as it says it has
\* channels, whatever was assigned; only a frame built without samples has no
\* table.
RowsMatchChannels ==
    ~fault =>
        \A f \in alive :
            IF rows[f] = Null
            THEN channels_total[f] = 0 \/ samp_per_channel[f] = 0
            ELSE Len(rows[f]) = channels_total[f] /\ RowsOf(f) \subseteq heap

\* Copies are deep: writing to a row changes no sample of another frame, and no
\* other row of its own.
NoSharedRows ==
    ~fault =>
        /\ \A f, g \in alive : f # g => RowsOf(f) \cap RowsOf(g) = {}
        /\ \A f \in alive : rows[f] # Null => IsInjective(rows[f])
=============================================================================
