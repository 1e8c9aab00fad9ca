---------------------------- MODULE FrameFileProofs ----------------------------
(***************************************************************************)
(* Proofs about FrameFile, for any frames, posts and room on the disk.     *)
(*                                                                         *)
(* The loader has no marks in the file to go by: that it reads a frame as  *)
(* one rests on its cursor being where a record begins.  So the invariant  *)
(* says where the records are, at[i] being the units before record i.      *)
(***************************************************************************)
EXTENDS FrameFile, SequenceTheorems, TLAPS

\* The frames have all samples of the spectrum.
FullFrames == \A shape \in Shapes : shape.full = shape.len

Metas == [serial : Nat, full : Nat, bound : Nat]
Rows == [serial : Nat \cup {Garbage}, ch : Nat, n : Nat, beyond : Nat]
Units == Nat \cup Metas \cup Rows \cup {"length", SaverPost, "period"}

SavedFrames == {Frame(shape, s) : shape \in Shapes, s \in Nat}

LoadedFrames == [ch : Nat, len : Units \cup {Garbage}, post : LoaderPosts,
                 meta : Units \cup {Garbage}, rows : Seq(Units)]
-----------------------------------------------------------------------------
LEMMA FrameFields ==
    ASSUME NEW f \in SavedFrames
    PROVE  /\ f.ch \in Nat /\ f.len \in Nat /\ f.meta \in Metas
           /\ DOMAIN f.rows = 1..f.ch
           /\ \A c \in 1..f.ch : f.rows[c] = Row(f.meta.serial, c, f.len, 0)
           /\ FullFrames => f.meta.full = f.len
<1>1. PICK shape \in Shapes, s \in Nat : f = Frame(shape, s)
  BY DEF SavedFrames
<1>2. shape \in [ch : Nat, len : Nat, full : Nat, bound : Nat]
  BY ShapesAssumption
<1> QED
  BY <1>1, <1>2 DEF Frame, Metas, FullFrames

\* A record has a unit for each field that can be missing.
LEMMA RecordUnits ==
    ASSUME NEW f \in SavedFrames
    PROVE  /\ Record(f) \in Seq(Units)
           /\ Len(Record(f)) = 3 + f.ch
           /\ Record(f)[1] = f.ch /\ Record(f)[2] = WrittenLength(f)
           /\ Record(f)[3] = f.meta
           /\ \A c \in 1..f.ch : Record(f)[3 + c] = WrittenRow(f, c)
<1>1. /\ f.ch \in Nat /\ f.len \in Nat /\ f.meta \in Metas
      /\ f.meta.full \in Nat /\ f.meta.serial \in Nat
  BY FrameFields DEF Metas
<1> DEFINE fields == <<f.ch, WrittenLength(f), f.meta>>
           written == [c \in 1..f.ch |-> WrittenRow(f, c)]
<1>2. fields \in Seq(Units) /\ Len(fields) = 3
  BY <1>1 DEF Units, WrittenLength
<1>3. \A c \in 1..f.ch : WrittenRow(f, c) \in Rows
  BY <1>1 DEF WrittenRow, WrittenLength, Row, Rows, Least
<1>4. written \in Seq(Units) /\ Len(written) = f.ch
  BY <1>1, <1>3 DEF Units
<1>5. /\ fields \o written \in Seq(Units)
      /\ Len(fields \o written) = 3 + f.ch
      /\ \A k \in 1..3 + f.ch :
            (fields \o written)[k] = IF k <= 3 THEN fields[k] ELSE written[k - 3]
  <2> HIDE DEF fields, written
  <2>1. /\ fields \o written \in Seq(Units)
        /\ Len(fields \o written) = Len(fields) + Len(written)
    BY <1>2, <1>4, ConcatProperties
  <2>2. \A k \in 1..Len(fields) + Len(written) :
          (fields \o written)[k] = IF k <= Len(fields) THEN fields[k]
                                   ELSE written[k - Len(fields)]
    BY <1>2, <1>4, ConcatProperties
  <2> QED
    BY <1>1, <1>2, <1>4, <2>1, <2>2
<1>6. /\ (fields \o written)[1] = f.ch /\ (fields \o written)[2] = WrittenLength(f)
      /\ (fields \o written)[3] = f.meta
  BY <1>1, <1>5
<1>7. \A c \in 1..f.ch : (fields \o written)[3 + c] = WrittenRow(f, c)
  BY <1>1, <1>5
<1> QED
  BY <1>5, <1>6, <1>7 DEF Record

\* What was written of a full frame is the frame.
LEMMA FullRecord ==
    ASSUME FullFrames, NEW f \in SavedFrames
    PROVE  /\ WrittenLength(f) = f.len
           /\ \A c \in 1..f.ch : WrittenRow(f, c) = f.rows[c]
BY FrameFields DEF WrittenLength, WrittenRow, Least, Row
-----------------------------------------------------------------------------
(***************************************************************************)
(* The invariant.                                                          *)
(***************************************************************************)
FileState ==
    /\ saver \in Pointers \cup {"crashed"}
    /\ file \in Seq(Units) /\ saved \in Seq(SavedFrames)
    /\ Len(saved) <= MaxFrames
    /\ file = <<>> => saved = <<>>
    /\ disk \in Nat /\ disk <= Len(file) /\ disk <= Capacity
    /\ saver = "stale" => disk = Least(Len(file), Capacity)
    /\ fault \in BOOLEAN

LoaderState ==
    /\ loader \in Pointers /\ loaderPost \in LoaderPosts
    /\ titled \in BOOLEAN /\ eof \in BOOLEAN
    /\ late \in BOOLEAN /\ ended \in BOOLEAN
    /\ loaded \in Seq(LoadedFrames)
    /\ cursor \in Nat /\ cursor <= disk
    /\ ~titled => loaded = <<>> /\ cursor = 0 /\ ~eof /\ ~ended
    /\ titled => file # <<>> /\ cursor >= 2
    /\ ended => eof
    /\ late => saver = "stale"

\* Record i follows the first at[i] units; the last entry is where the next
\* record will be.
Layout(at) ==
    /\ at \in Seq(Nat) /\ Len(at) = Len(saved) + 1
    /\ at[1] = 3 /\ at[Len(saved) + 1] = Len(file)
    /\ \A i, j \in 1..Len(saved) + 1 : i < j => at[i] < at[j]
    /\ \A i \in 1..Len(saved) :
          /\ at[i + 1] = at[i] + Len(Record(saved[i]))
          /\ \A k \in 1..Len(Record(saved[i])) : file[at[i] + k] = Record(saved[i])[k]

\* All of the recording was there when its title was read.
Complete == late /\ titled /\ Len(file) <= Capacity

\* The loader is at the beginning of a record, unless it has met the end of the
\* file inside of one.
Position(at) ==
    /\ Len(loaded) <= Len(saved)
    /\ titled /\ ~eof => cursor = at[Len(loaded) + 1]
    /\ Complete => cursor = at[Len(loaded) + 1]
    /\ Complete /\ eof => cursor = disk

\* Only the last frame loaded is not as recorded, and none of a complete file.
FramesRight ==
    \A i \in 1..Len(loaded) :
        \/ Same(loaded[i], saved[i])
        \/ i = Len(loaded) /\ eof /\ ~Complete

IInv == /\ FileState /\ LoaderState
        /\ file = <<>> => loaded = <<>>
        /\ file # <<>> => \E at : Layout(at) /\ Position(at)
        /\ FullFrames => FramesRight

LEMMA InitIInv == Init => IInv
<1> SUFFICES ASSUME Init PROVE IInv
  OBVIOUS
<1>1. /\ <<>> \in Seq(Units) /\ <<>> \in Seq(SavedFrames) /\ <<>> \in Seq(LoadedFrames)
      /\ Len(<<>>) = 0
  OBVIOUS
<1>2. FileState
  <2>1. /\ file \in Seq(Units) /\ saved \in Seq(SavedFrames)
        /\ Len(file) = 0 /\ Len(saved) = 0 /\ saved = <<>>
    BY <1>1 DEF Init
  <2>2. /\ saver \in Pointers \cup {"crashed"} /\ saver # "stale"
        /\ disk = 0 /\ fault \in BOOLEAN
    BY DEF Init, Pointers
  <2> QED
    BY <2>1, <2>2, BoundsAssumption DEF FileState
<1>3. LoaderState
  <2>1. loaded \in Seq(LoadedFrames)
    BY <1>1 DEF Init
  <2>2. /\ loader \in Pointers /\ loaderPost \in LoaderPosts
        /\ loaded = <<>> /\ cursor = 0 /\ disk = 0
        /\ ~titled /\ ~eof /\ ~late /\ ~ended
    BY DEF Init, Pointers
  <2>3. titled \in BOOLEAN /\ eof \in BOOLEAN /\ late \in BOOLEAN /\ ended \in BOOLEAN
    BY DEF Init
  <2> QED
    BY <2>1, <2>2, <2>3 DEF LoaderState
<1> QED
  BY <1>1, <1>2, <1>3 DEF Init, IInv, FramesRight

\* What the recorder does to its file pointer and to the disk, and the loader
\* to its own, moves no record and no cursor.
LEMMA QuietKeeps ==
    ASSUME IInv, FileState', loader' \in Pointers,
           UNCHANGED <<file, saved, loaderPost, titled, cursor, eof, loaded, late, ended>>,
           disk <= disk', late => disk' = disk /\ saver' = saver
    PROVE  IInv'
<1>1. LoaderState'
  BY DEF IInv, FileState, LoaderState
<1>2. Complete' <=> Complete
  BY DEF Complete
<1>3. ASSUME NEW at, Layout(at) /\ Position(at) PROVE Layout(at)' /\ Position(at)'
  BY <1>2, <1>3 DEF Layout, Position, Complete
<1>4. FullFrames => FramesRight'
  BY <1>2 DEF IInv, FramesRight
<1> QED
  BY <1>1, <1>3, <1>4 DEF IInv

LEMMA StdioKeeps ==
    ASSUME IInv,
           \/ SaverOpen \/ Flush \/ SaverClose \/ Crash \/ SaverUseNotOpen
           \/ LoaderClose \/ LoaderUseNotOpen \/ LoadNoMemory
    PROVE  IInv'
<1>1. CASE SaverOpen \/ Crash
  <2>1. FileState'
    BY <1>1 DEF SaverOpen, Crash, IInv, FileState, Pointers
  <2> QED
    BY <1>1, <2>1, QuietKeeps DEF SaverOpen, Crash, loaderVars, IInv, FileState, LoaderState
<1>2. CASE Flush
  <2>1. FileState' /\ disk <= disk'
    BY <1>2, BoundsAssumption DEF Flush, IInv, FileState, Least
  <2> QED
    BY <1>2, <2>1, QuietKeeps DEF Flush, loaderVars, IInv, LoaderState
<1>3. CASE SaverClose
  <2>1. FileState' /\ disk <= disk'
    BY <1>3, BoundsAssumption DEF SaverClose, IInv, FileState, Pointers, Least
  <2> QED
    BY <1>3, <2>1, QuietKeeps DEF SaverClose, loaderVars, IInv, LoaderState
<1>4. CASE SaverUseNotOpen \/ LoaderUseNotOpen \/ LoadNoMemory
  <2>1. FileState'
    BY <1>4 DEF SaverUseNotOpen, LoaderUseNotOpen, LoadNoMemory, saverVars, IInv, FileState
  <2> QED
    BY <1>4, <2>1, QuietKeeps
       DEF SaverUseNotOpen, LoaderUseNotOpen, LoadNoMemory, saverVars, loaderVars, IInv,
           FileState, LoaderState
<1>5. CASE LoaderClose
  <2>1. FileState'
    BY <1>5 DEF LoaderClose, saverVars, IInv, FileState
  <2> QED
    BY <1>5, <2>1, QuietKeeps
       DEF LoaderClose, saverVars, Pointers, IInv, FileState
<1> QED
  BY <1>1, <1>2, <1>3, <1>4, <1>5
-----------------------------------------------------------------------------
\* Where the records are.
LEMMA RecordsInFile ==
    ASSUME FileState, NEW at, Layout(at)
    PROVE  /\ \A i \in 1..Len(saved) + 1 : at[i] \in Nat /\ at[i] <= Len(file)
           /\ \A i \in 1..Len(saved) :
                 /\ saved[i] \in SavedFrames /\ Len(Record(saved[i])) = 3 + saved[i].ch
                 /\ at[i + 1] = at[i] + 3 + saved[i].ch
<1>1. /\ at \in Seq(Nat) /\ Len(at) = Len(saved) + 1 /\ Len(saved) \in Nat
      /\ at[Len(saved) + 1] = Len(file) /\ Len(file) \in Nat
      /\ \A i, j \in 1..Len(saved) + 1 : i < j => at[i] < at[j]
      /\ \A i \in 1..Len(saved) : at[i + 1] = at[i] + Len(Record(saved[i]))
  BY DEF FileState, Layout
<1>2. ASSUME NEW i \in 1..Len(saved) + 1 PROVE at[i] \in Nat /\ at[i] <= Len(file)
  <2>1. at[i] \in Nat
    BY <1>1
  <2>2. CASE i = Len(saved) + 1
    BY <1>1, <2>1, <2>2
  <2>3. CASE i # Len(saved) + 1
    <3>1. i < Len(saved) + 1 /\ Len(saved) + 1 \in 1..Len(saved) + 1
      BY <1>1, <2>3
    <3>2. at[i] < at[Len(saved) + 1]
      BY <1>1, <3>1
    <3> QED
      BY <1>1, <2>1, <3>2
  <2> QED
    BY <2>2, <2>3
<1>3. ASSUME NEW i \in 1..Len(saved)
      PROVE  /\ saved[i] \in SavedFrames /\ Len(Record(saved[i])) = 3 + saved[i].ch
             /\ at[i + 1] = at[i] + 3 + saved[i].ch
  <2>1. saved[i] \in SavedFrames
    BY <1>3 DEF FileState
  <2>2. Len(Record(saved[i])) = 3 + saved[i].ch /\ saved[i].ch \in Nat
    BY <2>1, RecordUnits, FrameFields
  <2>3. i \in 1..Len(saved) + 1
    BY <1>1
  <2>4. at[i] \in Nat /\ at[i + 1] = at[i] + Len(Record(saved[i]))
    BY <1>1, <1>2, <2>3
  <2> QED
    BY <2>1, <2>2, <2>4
<1> QED
  BY <1>2, <1>3
-----------------------------------------------------------------------------
(***************************************************************************)
(* The recorder writes.                                                    *)
(***************************************************************************)
LEMMA SaveTitleKeeps == ASSUME IInv, SaveTitle PROVE IInv'
<1>1. /\ saver = "open" /\ file = <<>> /\ saved = <<>> /\ loaded = <<>> /\ ~titled /\ ~late
      /\ file' = Title
      /\ UNCHANGED <<saver, disk, saved, loaderVars, fault>>
  BY DEF SaveTitle, IInv, FileState, LoaderState
<1>2. Title \in Seq(Units) /\ Len(Title) = 3 /\ Title # <<>>
  BY DEF Title, Units
<1>3. FileState'
  BY <1>1, <1>2 DEF IInv, FileState
<1>4. LoaderState'
  BY <1>1, <1>2 DEF IInv, LoaderState, loaderVars
<1>5. Layout(<<3>>)'
  <2>1. /\ <<3>> \in Seq(Nat) /\ Len(<<3>>) = 1 /\ <<3>>[1] = 3
        /\ Len(saved') = 0
    BY <1>1
  <2> QED
    BY <1>1, <1>2, <2>1 DEF Layout
<1>6. Position(<<3>>)'
  <2>1. Len(loaded') = 0 /\ Len(saved') = 0 /\ ~titled'
    BY <1>1 DEF loaderVars
  <2> QED
    BY <2>1 DEF Position, Complete
<1>7. FramesRight'
  <2>1. Len(loaded') = 0
    BY <1>1 DEF loaderVars
  <2> QED
    BY <2>1 DEF FramesRight
<1>8. file' # <<>>
  BY <1>1, <1>2
<1> QED
  BY <1>3, <1>4, <1>5, <1>6, <1>7, <1>8 DEF IInv

\* A frame that is saved appends its record.
LEMMA SaveKeeps == ASSUME IInv, NEW shape \in Shapes, Save(shape) PROVE IInv'
<1> DEFINE f == Frame(shape, Len(saved))
           n == Len(saved)
           r == Record(f)
<1>1. /\ saver = "open" /\ file # <<>> /\ n < MaxFrames
      /\ file' = file \o r /\ saved' = Append(saved, f)
      /\ UNCHANGED <<saver, disk, loaderVars, fault>>
  BY DEF Save
<1>2. /\ file \in Seq(Units) /\ saved \in Seq(SavedFrames) /\ n \in Nat
      /\ loaded \in Seq(LoadedFrames) /\ ~late
      /\ Len(loaded) \in Nat /\ Len(file) \in Nat
  BY <1>1 DEF IInv, FileState, LoaderState
<1>3. f \in SavedFrames /\ r \in Seq(Units) /\ Len(r) = 3 + f.ch /\ f.ch \in Nat
  <2>1. f \in SavedFrames
    BY <1>2 DEF SavedFrames
  <2> QED
    BY <2>1, FrameFields, RecordUnits
<1> HIDE DEF f, n, r
<1>4. /\ saved' \in Seq(SavedFrames) /\ Len(saved') = n + 1 /\ saved'[n + 1] = f
      /\ \A i \in 1..n : saved'[i] = saved[i]
  BY <1>1, <1>2, <1>3 DEF n
<1>5. file' \in Seq(Units) /\ Len(file') = Len(file) + Len(r)
  BY <1>1, <1>2, <1>3, ConcatProperties
<1>6. \A k \in 1..Len(file) + Len(r) :
         file'[k] = IF k <= Len(file) THEN file[k] ELSE r[k - Len(file)]
  BY <1>1, <1>2, <1>3, ConcatProperties
<1>7. /\ Len(file') # 0 /\ file' # <<>> /\ Len(r) \in Nat
      /\ Len(file) < Len(file') /\ Len(file') \in Nat
  BY <1>2, <1>3, <1>5
<1>8. FileState'
  BY <1>1, <1>2, <1>3, <1>4, <1>5, <1>7, BoundsAssumption DEF IInv, FileState
<1>9. LoaderState'
  BY <1>1, <1>7 DEF IInv, LoaderState, loaderVars
<1>10. ~Complete /\ ~Complete'
  BY <1>1, <1>2 DEF Complete, loaderVars
<1>11. PICK at : Layout(at) /\ Position(at)
  BY <1>1 DEF IInv
<1>12. /\ at \in Seq(Nat) /\ Len(at) = n + 1
       /\ at[1] = 3 /\ at[n + 1] = Len(file)
       /\ \A i, j \in 1..n + 1 : i < j => at[i] < at[j]
       /\ \A i \in 1..n + 1 : at[i] \in Nat /\ at[i] <= Len(file)
       /\ \A i \in 1..n :
             /\ saved[i] \in SavedFrames
             /\ Len(Record(saved[i])) \in Nat
             /\ at[i + 1] = at[i] + Len(Record(saved[i]))
             /\ \A k \in 1..Len(Record(saved[i])) :
                   file[at[i] + k] = Record(saved[i])[k]
  <2>1. \A g \in SavedFrames : Len(Record(g)) \in Nat
    BY RecordUnits, FrameFields
  <2> QED
    BY <1>11, <2>1, RecordsInFile DEF IInv, Layout, n
<1>13. Len(loaded) <= n /\ (titled /\ ~eof => cursor = at[Len(loaded) + 1])
  BY <1>11 DEF Position, n
<1>14. PICK next \in Seq(Nat) :
         /\ Len(next) = n + 2
         /\ next[n + 2] = Len(file') /\ next[n + 1] = Len(file)
         /\ \A i \in 1..n + 1 : next[i] = at[i]
  <2>1. Len(file') \in Nat /\ n \in Nat
    BY <1>2, <1>3, <1>5 DEF n
  <2>2. /\ Append(at, Len(file')) \in Seq(Nat)
        /\ Len(Append(at, Len(file'))) = n + 2
        /\ Append(at, Len(file'))[n + 2] = Len(file')
        /\ \A i \in 1..n + 1 : Append(at, Len(file'))[i] = at[i]
    BY <1>12, <2>1
  <2>3. Append(at, Len(file'))[n + 1] = Len(file)
    BY <1>12, <2>1, <2>2
  <2> QED
    BY <2>2, <2>3
<1>15. Layout(next)'
  <2>1. next \in Seq(Nat) /\ Len(next) = Len(saved') + 1
    BY <1>2, <1>4, <1>14
  <2>2. next[1] = 3 /\ next[Len(saved') + 1] = Len(file')
    BY <1>2, <1>4, <1>12, <1>14
  <2>3. ASSUME NEW i \in 1..Len(saved') + 1, NEW j \in 1..Len(saved') + 1, i < j
        PROVE  next[i] < next[j]
    <3>1. n \in Nat /\ i \in 1..n + 1 /\ j \in 1..n + 2
      BY <1>2, <1>4, <2>3
    <3>2. next[i] = at[i] /\ at[i] \in Nat /\ at[i] <= Len(file)
      BY <1>12, <1>14, <3>1
    <3>3. CASE j = n + 2
      BY <1>7, <1>14, <3>2, <3>3
    <3>4. CASE j \in 1..n + 1
      BY <1>12, <1>14, <2>3, <3>1, <3>2, <3>4
    <3> QED
      BY <3>1, <3>3, <3>4
  <2>4. ASSUME NEW i \in 1..n
        PROVE  /\ saved'[i] = saved[i]
               /\ next[i + 1] = next[i] + Len(Record(saved[i]))
               /\ \A k \in 1..Len(Record(saved[i])) :
                     file'[next[i] + k] = Record(saved[i])[k]
    <3>1. n \in Nat /\ i \in 1..n + 1 /\ i + 1 \in 1..n + 1
      BY <1>2
    <3>2. /\ next[i] = at[i] /\ next[i + 1] = at[i + 1]
          /\ at[i] \in Nat /\ at[i + 1] <= Len(file)
          /\ at[i + 1] = at[i] + Len(Record(saved[i]))
          /\ Len(Record(saved[i])) \in Nat
      BY <1>12, <1>14, <3>1
    <3>3. ASSUME NEW k \in 1..Len(Record(saved[i])) PROVE file'[at[i] + k] = file[at[i] + k]
      <4>1. at[i] + k \in 1..Len(file)
        <5>1. /\ k \in Nat /\ k >= 1 /\ k <= Len(Record(saved[i]))
              /\ at[i] \in Nat /\ Len(file) \in Nat
              /\ at[i] + Len(Record(saved[i])) <= Len(file)
          BY <3>2, <1>2
        <5> QED
          BY <5>1
      <4>2. at[i] + k \in 1..Len(file) + Len(r) /\ at[i] + k <= Len(file)
        BY <1>2, <1>7, <4>1
      <4> QED
        BY <1>6, <4>2
    <3> QED
      BY <1>4, <1>12, <3>2, <3>3
  <2>5. /\ saved'[n + 1] = f
        /\ next[(n + 1) + 1] = next[n + 1] + Len(Record(f))
        /\ \A k \in 1..Len(Record(f)) : file'[next[n + 1] + k] = Record(f)[k]
    <3>1. next[(n + 1) + 1] = next[n + 1] + Len(r)
      BY <1>2, <1>3, <1>5, <1>14
    <3>2. ASSUME NEW k \in 1..Len(r) PROVE file'[Len(file) + k] = r[k]
      <4>1. /\ Len(file) + k \in 1..Len(file) + Len(r) /\ ~(Len(file) + k <= Len(file))
            /\ (Len(file) + k) - Len(file) = k
        BY <1>2, <1>7
      <4> QED
        BY <1>6, <4>1
    <3> QED
      BY <1>4, <1>14, <3>1, <3>2 DEF r
  <2>6. \A i \in 1..Len(saved') : i \in 1..n \/ i = n + 1
    BY <1>2, <1>4
  <2>7. \A i \in 1..Len(saved') :
          /\ next[i + 1] = next[i] + Len(Record(saved'[i]))
          /\ \A k \in 1..Len(Record(saved'[i])) :
                file'[next[i] + k] = Record(saved'[i])[k]
    <3> SUFFICES ASSUME NEW i \in 1..Len(saved')
                 PROVE  /\ next[i + 1] = next[i] + Len(Record(saved'[i]))
                        /\ \A k \in 1..Len(Record(saved'[i])) :
                              file'[next[i] + k] = Record(saved'[i])[k]
      OBVIOUS
    <3>1. CASE i \in 1..n
      BY <2>4, <3>1
    <3>2. CASE i = n + 1
      BY <2>5, <3>2
    <3> QED
      BY <2>6, <3>1, <3>2
  <2> QED
    BY <2>1, <2>2, <2>3, <2>7 DEF Layout
<1>16. Position(next)'
  <2>1. Len(loaded) + 1 \in 1..n + 1 /\ Len(loaded) <= Len(saved')
    BY <1>2, <1>4, <1>13 DEF n
  <2>2. next[Len(loaded) + 1] = at[Len(loaded) + 1]
    BY <1>14, <2>1
  <2>3. UNCHANGED <<titled, eof, cursor, loaded>>
    BY <1>1 DEF loaderVars
  <2> QED
    BY <1>10, <1>13, <2>1, <2>2, <2>3 DEF Position
<1>17. ASSUME FullFrames PROVE FramesRight'
  <2>1. \A i \in 1..Len(loaded) : saved'[i] = saved[i]
    BY <1>2, <1>4, <1>13 DEF n
  <2> QED
    BY <1>1, <1>10, <1>17, <2>1 DEF IInv, FramesRight, loaderVars
<1> QED
  BY <1>7, <1>8, <1>9, <1>15, <1>16, <1>17 DEF IInv
-----------------------------------------------------------------------------
(***************************************************************************)
(* The loader reads.                                                       *)
(***************************************************************************)
LEMMA LoaderOpenKeeps == ASSUME IInv, LoaderOpen PROVE IInv'
<1>1. /\ loader' \in Pointers /\ loaderPost' = loaderPost
      /\ ~titled' /\ cursor' = 0 /\ ~eof' /\ loaded' = <<>> /\ ~ended'
      /\ late' = (saver = "stale")
      /\ UNCHANGED <<saver, file, disk, saved, fault>>
  BY DEF LoaderOpen, saverVars, Pointers
<1>2. FileState'
  BY <1>1 DEF IInv, FileState
<1>3. LoaderState'
  <2>1. loaded' \in Seq(LoadedFrames)
    BY <1>1
  <2>2. titled' \in BOOLEAN /\ eof' \in BOOLEAN /\ late' \in BOOLEAN /\ ended' \in BOOLEAN
    BY DEF LoaderOpen
  <2> QED
    BY <1>1, <2>1, <2>2 DEF IInv, FileState, LoaderState
<1>4. ASSUME NEW at, Layout(at) PROVE Layout(at)' /\ Position(at)'
  <2>1. Len(loaded') = 0 /\ Len(saved) \in Nat
    BY <1>1 DEF IInv, FileState
  <2> QED
    BY <1>1, <1>4, <2>1 DEF Layout, Position, Complete
<1>5. FramesRight'
  <2>1. Len(loaded') = 0
    BY <1>1
  <2> QED
    BY <2>1 DEF FramesRight
<1> QED
  BY <1>1, <1>2, <1>3, <1>4, <1>5 DEF IInv

\* A closed recording that fits on the disk is there as a whole.
LEMMA WholeOnDisk ==
    ASSUME FileState, LoaderState, Complete
    PROVE  disk = Len(file)
BY BoundsAssumption DEF FileState, LoaderState, Complete, Least

LEMMA ReadTitleKeeps == ASSUME IInv, ReadTitle PROVE IInv'
<1>1. CASE disk < 2 \/ Mismatch
  <2>1. loader' = "stale" /\ UNCHANGED <<saverVars, loaderPost, titled, cursor, eof,
                                         loaded, late, ended, fault>>
    BY <1>1 DEF ReadTitle
  <2>2. FileState'
    BY <2>1 DEF IInv, FileState, saverVars
  <2> QED
    BY <2>1, <2>2, QuietKeeps DEF IInv, FileState, Pointers, saverVars
<1>2. CASE ~(disk < 2 \/ Mismatch)
  <2>1. /\ titled' = TRUE /\ cursor' = Least(disk, 3) /\ eof' = (disk < 3)
        /\ UNCHANGED <<saver, file, disk, saved, loader, loaderPost, loaded, late, ended, fault>>
    BY <1>2 DEF ReadTitle, Title, saverVars
  <2>2. disk \in Nat /\ disk >= 2 /\ disk <= Len(file) /\ Len(file) \in Nat
    BY <1>2 DEF IInv, FileState
  <2>3. file # <<>>
    BY <2>2
  <2>4. ~titled /\ loaded = <<>> /\ ~ended
    BY DEF ReadTitle, IInv, LoaderState
  <2>5. FileState'
    BY <2>1 DEF IInv, FileState
  <2>6. cursor' \in Nat /\ cursor' <= disk /\ cursor' >= 2
    BY <2>1, <2>2 DEF Least
  <2>7. LoaderState'
    BY <2>1, <2>3, <2>4, <2>6 DEF IInv, LoaderState
  <2>8. ASSUME NEW at, Layout(at) PROVE Layout(at)' /\ Position(at)'
    <3>1. Layout(at)'
      BY <2>1, <2>8 DEF Layout
    <3>2. Len(loaded') = 0 /\ Len(saved') \in Nat
      BY <2>1, <2>4 DEF IInv, FileState
    <3>3. at[1] = 3 /\ 3 <= Len(file)
      <4>1. at[1] <= Len(file)
        BY <2>8, <3>2, <2>1, RecordsInFile DEF IInv
      <4> QED
        BY <2>8, <4>1 DEF Layout
    <3>4. ~eof' => cursor' = at[1]
      <4>1. disk >= 3 => Least(disk, 3) = 3
        BY <2>2 DEF Least
      <4>2. disk < 3 => eof'
        BY <2>1
      <4> QED
        BY <2>1, <2>2, <3>3, <4>1, <4>2
    <3>5. Complete' => ~eof'
      <4>1. Complete' => disk' = Len(file')
        BY <2>5, <2>7, BoundsAssumption DEF FileState, LoaderState, Complete, Least
      <4>2. ~(disk < 3) => ~eof'
        BY <2>1
      <4>3. Complete' => ~(disk < 3)
        BY <2>1, <2>2, <3>3, <4>1
      <4> QED
        BY <4>2, <4>3
    <3> QED
      BY <3>1, <3>2, <3>4, <3>5 DEF Position
  <2>9. FramesRight'
    <3>1. Len(loaded') = 0
      BY <2>1, <2>4
    <3> QED
      BY <3>1 DEF FramesRight
  <2> QED
    BY <2>1, <2>3, <2>4, <2>5, <2>7, <2>8, <2>9 DEF IInv
<1> QED
  BY <1>1, <1>2

LEMMA LoadEndKeeps == ASSUME IInv, LoadEnd PROVE IInv'
<1>1. /\ titled /\ eof' = TRUE /\ ended' = TRUE /\ (eof \/ cursor >= disk)
      /\ UNCHANGED <<saver, file, disk, saved, loader, loaderPost, titled, cursor,
                     loaded, late, fault>>
  BY DEF LoadEnd, saverVars
<1>2. FileState'
  BY <1>1 DEF IInv, FileState
<1>3. LoaderState'
  BY <1>1 DEF IInv, LoaderState
<1>4. Complete' <=> Complete
  BY <1>1 DEF Complete
<1>5. ASSUME NEW at, Layout(at) /\ Position(at) PROVE Layout(at)' /\ Position(at)'
  <2>1. Layout(at)'
    BY <1>1, <1>5 DEF Layout
  <2>2. Complete => cursor = disk
    <3>1. cursor >= disk => cursor = disk
      BY DEF IInv, FileState, LoaderState
    <3> QED
      BY <1>1, <1>5, <3>1 DEF Position
  <2> QED
    BY <1>1, <1>4, <1>5, <2>1, <2>2 DEF Position
<1>6. FullFrames => FramesRight'
  BY <1>1, <1>4 DEF IInv, FramesRight
<1> QED
  BY <1>1, <1>2, <1>3, <1>5, <1>6 DEF IInv

\* While load() has not met the end of the file, its cursor is before a record.
LEMMA RecordAhead ==
    ASSUME FileState, LoaderState, titled, ~eof, cursor < disk,
           NEW at, Layout(at), Position(at),
           NEW i, i = Len(loaded) + 1
    PROVE  /\ i \in 1..Len(saved) /\ saved[i] \in SavedFrames
           /\ cursor = at[i] /\ at[i + 1] = cursor + 3 + saved[i].ch
           /\ at[i + 1] <= Len(file)
           /\ \A k \in 1..3 + saved[i].ch : file[cursor + k] = Record(saved[i])[k]
<1>1. /\ Len(loaded) \in Nat /\ Len(saved) \in Nat /\ Len(loaded) <= Len(saved)
      /\ cursor = at[i] /\ at[Len(saved) + 1] = Len(file)
      /\ disk \in Nat /\ disk <= Len(file) /\ cursor \in Nat /\ Len(file) \in Nat
  BY DEF FileState, LoaderState, Layout, Position
<1>2. i # Len(saved) + 1
  BY <1>1
<1>3. i \in 1..Len(saved) /\ i + 1 \in 1..Len(saved) + 1
  BY <1>1, <1>2
<1>4. /\ saved[i] \in SavedFrames /\ Len(Record(saved[i])) = 3 + saved[i].ch
      /\ at[i + 1] = at[i] + 3 + saved[i].ch /\ at[i + 1] <= Len(file)
  BY <1>3, RecordsInFile
<1>5. \A k \in 1..Len(Record(saved[i])) : file[at[i] + k] = Record(saved[i])[k]
  BY <1>3 DEF Layout
<1> QED
  BY <1>1, <1>3, <1>4, <1>5

LEMMA LoadedFields ==
    ASSUME NEW ch \in Nat, NEW got \in Nat
    PROVE  /\ LoadedFrame(ch, got).ch = ch
           /\ LoadedFrame(ch, got).len = IF 2 <= got THEN file[cursor + 2] ELSE Garbage
           /\ LoadedFrame(ch, got).post = loaderPost
           /\ LoadedFrame(ch, got).meta = IF 3 <= got THEN file[cursor + 3] ELSE Garbage
           /\ LoadedFrame(ch, got).rows =
                [c \in 1..ch |-> IF 3 + c <= got THEN file[cursor + (3 + c)] ELSE NoRow]
           /\ LoadedFrame(ch, got) =
                [ch |-> ch, len |-> LoadedFrame(ch, got).len, post |-> loaderPost,
                 meta |-> LoadedFrame(ch, got).meta, rows |-> LoadedFrame(ch, got).rows]
BY DEF LoadedFrame

\* One call of load(): it consumes a record, or what there is of one.
LEMMA LoadStep ==
    ASSUME IInv, Load,
           NEW at, Layout(at), Position(at), NEW i, i = Len(loaded) + 1,
           NEW f, f = saved[i], NEW got, got = Delivered(f.ch)
    PROVE  /\ i \in 1..Len(saved) /\ f \in SavedFrames /\ f.ch \in Nat
           /\ at[i + 1] = cursor + 3 + f.ch /\ at[i + 1] <= Len(file)
           /\ got \in 1..3 + f.ch /\ cursor + got <= disk
           /\ got < 3 + f.ch => cursor + got = disk
           /\ \A k \in 1..3 + f.ch : file[cursor + k] = Record(f)[k]
           /\ loaded' = Append(loaded, LoadedFrame(f.ch, got))
           /\ cursor' = cursor + got /\ eof' \in BOOLEAN /\ (eof' <=> got < 3 + f.ch)
<1>1. FileState /\ LoaderState /\ titled /\ ~eof /\ cursor < disk
  BY DEF IInv, Load
<1>2. /\ i \in 1..Len(saved) /\ f \in SavedFrames
      /\ at[i + 1] = cursor + 3 + f.ch /\ at[i + 1] <= Len(file)
      /\ \A k \in 1..3 + f.ch : file[cursor + k] = Record(f)[k]
  BY <1>1, RecordAhead
<1>3. f.ch \in Nat /\ Record(f)[1] = f.ch
  BY <1>2, FrameFields, RecordUnits
<1>4. file[cursor + 1] = f.ch
  BY <1>2, <1>3
<1>5. /\ loaded' = Append(loaded, LoadedFrame(f.ch, got))
      /\ cursor' = cursor + got /\ eof' = (got < 3 + f.ch)
  BY <1>4 DEF Load, AfterRead
<1>6. cursor \in Nat /\ disk \in Nat
  BY <1>1 DEF FileState, LoaderState
<1>7. /\ got \in 1..3 + f.ch /\ cursor + got <= disk
      /\ got < 3 + f.ch => cursor + got = disk
  BY <1>1, <1>3, <1>6 DEF Delivered, Least
<1>8. eof' \in BOOLEAN /\ (eof' <=> got < 3 + f.ch)
  <2>1. CASE got < 3 + f.ch
    BY <1>5, <2>1
  <2>2. CASE ~(got < 3 + f.ch)
    <3>1. (got < 3 + f.ch) = FALSE
      BY <2>2
    <3>2. eof' = FALSE
      BY <1>5, <3>1, Zenon
    <3> QED
      BY <2>2, <3>2
  <2> QED
    BY <2>1, <2>2
<1> QED
  BY <1>2, <1>3, <1>5, <1>7, <1>8

\* What load() returns is made of units of the file.
LEMMA LoadedFrameType ==
    ASSUME LoaderState, NEW f \in SavedFrames, NEW got \in 1..3 + f.ch,
           \A k \in 1..3 + f.ch : file[cursor + k] = Record(f)[k]
    PROVE  LoadedFrame(f.ch, got) \in LoadedFrames
<1>0. PICK g : g = LoadedFrame(f.ch, got)
  OBVIOUS
<1>1. f.ch \in Nat /\ got \in Nat
  BY FrameFields
<1>2. /\ Len(Record(f)) = 3 + f.ch
      /\ \A k \in 1..3 + f.ch : Record(f)[k] \in Units
  BY <1>1, RecordUnits
<1>3. \A k \in 1..3 + f.ch : file[cursor + k] \in Units
  BY <1>2
<1>4. NoRow \in Units
  BY DEF NoRow, Units, Rows
<1>5. g.len \in Units \cup {Garbage} /\ g.meta \in Units \cup {Garbage}
  <2>1. /\ g.len = IF 2 <= got THEN file[cursor + 2] ELSE Garbage
        /\ g.meta = IF 3 <= got THEN file[cursor + 3] ELSE Garbage
    BY <1>0, <1>1, LoadedFields
  <2>2. 2 \in 1..3 + f.ch /\ 3 \in 1..3 + f.ch
    BY <1>1
  <2> QED
    BY <1>3, <2>1, <2>2
<1>6. g.rows \in Seq(Units)
  <2>1. ASSUME NEW c \in 1..f.ch
        PROVE  (IF 3 + c <= got THEN file[cursor + (3 + c)] ELSE NoRow) \in Units
    <3>1. 3 + c \in 1..3 + f.ch
      BY <1>1
    <3> QED
      BY <1>3, <1>4, <3>1
  <2>2. g.rows = [c \in 1..f.ch |-> IF 3 + c <= got THEN file[cursor + (3 + c)] ELSE NoRow]
    BY <1>0, <1>1, LoadedFields
  <2>3. g.rows \in [1..f.ch -> Units]
    BY <2>1, <2>2
  <2> QED
    BY <1>1, <2>3
<1>7. /\ g = [ch |-> f.ch, len |-> g.len, post |-> loaderPost, meta |-> g.meta,
              rows |-> g.rows]
  BY <1>0, <1>1, LoadedFields
<1>8. loaderPost \in LoaderPosts
  BY DEF LoaderState
<1>9. g \in LoadedFrames
  BY <1>1, <1>5, <1>6, <1>7, <1>8 DEF LoadedFrames
<1> QED
  BY <1>0, <1>9

\* A whole record of a full frame is read back as the frame.
LEMMA WholeSame ==
    ASSUME FullFrames, NEW f \in SavedFrames,
           \A k \in 1..3 + f.ch : file[cursor + k] = Record(f)[k]
    PROVE  Same(LoadedFrame(f.ch, 3 + f.ch), f)
<1>0. PICK g : g = LoadedFrame(f.ch, 3 + f.ch)
  OBVIOUS
<1>1. /\ f.ch \in Nat /\ WrittenLength(f) = f.len
      /\ \A c \in 1..f.ch : WrittenRow(f, c) = f.rows[c]
  BY FrameFields, FullRecord
<1>1a. 3 + f.ch \in Nat
  BY <1>1
<1>2. /\ file[cursor + 2] = f.len /\ file[cursor + 3] = f.meta
      /\ \A c \in 1..f.ch : file[cursor + (3 + c)] = f.rows[c]
  <2>1. 2 \in 1..3 + f.ch /\ 3 \in 1..3 + f.ch /\ \A c \in 1..f.ch : 3 + c \in 1..3 + f.ch
    BY <1>1
  <2> QED
    BY <1>1, <2>1, RecordUnits
<1>3. g.ch = f.ch /\ g.len = f.len /\ g.meta = f.meta
  <2>1. /\ g.ch = f.ch
        /\ g.len = IF 2 <= 3 + f.ch THEN file[cursor + 2] ELSE Garbage
        /\ g.meta = IF 3 <= 3 + f.ch THEN file[cursor + 3] ELSE Garbage
    BY <1>0, <1>1, <1>1a, LoadedFields
  <2> QED
    BY <1>1, <1>2, <2>1
<1>4. g.rows = f.rows
  <2>1. f.rows = [c \in 1..f.ch |-> f.rows[c]]
    <3>1. PICK shape \in Shapes, s \in Nat : f = Frame(shape, s)
      BY DEF SavedFrames
    <3>2. /\ f.ch = shape.ch
          /\ f.rows = [c \in 1..shape.ch |-> Row(s, c, shape.len, 0)]
      BY <3>1 DEF Frame
    <3> QED
      BY <3>2
  <2>2. \A c \in 1..f.ch : 3 + c <= 3 + f.ch
    BY <1>1
  <2>3. g.rows = [c \in 1..f.ch |-> IF 3 + c <= 3 + f.ch THEN file[cursor + (3 + c)]
                                     ELSE NoRow]
    BY <1>0, <1>1, <1>1a, LoadedFields
  <2>4. g.rows = [c \in 1..f.ch |-> f.rows[c]]
    BY <1>2, <2>2, <2>3
  <2> QED
    BY <2>1, <2>4
<1> QED
  BY <1>0, <1>3, <1>4 DEF Same

LEMMA LoadKeeps == ASSUME IInv, Load PROVE IInv'
<1>1. FileState /\ LoaderState /\ titled /\ ~eof /\ file # <<>> /\ (FullFrames => FramesRight)
  BY DEF IInv, Load, LoaderState
<1>2. UNCHANGED <<saver, file, disk, saved, loader, loaderPost, titled, late, ended, fault>>
  BY DEF Load, saverVars
<1>3. PICK at : Layout(at) /\ Position(at)
  BY <1>1 DEF IInv
<1>4. PICK i : i = Len(loaded) + 1
  OBVIOUS
<1>5. PICK f : f = saved[i]
  OBVIOUS
<1>6. PICK got : got = Delivered(f.ch)
  OBVIOUS
<1>7. /\ i \in 1..Len(saved) /\ f \in SavedFrames /\ f.ch \in Nat
      /\ at[i + 1] = cursor + 3 + f.ch /\ at[i + 1] <= Len(file)
      /\ got \in 1..3 + f.ch /\ cursor + got <= disk
      /\ got < 3 + f.ch => cursor + got = disk
      /\ \A k \in 1..3 + f.ch : file[cursor + k] = Record(f)[k]
      /\ loaded' = Append(loaded, LoadedFrame(f.ch, got))
      /\ cursor' = cursor + got /\ eof' \in BOOLEAN /\ (eof' <=> got < 3 + f.ch)
  BY <1>3, <1>4, <1>5, <1>6, LoadStep
<1>8. LoadedFrame(f.ch, got) \in LoadedFrames
  BY <1>1, <1>7, LoadedFrameType
<1>9. /\ loaded \in Seq(LoadedFrames) /\ loaded' \in Seq(LoadedFrames)
      /\ Len(loaded) \in Nat /\ Len(loaded') = i /\ loaded'[i] = LoadedFrame(f.ch, got)
      /\ \A j \in 1..Len(loaded) : loaded'[j] = loaded[j]
  BY <1>1, <1>4, <1>7, <1>8 DEF LoaderState
<1>10. FileState'
  BY <1>1, <1>2 DEF FileState
<1>11. LoaderState'
  <2>1. cursor' \in Nat /\ cursor' <= disk /\ cursor' >= 2
    BY <1>1, <1>7 DEF LoaderState
  <2>2. ~ended
    BY <1>1 DEF LoaderState
  <2> QED
    BY <1>1, <1>2, <1>7, <1>9, <2>1, <2>2 DEF LoaderState
<1>12. Complete' <=> Complete
  BY <1>2 DEF Complete
<1>13. Complete => got = 3 + f.ch
  <2>1. Complete => disk = Len(file)
    BY <1>1, WholeOnDisk
  <2>2. disk \in Nat /\ Len(file) \in Nat /\ cursor \in Nat
    BY <1>1 DEF FileState, LoaderState
  <2> QED
    BY <1>7, <2>1, <2>2
<1>14. Layout(at)'
  BY <1>2, <1>3 DEF Layout
<1>15. Position(at)'
  <2>1. got = 3 + f.ch => cursor' = at[Len(loaded') + 1]
    <3>1. cursor \in Nat
      BY <1>1 DEF LoaderState
    <3>2. at[Len(loaded') + 1] = at[i + 1]
      BY <1>9
    <3>3. f.ch \in Nat
      BY <1>7
    <3>4. got = 3 + f.ch => cursor + got = cursor + 3 + f.ch
      BY <3>1, <3>3
    <3> QED
      BY <1>7, <3>2, <3>4
  <2>2. ~eof' => got = 3 + f.ch
    BY <1>7
  <2>3. Complete => ~eof'
    BY <1>7, <1>13
  <2>4. Len(loaded') <= Len(saved')
    BY <1>2, <1>7, <1>9
  <2> QED
    BY <1>12, <1>13, <2>1, <2>2, <2>3, <2>4 DEF Position
<1>16. ASSUME FullFrames PROVE FramesRight'
  <2>1. ASSUME NEW j \in 1..Len(loaded) PROVE Same(loaded'[j], saved'[j])
    <3>1. loaded'[j] = loaded[j] /\ saved'[j] = saved[j]
      BY <1>2, <1>9
    <3>2. Same(loaded[j], saved[j])
      BY <1>1, <1>16 DEF FramesRight
    <3> QED
      BY <3>1, <3>2
  <2>2. got = 3 + f.ch => Same(loaded'[i], saved'[i])
    BY <1>2, <1>5, <1>7, <1>9, <1>16, WholeSame
  <2>3. got # 3 + f.ch => eof' /\ ~Complete'
    BY <1>7, <1>12, <1>13
  <2>4. \A j \in 1..Len(loaded') : j \in 1..Len(loaded) \/ j = i
    BY <1>4, <1>9
  <2> QED
    BY <1>9, <2>1, <2>2, <2>3, <2>4 DEF FramesRight
<1> QED
  BY <1>1, <1>2, <1>10, <1>11, <1>14, <1>15, <1>16 DEF IInv
-----------------------------------------------------------------------------
(***************************************************************************)
(* The theorems.                                                           *)
(***************************************************************************)
LEMMA NextKeeps == IInv /\ [Next]_vars => IInv'
<1> SUFFICES ASSUME IInv, [Next]_vars PROVE IInv'
  OBVIOUS
<1>1. CASE UNCHANGED vars
  <2>1. /\ UNCHANGED <<saver, file, disk, saved, loader, loaderPost, titled, cursor, eof,
                       loaded, late, ended, fault>>
    BY <1>1 DEF vars, saverVars, loaderVars
  <2>2. FileState' /\ disk <= disk' /\ loader' \in Pointers
    BY <2>1 DEF IInv, FileState, LoaderState
  <2> QED
    BY <2>1, <2>2, QuietKeeps
<1> QED
  BY <1>1, StdioKeeps, SaveTitleKeeps, SaveKeeps, LoaderOpenKeeps, ReadTitleKeeps,
     LoadEndKeeps, LoadKeeps DEF Next

\* In every state the records lie in the file as Layout says, and the loader's
\* cursor is where the next one begins, whatever the crash, the full disk or the
\* late flush of stdio (specframesaver.cpp:34-65, specframeloader.cpp:54-105).
THEOREM Invariance == Spec => []IInv
<1> QED
  BY InitIInv, NextKeeps, PTL DEF Spec

\* The recorder and the loader are well typed, and the loader is never past
\* what is on the disk, for any shapes of frames, posts and room on the disk.
THEOREM TypeCorrect == Spec => []TypeOK
<1>1. IInv => TypeOK
  <2> SUFFICES ASSUME IInv PROVE TypeOK
    OBVIOUS
  <2>1. /\ disk \in Nat /\ disk <= Len(file) /\ disk <= Capacity
        /\ cursor \in Nat /\ cursor <= disk
    BY DEF IInv, FileState, LoaderState
  <2>2. disk \in 0..Least(Len(file), Capacity) /\ cursor \in 0..disk
    <3>1. Len(file) \in Nat /\ Capacity \in Nat
      BY BoundsAssumption DEF IInv, FileState
    <3> QED
      BY <2>1, <3>1 DEF Least
  <2> QED
    BY <2>2 DEF IInv, FileState, LoaderState, TypeOK
<1> QED
  BY <1>1, Invariance, PTL

\* When the frames are whole spectra, the loader returns the recorded frames in
\* order; only the one before the end of the file can lack something, and then
\* feof is set (specframeloader.h:11, specframeloader.cpp:68-105).
THEOREM TornLast ==
    ASSUME FullFrames
    PROVE  Spec => []TornOnlyLast
<1>1. IInv => TornOnlyLast
  <2> SUFFICES ASSUME IInv, NEW i \in 1..Len(loaded)
               PROVE  /\ i <= Len(saved)
                      /\ Same(loaded[i], saved[i]) \/ (i = Len(loaded) /\ eof)
    BY DEF TornOnlyLast
  <2>1. loaded # <<>> /\ Len(loaded) \in Nat /\ Len(saved) \in Nat
    BY DEF IInv, FileState, LoaderState
  <2>2. file # <<>>
    BY <2>1 DEF IInv
  <2>3. PICK at : Layout(at) /\ Position(at)
    BY <2>2 DEF IInv
  <2>4. i <= Len(saved)
    BY <2>1, <2>3 DEF Position
  <2> QED
    BY <2>4 DEF IInv, FramesRight
<1> QED
  BY <1>1, Invariance, PTL

\* When the frames are whole spectra, a loader opened after close() of a
\* recording that fits on the disk has returned all of its frames, as they were
\* recorded, when load() returns false.
THEOREM CompleteRead ==
    ASSUME FullFrames
    PROVE  Spec => []CompleteRecordingRead
<1>1. IInv => CompleteRecordingRead
  <2> SUFFICES ASSUME IInv, late, ended, Len(file) <= Capacity
               PROVE  /\ Len(loaded) = Len(saved)
                      /\ \A i \in 1..Len(saved) : Same(loaded[i], saved[i])
    BY DEF CompleteRecordingRead
  <2>1. FileState /\ LoaderState /\ FramesRight
    BY DEF IInv
  <2>2. titled /\ eof /\ Complete /\ file # <<>>
    BY <2>1 DEF LoaderState, Complete
  <2>3. disk = Len(file)
    BY <2>1, <2>2, WholeOnDisk
  <2>4. PICK at : Layout(at) /\ Position(at)
    BY <2>2 DEF IInv
  <2>5. /\ at[Len(loaded) + 1] = Len(file) /\ at[Len(saved) + 1] = Len(file)
        /\ Len(loaded) <= Len(saved)
    BY <2>2, <2>3, <2>4 DEF Layout, Position
  <2>6. Len(loaded) \in Nat /\ Len(saved) \in Nat /\ Len(file) \in Nat
    BY <2>1 DEF FileState, LoaderState
  <2>7. Len(loaded) = Len(saved)
    <3>1. SUFFICES ASSUME Len(loaded) < Len(saved) PROVE FALSE
      BY <2>5, <2>6
    <3>2. Len(loaded) + 1 \in 1..Len(saved) + 1 /\ Len(saved) + 1 \in 1..Len(saved) + 1
      BY <2>6, <3>1
    <3>3. at[Len(loaded) + 1] < at[Len(saved) + 1]
      <4>1. \A i, j \in 1..Len(saved) + 1 : i < j => at[i] < at[j]
        BY <2>4 DEF Layout
      <4>2. Len(loaded) + 1 < Len(saved) + 1
        BY <2>6, <3>1
      <4> QED
        BY <3>2, <4>1, <4>2
    <3> QED
      BY <2>5, <2>6, <3>3
  <2> QED
    BY <2>1, <2>2, <2>7 DEF FramesRight
<1> QED
  BY <1>1, Invariance, PTL
-----------------------------------------------------------------------------
(***************************************************************************)
(* The loader is a stream of the recording.                                *)
(***************************************************************************)
LEMMA ImagesOf ==
    ASSUME NEW S, NEW s \in Seq(S)
    PROVE  /\ Images(s) \in Seq({Image(e) : e \in S}) /\ Len(Images(s)) = Len(s)
           /\ \A k \in 1..Len(s) : Images(s)[k] = Image(s[k])
<1>1. DOMAIN s = 1..Len(s) /\ Len(s) \in Nat /\ \A k \in 1..Len(s) : s[k] \in S
  OBVIOUS
<1>2. Images(s) = [k \in 1..Len(s) |-> Image(s[k])]
  BY <1>1 DEF Images
<1>3. Images(s) \in [1..Len(s) -> {Image(e) : e \in S}]
  BY <1>1, <1>2
<1> QED
  BY <1>1, <1>2, <1>3

LEMMA ImagesAppend ==
    ASSUME NEW S, NEW s \in Seq(S), NEW e \in S
    PROVE  Images(Append(s, e)) = Append(Images(s), Image(e))
<1>1. DOMAIN Append(s, e) = 1..Len(s) + 1 /\ DOMAIN s = 1..Len(s)
  OBVIOUS
<1> QED
  BY <1>1 DEF Images

\* Of a record that the file has in part the loader makes what remains of the
\* frame.
LEMMA PartRemains ==
    ASSUME FullFrames, NEW f \in SavedFrames, NEW got \in 1..3 + f.ch,
           \A k \in 1..3 + f.ch : file[cursor + k] = Record(f)[k]
    PROVE  Image(LoadedFrame(f.ch, got)) \in Remains(Image(f))
<1>1. PICK g : g = LoadedFrame(f.ch, got)
  OBVIOUS
<1>2. /\ f.ch \in Nat /\ WrittenLength(f) = f.len
      /\ \A c \in 1..f.ch : WrittenRow(f, c) = f.rows[c]
  BY FrameFields, FullRecord
<1>3. got \in Nat
  BY <1>2
<1>4. /\ file[cursor + 2] = f.len /\ file[cursor + 3] = f.meta
      /\ \A c \in 1..f.ch : file[cursor + (3 + c)] = f.rows[c]
  <2>1. 2 \in 1..3 + f.ch /\ 3 \in 1..3 + f.ch /\ \A c \in 1..f.ch : 3 + c \in 1..3 + f.ch
    BY <1>2
  <2> QED
    BY <1>2, <2>1, RecordUnits
<1>5. /\ g.ch = f.ch
      /\ g.len = IF 2 <= got THEN file[cursor + 2] ELSE Garbage
      /\ g.meta = IF 3 <= got THEN file[cursor + 3] ELSE Garbage
      /\ g.rows = [c \in 1..f.ch |-> IF 3 + c <= got THEN file[cursor + (3 + c)] ELSE NoRow]
  BY <1>1, <1>2, <1>3, LoadedFields
<1>6. g.len \in {f.len, Garbage} /\ g.meta \in {f.meta, Garbage}
  BY <1>4, <1>5
<1>7. PICK k \in 0..f.ch : \A c \in 1..f.ch : 3 + c <= got <=> c <= k
  <2>1. CASE got <= 3
    <3>1. 0 \in 0..f.ch /\ \A c \in 1..f.ch : 3 + c <= got <=> c <= 0
      BY <1>2, <1>3, <2>1
    <3> QED
      BY <3>1
  <2>2. CASE got > 3
    <3>1. got - 3 \in 0..f.ch /\ \A c \in 1..f.ch : 3 + c <= got <=> c <= got - 3
      BY <1>2, <1>3, <2>2
    <3> QED
      BY <3>1
  <2> QED
    BY <1>3, <2>1, <2>2
<1>8. g.rows = [c \in 1..f.ch |-> IF c <= k THEN f.rows[c] ELSE NoRow]
  BY <1>4, <1>5, <1>7
<1>9. Image(g) = [ch |-> f.ch, len |-> g.len, meta |-> g.meta,
                  rows |-> [c \in 1..f.ch |-> IF c <= k THEN f.rows[c] ELSE NoRow]]
  BY <1>5, <1>8 DEF Image
<1>10. Image(f).ch = f.ch /\ Image(f).len = f.len /\ Image(f).meta = f.meta
       /\ Image(f).rows = f.rows
  BY DEF Image
<1>11. Image(g) \in Remains(Image(f))
  <2>1. PICK h : h = Image(f)
    OBVIOUS
  <2>2. PICK rows \in {[c \in 1..h.ch |-> IF c <= j THEN h.rows[c] ELSE NoRow] : j \in 0..h.ch} :
           rows = [c \in 1..f.ch |-> IF c <= k THEN f.rows[c] ELSE NoRow]
    BY <1>10, <2>1
  <2>3. /\ Image(g) = [ch |-> h.ch, len |-> g.len, meta |-> g.meta, rows |-> rows]
        /\ g.len \in {h.len, Garbage} /\ g.meta \in {h.meta, Garbage}
    BY <1>6, <1>9, <1>10, <2>1, <2>2
  <2>4. Image(g) \in Remains(h)
    <3> DEFINE Cut == {[c \in 1..h.ch |-> IF c <= j THEN h.rows[c] ELSE NoRow] :
                         j \in 0..h.ch}
    <3>1. rows \in Cut
      BY <2>2
    <3>2. Remains(h) = {[ch |-> h.ch, len |-> l, meta |-> m, rows |-> r] :
                          l \in {h.len, Garbage}, m \in {h.meta, Garbage}, r \in Cut}
      BY DEF Remains
    <3> HIDE DEF Cut
    <3> QED
      BY <2>3, <3>1, <3>2
  <2> QED
    BY <2>1, <2>4
<1> QED
  BY <1>1, <1>11

LEMMA InitSimulation == Init => Stream!Init
<1>1. Images(<<>>) = <<>>
  BY DEF Images
<1> QED
  BY <1>1 DEF Init, Stream!Init

LEMMA SaveSimulation ==
    ASSUME IInv, NEW shape \in Shapes, Save(shape)
    PROVE  Stream!Next
<1>1. PICK f : f = Frame(shape, Len(saved))
  OBVIOUS
<1>2. /\ saved' = Append(saved, f) /\ Len(saved) < MaxFrames
      /\ UNCHANGED <<loaded, eof, ended>>
  BY <1>1 DEF Save, loaderVars
<1>3. saved \in Seq(SavedFrames) /\ Len(saved) \in Nat /\ f \in SavedFrames
  BY <1>1 DEF IInv, FileState, SavedFrames
<1>4. Images(saved') = Append(Images(saved), Image(f))
  BY <1>2, <1>3, ImagesAppend
<1>5. Len(saved) \in 0..MaxFrames
  BY <1>2, <1>3, BoundsAssumption
<1>6. Image(f) \in {Image(Frame(s, n)) : s \in Shapes, n \in 0..MaxFrames}
  BY <1>1, <1>5
<1>7. Images(saved)' = Append(Images(saved), Image(f)) /\ Images(loaded)' = Images(loaded)
      /\ (eof \/ ended)' = (eof \/ ended)
  BY <1>2, <1>4 DEF Images
<1>8. Stream!Record(Image(f))
  BY <1>7 DEF Stream!Record
<1> QED
  BY <1>6, <1>8 DEF Stream!Next

LEMMA LoadSimulation ==
    ASSUME FullFrames, IInv, Load
    PROVE  Stream!Next
<1>1. FileState /\ LoaderState /\ titled /\ ~eof /\ ~ended /\ file # <<>>
  BY DEF IInv, Load, LoaderState
<1>2. UNCHANGED <<saved, ended>>
  BY DEF Load, saverVars
<1>3. PICK at : Layout(at) /\ Position(at)
  BY <1>1 DEF IInv
<1>4. PICK i : i = Len(loaded) + 1
  OBVIOUS
<1>5. PICK f : f = saved[i]
  OBVIOUS
<1>6. PICK got : got = Delivered(f.ch)
  OBVIOUS
<1>7. /\ i \in 1..Len(saved) /\ f \in SavedFrames /\ f.ch \in Nat
      /\ got \in 1..3 + f.ch
      /\ \A k \in 1..3 + f.ch : file[cursor + k] = Record(f)[k]
      /\ loaded' = Append(loaded, LoadedFrame(f.ch, got))
      /\ eof' \in BOOLEAN /\ (eof' <=> got < 3 + f.ch)
  BY <1>3, <1>4, <1>5, <1>6, LoadStep
<1>8. PICK g : g = LoadedFrame(f.ch, got)
  OBVIOUS
<1>9. g \in LoadedFrames
  BY <1>1, <1>7, <1>8, LoadedFrameType
<1>10. loaded \in Seq(LoadedFrames) /\ saved \in Seq(SavedFrames)
       /\ Len(loaded) \in Nat /\ Len(saved) \in Nat
  BY <1>1 DEF FileState, LoaderState
<1>11. Images(loaded)' = Append(Images(loaded), Image(g)) /\ Images(saved)' = Images(saved)
  <2>1. Images(loaded') = Append(Images(loaded), Image(g))
    BY <1>7, <1>8, <1>9, <1>10, ImagesAppend
  <2> QED
    BY <1>2, <2>1 DEF Images
<1>12. /\ Len(Images(loaded)) < Len(Images(saved))
       /\ Images(saved)[Len(Images(loaded)) + 1] = Image(f)
  <2>1. Len(Images(loaded)) = Len(loaded) /\ Len(Images(saved)) = Len(saved)
    BY <1>10, ImagesOf
  <2>2. Images(saved)[i] = Image(saved[i])
    BY <1>7, <1>10, ImagesOf
  <2> QED
    BY <1>4, <1>5, <1>7, <1>10, <2>1, <2>2
<1>13. Stream!NextFrame = Image(f)
  BY <1>12 DEF Stream!NextFrame
<1>14. CASE got = 3 + f.ch
  <2>1. Same(g, f)
    BY <1>7, <1>8, <1>14, WholeSame
  <2>2. Image(g) = Image(f)
    BY <2>1 DEF Same, Image
  <2>3. ~eof' /\ ~ended'
    BY <1>1, <1>2, <1>7, <1>14
  <2> QED
    BY <1>1, <1>11, <1>12, <1>13, <2>2, <2>3 DEF Stream!Next, Stream!Deliver
<1>15. CASE got # 3 + f.ch
  <2>1. eof'
    BY <1>7, <1>15
  <2>2. Image(g) \in Remains(Image(f))
    BY <1>7, <1>8, PartRemains
  <2> QED
    BY <1>1, <1>11, <1>12, <1>13, <2>1, <2>2 DEF Stream!Next, Stream!Deliver
<1> QED
  BY <1>14, <1>15

LEMMA StepSimulation ==
    ASSUME FullFrames, IInv, [Next]_vars
    PROVE  [Stream!Next]_(Stream!recordingVars)
<1>1. ASSUME UNCHANGED <<saved, loaded, eof, ended>>
      PROVE  UNCHANGED Stream!recordingVars
  BY <1>1 DEF Images, Stream!recordingVars
<1>2. ASSUME UNCHANGED <<saved, loaded>>, eof' \/ ended' PROVE Stream!Next
  <2>1. /\ Images(saved)' = Images(saved) /\ Images(loaded)' = Images(loaded)
        /\ (eof \/ ended)' = TRUE
    BY <1>2 DEF Images
  <2> QED
    BY <2>1 DEF Stream!Next, Stream!End
<1>3. CASE \/ UNCHANGED vars
           \/ SaverOpen \/ SaveTitle \/ Flush \/ SaverClose \/ Crash \/ SaverUseNotOpen
           \/ LoaderClose \/ LoaderUseNotOpen \/ LoadNoMemory
  <2>1. UNCHANGED <<saved, loaded, eof, ended>>
    BY <1>3 DEF SaverOpen, SaveTitle, Flush, SaverClose, Crash, SaverUseNotOpen,
                LoaderClose, LoaderUseNotOpen, LoadNoMemory, vars, saverVars,
                loaderVars
  <2> QED
    BY <1>1, <2>1
<1>4. CASE LoaderOpen
  <2>1. UNCHANGED saved /\ loaded' = <<>> /\ ~eof' /\ ~ended'
    BY <1>4 DEF LoaderOpen, saverVars
  <2>2. /\ Images(saved)' = Images(saved) /\ Images(loaded)' = <<>>
        /\ (eof \/ ended)' = FALSE
    BY <2>1 DEF Images
  <2> QED
    BY <2>2 DEF Stream!Next, Stream!Open
<1>5. CASE ReadTitle
  <2>1. UNCHANGED <<saved, loaded, ended>>
    BY <1>5 DEF ReadTitle, saverVars
  <2>2. CASE UNCHANGED eof
    BY <1>1, <2>1, <2>2
  <2>3. CASE ~UNCHANGED eof
    <3>1. ~eof
      BY <1>5 DEF ReadTitle, IInv, LoaderState
    <3>2. eof' = (disk < Len(Title))
      BY <1>5, <2>3 DEF ReadTitle
    <3>3. eof'
      <4>1. eof = FALSE
        BY <3>1 DEF IInv, LoaderState
      <4>2. CASE disk < Len(Title)
        BY <3>2, <4>2
      <4>3. CASE ~(disk < Len(Title))
        <5>1. (disk < Len(Title)) = FALSE
          BY <4>3
        <5> QED
          BY <2>3, <3>2, <4>1, <5>1, Zenon
      <4> QED
        BY <4>2, <4>3
    <3> QED
      BY <1>2, <2>1, <3>3
  <2> QED
    BY <2>2, <2>3
<1>6. CASE LoadEnd
  BY <1>2, <1>6 DEF LoadEnd, saverVars
<1> QED
  BY <1>3, <1>4, <1>5, <1>6, SaveSimulation, LoadSimulation DEF Next

\* When the frames are whole spectra, the saver and the loader together are a
\* stream of the recording (specframeloader.h:11-20).
THEOREM Refinement ==
    ASSUME FullFrames
    PROVE  Spec => ImplementsRecording
<1>1. Init => Stream!Init
  BY InitSimulation
<1>2. IInv /\ [Next]_vars => [Stream!Next]_(Stream!recordingVars)
  BY StepSimulation
<1> QED
  BY <1>1, <1>2, Invariance, PTL DEF Spec, ImplementsRecording, Stream!Spec
=============================================================================
