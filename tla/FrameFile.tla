------------------------------ MODULE FrameFile ------------------------------
(***************************************************************************)
(* A recording of SpecFrame objects: SpecFrameSaver writes a title and     *)
(* then frames one after another, SpecFrameLoader reads them back          *)
(* (specframesaver.h:10-19, specframeloader.h:11-20).                      *)
(*                                                                         *)
(* The file is a sequence of units, one for each item that can be missing  *)
(* on its own: the title's length, text and period; a frame's channel      *)
(* count, its row length, its other fields, and each of its rows.  stdio   *)
(* delivers units to the disk in order but late, at most Capacity of them, *)
(* and a crash of the recorder loses the rest; fwrite's result is ignored. *)
(* The loader may be opened at any time, also while recording goes on.     *)
(*                                                                         *)
(* FILE *pFile has the values "uninit" (the constructors do not set it),   *)
(* "null" (fopen failed), "open", and "stale": closed, but not set to      *)
(* NULL by close().                                                        *)
(*                                                                         *)
(* A definition named <Operation>_<Flaw> is Operation with a flaw; no      *)
(* specification uses it, it is there to show that a property depends on   *)
(* what Operation does.                                                    *)
(***************************************************************************)
EXTENDS Integers, SequencesExt

CONSTANTS Shapes,       \* the shapes of recorded frames: [ch, len, full, bound]
          SaverPost,    \* SpecFrameSaver::post_id, the post being recorded
          LoaderPosts,  \* the values of SpecFrameLoader::post_id
          AnyPost,      \* the post_id -1 of a loader
          MaxFrames,    \* bound: frames in a recording
          Capacity,     \* units the disk can hold
          Garbage       \* an uninitialised value

ASSUME ShapesAssumption ==
    Shapes \subseteq [ch : Nat, len : Nat, full : Nat, bound : Nat]

ASSUME BoundsAssumption == MaxFrames \in Nat /\ Capacity \in Nat

VARIABLES
    saver,      \* SpecFrameSaver::pFile, or "crashed"
    file,       \* the units given to fwrite so far
    disk,       \* how many of them are on the disk
    saved,      \* history: the frames given to save()
    loader,     \* SpecFrameLoader::pFile
    loaderPost, \* SpecFrameLoader::post_id
    titled,     \* read_title() succeeded
    cursor,     \* units the loader has consumed
    eof,        \* feof(pFile)
    loaded,     \* history: the frames load() returned true for
    late,       \* the loader was opened after the recording was closed
    ended,      \* the last load() returned false
    fault       \* stdio was called with a FILE that is not open, or a row written
                \* that malloc had no memory for

saverVars  == <<saver, file, disk, saved>>
loaderVars == <<loader, loaderPost, titled, cursor, eof, loaded, late, ended>>
vars == <<saverVars, loaderVars, fault>>

Least(a, b) == IF a <= b THEN a ELSE b

Init == /\ saver = "uninit" /\ file = <<>> /\ disk = 0 /\ saved = <<>>
        /\ loader = "uninit" /\ loaderPost \in LoaderPosts
        /\ titled = FALSE /\ cursor = 0 /\ eof = FALSE /\ loaded = <<>>
        /\ late = FALSE /\ ended = FALSE
        /\ fault = FALSE
-----------------------------------------------------------------------------
(***************************************************************************)
(* Frames and their image on the file.                                     *)
(***************************************************************************)

\* n samples of channel c of frame s, then `beyond' samples from past them.
Row(s, c, n, beyond) == [serial |-> s, ch |-> c, n |-> n, beyond |-> beyond]

NoRow == [serial |-> Garbage, ch |-> 0, n |-> 0, beyond |-> 0]

Frame(shape, s) ==
    [ch |-> shape.ch, len |-> shape.len, post |-> SaverPost,
     meta |-> [serial |-> s, full |-> shape.full, bound |-> shape.bound],
     rows |-> [c \in 1..shape.ch |-> Row(s, c, shape.len, 0)]]

\* save() writes rows of get_full_frame_length() samples, of which the frame
\* has get_length().
WrittenLength(f) == f.meta.full

WrittenRow(f, c) ==
    LET n == WrittenLength(f)
    IN  Row(f.meta.serial, c, Least(n, f.len), IF n > f.len THEN n - f.len ELSE 0)

Title == <<"length", SaverPost, "period">>

Record(f) == <<f.ch, WrittenLength(f), f.meta>>
               \o [c \in 1..f.ch |-> WrittenRow(f, c)]

(***************************************************************************)
(* SpecFrameSaver.  The header demands save_title() before save().         *)
(***************************************************************************)
SaverOpen ==
    /\ saver \in {"uninit", "null"}
    /\ saver' \in {"open", "null"}
    /\ UNCHANGED <<file, disk, saved, loaderVars, fault>>

SaveTitle ==
    /\ saver = "open"
    /\ file = <<>>
    /\ file' = Title
    /\ UNCHANGED <<saver, disk, saved, loaderVars, fault>>

Save(shape) ==
    /\ saver = "open"
    /\ file # <<>>
    /\ Len(saved) < MaxFrames
    /\ LET f == Frame(shape, Len(saved))
       IN  /\ file' = file \o Record(f)
           /\ saved' = Append(saved, f)
    /\ UNCHANGED <<saver, disk, loaderVars, fault>>

\* stdio empties its buffer, up to any unit, while the disk has room.
Flush ==
    /\ saver = "open"
    /\ \E n \in (disk + 1)..Least(Len(file), Capacity) : disk' = n
    /\ UNCHANGED <<saver, file, saved, loaderVars, fault>>

SaverClose_NoFlush ==
    /\ saver = "open"
    /\ saver' = "stale"
    /\ UNCHANGED <<file, disk, saved, loaderVars, fault>>

SaverClose ==
    /\ saver = "open"
    /\ saver' = "stale"
    /\ disk' = Least(Len(file), Capacity)
    /\ UNCHANGED <<file, saved, loaderVars, fault>>

Crash ==
    /\ saver = "open"
    /\ saver' = "crashed"
    /\ UNCHANGED <<file, disk, saved, loaderVars, fault>>

\* Before open() and after close() pFile need not be NULL: save_title(), save()
\* and close() then use it.
SaverUseNotOpen ==
    /\ saver \in {"uninit", "stale"}
    /\ fault' = TRUE
    /\ UNCHANGED <<saverVars, loaderVars>>

(***************************************************************************)
(* SpecFrameLoader.                                                        *)
(***************************************************************************)

\* fopen fails while there is no file; a new stream starts at the title.
LoaderOpen ==
    /\ loader # "open"
    /\ loader' = IF saver \in {"uninit", "null"} THEN "null" ELSE "open"
    /\ titled' = FALSE /\ cursor' = 0 /\ eof' = FALSE
    /\ loaded' = <<>> /\ ended' = FALSE
    /\ late' = (saver = "stale")
    /\ UNCHANGED <<saverVars, loaderPost, fault>>

Mismatch == loaderPost # AnyPost /\ loaderPost # SaverPost

\* read_title() throws, after close(), on a short title or the wrong post.
ReadTitle ==
    /\ loader = "open"
    /\ cursor = 0
    /\ IF disk < 2 \/ Mismatch
       THEN /\ loader' = "stale"
            /\ UNCHANGED <<titled, cursor, eof>>
       ELSE /\ titled' = TRUE
            /\ cursor' = Least(disk, Len(Title))
            /\ eof' = (disk < Len(Title))
            /\ UNCHANGED loader
    /\ UNCHANGED <<saverVars, loaderPost, loaded, late, ended, fault>>

LoadEnd_NoEof ==
    /\ loader = "open" /\ titled
    /\ eof \/ cursor >= disk
    /\ ended' = TRUE
    /\ UNCHANGED <<saverVars, loader, loaderPost, titled, cursor, eof, loaded, late, fault>>

\* load() returned false: feof, before or after the read of ch_total.
LoadEnd ==
    /\ loader = "open" /\ titled
    /\ eof \/ cursor >= disk
    /\ eof' = TRUE
    /\ ended' = TRUE
    /\ UNCHANGED <<saverVars, loader, loaderPost, titled, cursor, loaded, late, fault>>

\* The frame load() makes of the next got units of a record of ch channels:
\* only ch_total is checked for the end of the file, the rows resize() made
\* keep their zeros when the file ends.
LoadedFrame(ch, got) ==
    LET unit(k, missing) == IF k <= got THEN file[cursor + k] ELSE missing
    IN  [ch |-> ch, len |-> unit(2, Garbage), post |-> loaderPost,
         meta |-> unit(3, Garbage),
         rows |-> [c \in 1..ch |-> unit(3 + c, NoRow)]]

\* The units of a record of ch channels that the file still has.
Delivered_All(ch) == 3 + ch
Delivered(ch) == Least(3 + ch, disk - cursor)

\* feof is set by a read that did not get all it asked for.
AfterRead_Never(got, ch) == FALSE
AfterRead(got, ch) == got < 3 + ch

Load ==
    /\ loader = "open" /\ titled
    /\ ~eof /\ cursor < disk
    /\ LET ch  == file[cursor + 1]
           got == Delivered(ch)
       IN  /\ loaded' = Append(loaded, LoadedFrame(ch, got))
           /\ cursor' = cursor + got
           /\ eof' = AfterRead(got, ch)
    /\ UNCHANGED <<saverVars, loader, loaderPost, titled, late, ended, fault>>

\* A record cut off after ch_total has no length: resize() gets an uninitialised
\* one.  There is memory for rows of that length, and Load says what follows, or
\* there is not, and allocate_memory() writes its zeros through a null pointer.
LoadNoMemory ==
    /\ loader = "open" /\ titled
    /\ ~eof /\ cursor + 1 = disk
    /\ file[disk] # 0
    /\ fault' = TRUE
    /\ UNCHANGED <<saverVars, loaderVars>>

LoaderClose ==
    /\ loader = "open"
    /\ loader' = "stale"
    /\ UNCHANGED <<saverVars, loaderPost, titled, cursor, eof, loaded, late, ended, fault>>

\* The same for read_title(), load() and close(), before open(), after close()
\* and after a read_title() that threw.
LoaderUseNotOpen ==
    /\ loader \in {"uninit", "stale"}
    /\ fault' = TRUE
    /\ UNCHANGED <<saverVars, loaderVars>>

\* What follows a fault is undefined: no step does.
Next ==
    /\ ~fault
    /\ \/ SaverOpen \/ SaveTitle \/ \E shape \in Shapes : Save(shape)
       \/ Flush \/ SaverClose \/ Crash \/ SaverUseNotOpen
       \/ LoaderOpen \/ ReadTitle \/ LoadEnd \/ Load \/ LoadNoMemory
       \/ LoaderClose \/ LoaderUseNotOpen

Spec == Init /\ [][Next]_vars
-----------------------------------------------------------------------------
(***************************************************************************)
(* Properties.                                                             *)
(***************************************************************************)
Pointers == {"uninit", "null", "open", "stale"}

\* Every variable has its type; the loader is never past what is on the disk.
TypeOK ==
    /\ saver \in Pointers \cup {"crashed"}
    /\ Len(saved) <= MaxFrames
    /\ disk \in 0..Least(Len(file), Capacity)
    /\ loader \in Pointers
    /\ loaderPost \in LoaderPosts
    /\ cursor \in 0..disk
    /\ {titled, eof, late, ended, fault} \subseteq BOOLEAN

\* The loaded frame g is the recorded frame f.
Same(g, f) == /\ g.ch = f.ch /\ g.len = f.len
              /\ g.meta = f.meta /\ g.rows = f.rows

\* The loader returns the recorded frames in order (specframeloader.h:11).
\* Whatever a crash or a full disk cut off, and however early the loader was
\* opened, only the frame it returned last can differ from the recorded one,
\* and then feof is set, so that the next load() returns false.
TornOnlyLast ==
    \A i \in 1..Len(loaded) :
        /\ i <= Len(saved)
        /\ Same(loaded[i], saved[i]) \/ (i = Len(loaded) /\ eof)

\* A loader that was opened after close() of the recording, on a disk with
\* room for it, has returned every frame of it when load() returns false.
CompleteRecordingRead ==
    late /\ ended /\ Len(file) <= Capacity
        => /\ Len(loaded) = Len(saved)
           /\ \A i \in 1..Len(saved) : Same(loaded[i], saved[i])

\* A recorded or loaded frame, but for its post.
Image(f) == [ch |-> f.ch, len |-> f.len, meta |-> f.meta, rows |-> f.rows]
Images(list) == [k \in DOMAIN list |-> Image(list[k])]

\* A frame that lacks some of its units.
Remains(f) ==
    {[ch |-> f.ch, len |-> l, meta |-> m, rows |-> r] :
        l \in {f.len, Garbage}, m \in {f.meta, Garbage},
        r \in {[c \in 1..f.ch |-> IF c <= k THEN f.rows[c] ELSE NoRow] : k \in 0..f.ch}}

\* The loader is a stream of the recording, when the rows of the frames have the
\* length of the full frame: it gives the recorded frames in their order, and once
\* load() has met the end of the file, in a frame or before one, it gives no
\* frame any more, also when the recorder, still at work, appends the rest.
Stream == INSTANCE Recording WITH
            Frames <- {Image(Frame(shape, n)) : shape \in Shapes, n \in 0..MaxFrames},
            Torn <- Remains,
            saved <- Images(saved), loaded <- Images(loaded),
            over <- eof \/ ended

ImplementsRecording == Stream!Spec

\* tests/test_specframewriter.py:83: the loaded frame has as many samples per
\* channel as the one that was saved.
LengthKept ==
    \A i \in 1..Len(loaded) : ~eof => loaded[i].len = saved[i].len
=============================================================================
