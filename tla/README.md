# Verification of libsource_localization

libsource_localization finds the direction of a radio source from the spectra
that an antenna array receives.  A *frame* (`SpecFrame`) holds the spectrum of
each channel, several threads process it, estimators read windows of it, frames
are recorded to files and read back, and the `Pelengator` searches the direction
under which the phases between the elements of an `Antenna` fit best.

This directory holds TLA+ modules that model the control of that library, the
TLC configurations that check them on small instances, and TLAPS proofs of the
properties that matter most.  `src/` below is the repository; paths without a
directory are under `src/source_localization/`.

- `tlc -config X.cfg M` checks a run, `tlapm M.tla` a module of proofs.
- `PROJECT.json` lists components, runs, hazards, findings and theorems, and
  names for every definition the source lines it stands for.

## 1. Inventory

| Part | State | Operations | What is hard | What makes it correct |
|---|---|---|---|---|
| `SpecFrame`, sharing | `reference_counter`, `serial`, `parent` | `copy`, `erase`, `clear`, `operator=`, the writer's `write_*` | every thread calls `copy`/`erase` on the same plain `int`; the parent is told by serial; frames are recycled | the frame returns exactly when its last holder lets it go |
| `SpecFrame`, memory | `data`, `channels_total`, `samp_per_channel` | constructors, destructor, `resize`, `operator=` | frees loop over a size that the same operation changes | no leak, no bad free, rows match the size, copies are deep, no row is read after it is freed |
| `SpecFrameSaver`, `SpecFrameLoader` | `pFile`, `post_id`, the file, stdio's buffer | `open`, `save_title`, `save`, `close`; `open`, `read_title`, `load`, `close` | recorder dies, disk is full, reader opens a file that grows; `pFile` not initialised or reset | what is read is what was recorded, only the last frame can be torn |
| `Antenna`, Python `AntennaSystem` | model, base, orientation, phase centre; derived elements, phase centre, stages | setters, copy, adjustment, file constructor, `save`, `load`, `append`, `pop` | derived state that each setter must renew; model and elements mixed up in files | derived state is never stale; a copy or a saved antenna is in place |
| `Pelengator::estimate`, `Interpolator` | `interpolation`, grid, matrix, running minima | grid scan, interpolation, choice, local search | float against double, NaN, a search that throws | the minimum of the grid is not lost; the value reported is the point's |
| `AmpEstimator`, `PhaseEstimator`, `PseudoPhaseEstimator`, `DelayEstimator`, `LhPel` | a window, a reference row, set before frames arrive | setter, `estimate` | full-frame samples against row indices, off by one, a window older than the frame | no sample and no row outside the frame is read |
| `set_signal_param`, `generate_grid` | window, `coord_grid` | both | throws, or runs out of memory, after the window was stored; steps that are 0, negative, infinite or NaN | the grid belongs to the window, covers all directions, and is made in finite time |
| `Triangulator`, `Peleng` | none | mean of least-squares points over pairs of bearings | no or one bearing, loop bounds in unsigned arithmetic | each pair counts once, the loops end |
| dlib's local search | `x`, `f_value`, the bracket of a line search, the stop strategy | `find_min_using_approximate_derivatives`, `line_search` | the value and the point are kept by different functions; searches that give up; NaN | it ends, at a finite value that is that of its point, and no worse than the start |
| Python bindings | pointers to the C++ objects, the list of an `AntennaSystem` | `load`, `set_*`, `append`, `pop`, garbage collection | a `__dealloc__` that is misspelt; `load` that deletes and then throws | each antenna has one owner; a loaded system has all posts |
| scripts, notebooks, the rest of dlib | | | | (not modelled) |

The parts interact by direct calls only: threads and the `SpecFrameParent`,
which is a class outside the repository, call `SpecFrame`; the loader writes
frames through `SpecFrameWriter`; estimators read frames; the `Pelengator` keeps
a **copy** of an antenna, asks `generate_grid` for a grid, builds an `LhPel` for
each frame and calls the interpolator and dlib.  The only concurrency is that
of threads sharing frames and of a recorder and a reader sharing a file; the
only persistence is the files.

`PROJECT.json` lists the hazards of this code, each at its line, and the
properties that would show it going wrong, or why none does.

## 2. Modules

Every module that models code says at its head what is abstracted.  A definition
named `<Operation>_<Flaw>` is `<Operation>` with a plausible bug and is used by
no specification: putting it in the place of `<Operation>` must break a
property, which shows what the property depends on (`PROJECT.json`, "mutants").

| Module | Models | State and actions |
|---|---|---|
| `FrameLifetime` | what sharing promises (abstract) | `phase` and `holders` of each frame; the last `Release` returns the frame |
| `FrameShare` | sharing of frames, `specframe.cpp` | `++`, `--` are a load and a store of each thread (`CopyLoad`, `CopyStore`, `EraseLoad`, `EraseStore`), the test is `EraseLast`/`EraseNotLast`, the call of the parent `EraseSignal`; `Clear`, `Assign`, `Publish` are the producer's |
| `FrameMemory` | memory of frames | a heap of blocks; `Construct`, `CopyConstruct`, `Destroy`, `Resize`, `Assign`, with `Freed` for `free_memory` and `Allocate` for `allocate_memory` |
| `FrameUse` | threads that read frames; composes `FrameMemory` with `FrameLifetime` | the operations of `FrameMemory` on frames that were not handed out, `BeginAmp`, `BeginPhase`, `BeginPseudo`, `BeginPel` for an `estimate` up to its `get_data`, `ReadRow` for an iteration of its loop, `EndRead` for its end |
| `Recording` | what a recording promises its reader (abstract) | `Record`, `Deliver`, `End` |
| `FrameFile` | recordings | `file` is the sequence of items given to `fwrite`, `disk` how many arrived; one action per method, `Flush` and `Crash` for stdio and the recorder's end |
| `LhSearch` | `Pelengator::estimate` with `Interpolator::find_minimum2d` | `Scan` is one iteration of the grid search, `Window`/`WindowSkipped` one of the interpolation, `WindowsEnd` the choice, `Refine`/`RefineThrows` dlib |
| `Minimiser` | what `estimate` counts on when it calls dlib (abstract) | `Move`, `End`, `Throw` |
| `LocalSearch` | dlib's local search | `Start`, `Stop`, `BeginLine`, `NoSlope`, `Moved` of the outer loop; `Bracket` and `Sectioning` are iterations of `line_search`, for any value, decrease and slope the objective may have at the next point |
| `SearchGrid` | `set_signal_param` and `generate_grid` | `SetSignalParam` up to the loops, then `NextRow`, `NextColumn`, `EndRow`, `GridMade` |
| `Pairs` | the loops over pairs of `LhPel` and `Triangulator` | `Body` is an iteration of the inner loop, `NextOuter` the end of one of the outer |
| `Pelengation` | composes `SearchGrid` and `Pairs` | `SetParam`, `Estimate`, `Triangulate` begin what one thread then does step by step |
| `Wrappers` | ownership in the Python bindings | one action per method of `Antenna` and `AntennaSystem`; `LoadPost` is an iteration of `AntennaSystem.load`; an address is used again when it is free |
| `Antenna` | antennas, `save`, `AntennaSystem.load` | one action per setter, each with the recalculation it ends with |
| `EstimatorWindow` | estimators, `LhPel`'s limits, `set_signal_param` | setters, among them `SetPel` with the ways `generate_grid` can end, `NextFrame`, and an `Estimate...` action per kind, which records the indices it reads |
| `Floats` | | what floats have that integers have not: `NaN` |
| `*Proofs` | | theorems of the module named before `Proofs`; `FrameUseProofs` also of `FrameMemory`, `PelengatorProofs` of `LhSearch` and of `Pelengation` with its parts |
| `MC*` | | the values TLC uses |

Three abstract modules say what a part promises to the next: `FrameShare`
implements `FrameLifetime` (`holders <-` the threads in `refs` and those that were
counted out but are still in `erase`, `Leaving`), `FrameFile` implements
`Recording` (`over <- eof \/ ended`, frames without their post), `LocalSearch`
implements `Minimiser` (`value <- fx`).  The promises are what the users build
on: `FrameUse` takes ownership from `FrameLifetime`'s actions, and `LhSearch`'s
`Refine` and `RefineThrows` are the ends of `Minimiser` for an objective that is
finite everywhere or nowhere, as the likelihood of given pairs is.

Abstractions that a reader should know:

- *FrameShare*: a thread that calls `erase` holds the frame until its `--` is
  stored; after that it reads nothing but what the test needs.  The test
  `reference_counter == 0` uses the register or, if `Reload`, may load the field
  again: a compiler may do either.  The parent refills a frame only
  when `erase_frame` has returned it and outstanding frames have different
  serials; that is the caller's part of the contract, as `erase_frame` has only
  the serial to go by.  A thread is handed a frame at most once for each
  publication.  `Serialised` says whether the callers exclude each other.
- *FrameMemory*, *FrameUse*, *FrameFile*: a use of memory or of a FILE that C
  leaves undefined sets `fault`, and nothing follows it.  That, and that a
  reader and a recorder may be done, is why these runs have
  `CHECK_DEADLOCK FALSE`.
- *FrameUse*: that the producer leaves shared frames alone, and that a thread
  does not erase a frame that it reads, are the callers' part (`Owned`,
  `Reads`).  An `estimate` that throws, or whose window has no sample, reads no row
  and is left out; so `AmpEstimator`, whose guard lets only such windows through,
  does not begin on a frame without samples.  `LhPel` has the channel count of its
  antenna and `PseudoPhaseEstimator` (with `DelayEstimator`) a row `ref_ch`, both
  any number.  A thread that reads past its table takes no further step.
- *FrameFile*: a recorder makes one recording, and gives it its title first as
  the header demands.  A unit of the file is an item that can be missing on its
  own: torn items are missing ones.  When a row length is missing `load` uses an
  uninitialised one: either there is memory for such rows, and a frame with the
  length `Garbage` is loaded, or `malloc` fails and its null pointer is written to,
  a `fault` (`LoadNoMemory`).
- *LhSearch*: a value of the matrix is drawn when the scan comes to it, so all
  matrices are covered.  The local search throws when the likelihood of the
  starting point is not finite, stays there when it is at most `MinF`, and
  otherwise ends at a finite value of which nothing is promised.
- *LocalSearch*: the direction of BFGS and the length of a step are left out;
  what the search learns of a point is its value, whether it decreases enough,
  and the sign of the slope.  That an interval collapses, or that steps are
  negligible, is a choice.
- *SearchGrid*: the unit of an angle is the spacing of floats, so a step below
  it is lost when it is added.  `std::bad_alloc` ends a loop that nothing else
  ends.  The extents of the antenna are an argument.
- *Wrappers*: of an antenna only its model is kept.  A step that C++ leaves
  undefined (delete or read of a freed antenna, an antenna without a model) is
  not a step.  Only `Antenna` is modelled: the other classes make their object
  in the constructor and keep it.
- *Antenna*: orientations are quarter turns, so the rotation is exact on
  integers.  A blank antenna (no model) may only be given one.  The vector of
  stages is always in ascending order, so it is modelled as a set.
- *EstimatorWindow*: the samples' values are left out.  Whether `generate_grid`
  uses up the memory is a choice here; which settings make it do so is the subject
  of `SearchGrid`.

## 3. Runs

All constants of a run are its bounds.

| Run | Instance | Shows |
|---|---|---|
| `frame_share` | 3 threads, 2 frames, 2 serials, serialised, with `Reload`, fair | all invariants of sharing, the refinement of `FrameLifetime`, and that every published frame returns |
| `frame_share_race` | 3 threads, 1 frame, not serialised, without `Reload` | `NoHolderAfterErase` is **violated** |
| `frame_use` | 2 frames, 4 blocks, 0 to 2 channels, 2 threads, `ref_ch` before and in the rows | which misuses lose or corrupt memory, and that nothing else does; no thread reads a row that was freed, and which read rows that are not the frame's |
| `frame_file` | 2 frames of 0 to 2 channels, room for 11 items, loaders for every post, the right and a wrong one | a torn frame is the last one; a closed recording is read back whole; the reader implements `Recording` |
| `frame_file_band` | frames with samples 1, 2 of 4 | `LengthKept` is **violated** |
| `lh_search` | 3 x 4 grid, likelihoods -4..1 and NaN, floats are the even numbers | the grid's minimum is not lost, the report is of the start, when `estimate` throws |
| `antenna` | 2 antennas, models of 3 and 4 elements, 2 bases, 2 orientations, 2 centres, 1 correction | nothing is stale, a copy is in place |
| `antenna_save` | the same | `SaveLoadInPlace` is **violated** |
| `estimator_window` | windows in -1..4, frames of 0, 2, 4 samples from sample 0 or 1 of 4 | which guards suffice for which frames, and when the grid is not that of the window |
| `local_search` | values -3..1 and NaN, `min_f` -3, `min_delta` 2, 4 iterations of a line search, fair | the bracket is one, value and point belong together, the end is no worse than the start, with the exceptions named; the search ends or gives up for ever; it implements `Minimiser` |
| `pelengation` | circle of 8 units, frequencies 1, 4 and NaN, windows over 0, 2, 4, extents 0, 1, 3, room for 60 points, up to 4 elements and 3 bearings, fair | the grid is rectangular and covers the sphere; which steps make the loops endless; each pair once; triangulations of a bearing or more end |
| `wrappers` | 3 Antennas, 4 addresses, 2 good files and a broken one, systems of up to 2 posts | one owner for each antenna until a load has failed half way; leaks only by dropping; systems are complete |

Why the bounds are enough.  Three threads let a third one copy or erase between
the steps of two others, and two frames with two serials let a serial be used
again while the other frame is out; `FrameShareProofs` covers every number.
Four blocks are two rows for each object, so both can be full at once, and 0, 1,
2 channels give "fewer" and "more"; a fuller heap only disables `Allocate`
(`malloc` that fails is not handled by the code and is not modelled).  Two frames
of two channels need 3 + 5 + 5 items; with room for 11 the disk is full inside
the second one, and smaller frames fit.  Rows are counted from 1, so the rows 0 and 2
of `RefRows` are one before the table and one that only frames of two channels
have.  A 3 x 4 grid has two
windows, so the choice between windows happens.  An antenna of 4 elements
has one that the adjustment does not reach and three stages.  Windows
-1..4 lie before, in, across and past a frame of 2 that starts at 1.
Four iterations let a line search bracket, section, exchange the ends of its
bracket, and run out, in either phase; five values give a decrease that
is too small for `min_delta` and one that is not, and `MinF` itself.  The
settings of `pelengation` make frequencies from -1 to 6, so steps of 12 and 4
down to 0, negative ones, infinite ones and NaN; the memory is what a grid of
the smallest step needs (`MemoryAssumption`).  `UintMax` 7 and `SizeMax` 15 are
the widths of the indices: smaller than in C++, but a loop that wraps round does
so in either.  Three Antennas and four addresses let an address be used again by
another Antenna while a third still points to it.

`frame_share_race` has `CHECK_DEADLOCK FALSE` because the system may really stop
there: when two `erase` lose an update nobody holds the frame and nobody returns it.

Fairness is assumed in three runs.  In `frame_share` a call that was entered
makes its next step (weak fairness of `Step`; nothing in `copy` or `erase`
waits), and a thread that holds a frame eventually calls `erase` on it
(`specframe.h:49`: every thread does after processing it).  The latter is strong
fairness because the threads compete for the exclusion and the action is enabled
again and again, not for good.  In `local_search` the search makes its next step
(weak fairness of `Next`): it is a function of one thread that waits for
nothing.  In `pelengation` a loop that was entered goes on (weak fairness of
`Work`), for the same reason; that somebody calls a function is not assumed.

## 4. What the runs found

Three statements of the repository are not what the code does.

1. *Racing `copy`/`erase`* (`specframe.cpp:229`, `specframe.h:40, 49`).  The
   counter is a plain `int`.  In the trace three threads work on a frame: a `copy`
   and an `erase` both load 2, the `copy` stores 3 and the `erase` 1, which loses
   the count of the new holder, and the `erase` of one of the two that are left
   brings the counter to 0 and calls the parent while the other still holds the
   frame.  A thread that was counted out is no holder any more, and the test of
   `erase` reads its register (`Reload` is FALSE), so it is the lost update that
   does it: with `++` and `--` as single steps the property holds in the same
   instance.  With single steps and `Reload` two threads may both read 0 and
   both call the parent, so an atomic counter would need the test on its result.
   With calls that exclude each other everything holds, for any number of threads
   (proved).  Python callers exclude each other: no function of
   `source_localization.pyx` releases the GIL.
2. *Band-limited frames are recorded wrong* (`specframesaver.cpp:39`).  Rows are
   written with the full frame's length, past the end of the row in memory, and
   the frame is loaded with that length.
3. *A saved antenna moves when it is loaded* (`source_localization.pyx:220`).

Other weak places have no text that the code could contradict, or need no model
to be seen.  The invariants name them in their premises, so that they say what
holds in spite of them:

- `operator=` frees with the other frame's channel count (`specframe.cpp:53,
  63`), and the copy constructor frees an uninitialised pointer
  (`specframe.cpp:32`): the misuses of `frame_use`.
- `LhPel` reads as many rows as the antenna has elements (`lhpel.cpp:48`), and
  `PseudoPhaseEstimator` and `DelayEstimator` the row `ref_ch` in each iteration
  (`pseudophaseestimator.cpp:31`), without a look at the frame: `ReadsSound` excepts
  those rows when they are not the frame's (`Unchecked`).
- A frame made without samples has no table of rows.  `LhPel` limits its window to
  the sample -1 of it (`lhpel.cpp:11`), `PhaseEstimator`'s guard accepts the sample
  just past it, `PseudoPhaseEstimator` has no guard, and all three read through the
  null pointer: `ReadsSound` excepts it for them, not for `AmpEstimator`.
- `set_signal_param` stores the window and then makes the grid
  (`pelengator.cpp:36, 42`).  If the grid uses up the memory
  (`gridpel.cpp:103`) the window is new and the grid old: `GridFollowsWindow`
  excepts it, and holds of the other failure, a flat antenna.
- A step that is lost in rounding or negative fills the memory, also for a
  frequency below 0 that a wide window given backwards can make
  (`gridpel.cpp:103`): `EndlessOnlyByStep`.  The bearing count 0 never ends
  (`triangulator.cpp:30`): `TriangulationEnds`.
- A line search whose interval collapses returns `b`, while the value its caller
  keeps is that at `alpha` (`optimization_line_search.h:453`), though
  `optimization_abstract.h:216` promises the value at `x`: `ValueIsOfX`.  One that
  runs out of iterations takes the step it tried last: `NoWorseThanStart`; it
  evaluates the objective up to `max_iter + 1` times (`TypeOK`).  Nothing limits
  the number of line searches: `SearchEnds`.
- `Antenna.load` that throws leaves a pointer to a freed antenna
  (`source_localization.pyx:30`): `OneOwner`.  `Antenna` objects that go are
  never deleted (`:34`): `LeaksOnlyDropped`.
- The estimators' guards accept the first sample past the frame
  (`phaseestimator.cpp:18`), and after them the sample of the full frame indexes
  the row of a band-limited one (`ampestimator.cpp:26`): `AmpInFullFrame` is about
  full frames and about `AmpEstimator`.
- `pFile` is not NULL when no file is open (`specframeloader.cpp:112`,
  `specframesaver.cpp:64`), so the guards that throw "File wasn't opened" do
  not, except after a failed `open`: these calls end in a `fault`.
- A loader for every post gives its frames the post -1
  (`specframeloader.cpp:92`): `Recording` has frames without their post.

## 5. Proofs

TLAPS proves the following for all values of the constants that satisfy the
named assumptions of the modules.

**`FrameShareProofs`** (finitely many threads, any frames and serials), for
`Serialised` calls.  `NoHolderAfterErase` alone is not inductive: whether the
parent may be called depends on the counter, on the register of the thread in
`erase`, and on the serial finding the right frame.  `IInv` adds these: at most
one thread is in a call (`OneCaller`); it holds its frame until it is counted out,
and its register is what the counter is, so that a second load would read the same
(`CallState`); the counter is the number of holders, in the middle of a call too
(`CounterCountsHolders`); a cleared frame has counter 1, and a shared one has a
parent and somebody who holds it or is leaving it (`Ownership`); outstanding
serials differ (`SerialsDiffer`).  From `Invariance`
follow `TypeCorrect`, `HolderSafety`, `NothingLost`, `CounterExact`,
`SignalOnce`, and with one step-simulation lemma `Refinement`: `FrameShare`
implements `FrameLifetime`.

**`FrameUseProofs`** (any frames, heap, sizes and threads).  The four properties of
`FrameMemory` are inductive only together (`MemoryIInv`): a free takes just the
rows of its frame because a frame has as many rows as channels
(`RowsMatchChannels`), the rows of the others survive it because no row is shared
(`NoSharedRows`), and `NothingLeaks` is what turns "not in use" into "not
allocated".  Their premises, the misuses, are part of the invariant, so the proof
also shows that nothing else does harm.  `Sharing` (who holds a frame holds one
that is handed out, which the producer leaves alone) and `Reading` (a reader holds
its frame, and its pointer is still the frame's table) carry this over to the threads:
`ReadersSafe`.  Of a reader `Sound` also keeps what its estimator made sure of: that
`AmpEstimator`'s frame has samples, and that all but `LhPel` ask the frame for its
channels.  `CopiesDeep` says that no row belongs to two frames or twice to one.

**`FrameFileProofs`** (any frames, posts, room on the disk).  A record has no mark
that tells it from another, so a reader is right only because its cursor is
where a record begins.  `Layout` says where that is, `Position` that the cursor is
there, or the end of the file was met inside a record; the history `Complete`
says of a recording that was whole when its title was read that the end is met
nowhere else.  What was loaded (`FramesRight`) follows in each step of `load` from
the units that lie between two beginnings.  `Invariance` and `TypeCorrect` hold of all frames.
`TornLast`, `CompleteRead` and `Refinement` assume `FullFrames`, that frames hold the
whole spectrum: of others the saver writes rows that are not the frame's, which
is finding 2.  The run `frame_file` has such frames only.

**`PelengatorProofs`**, the search (any grid, any likelihoods, any monotone
idempotent rounding with error at most `Err`).  `IInv` says of the scan that the
float minimum is within `Err` of the least value seen and is the rounded
likelihood of its point (or still 0), and of the start that it is one of the two
candidates together with its value.  `GridMinimumKept` shows that the rounding
errors of the scan do not add up; `ReportFaithful` that value and point are not
mixed; `ThrowJustified` that `estimate` does not throw while the grid has a negative
likelihood.

`PelengatorProofs`, the pairs (any number of elements, bearings, any widths of
the indices that hold the number of pairs, `PairsAssumption`).  `PairsIInv` says
which pairs lie behind the two indices and counts them: twice their number is
`i * (2n - i - 1) + 2 * (j - i - 1)`, which each iteration keeps, so that the count
needs no induction.  `PairsMetOnce` follows when the indices have reached their end.

`PelengatorProofs`, the grid (any circle, carriers, windows, antennas).
`GridIInv` says what is in a row that is not complete: its columns are the
multiples of the step from minus one step on, each inside the limit, or Inf and
NaN for such a step (`ColumnLoop`); of the rows before it, that they are complete,
and so of equal length, and cover what the elevation has passed (`RowLoop`).
`EndlessJustified` counts the memory: with proper steps a row has at most
`Circle + 3` columns and there are at most `2 * Quarter + 1` rows, which fit by
`MemoryAssumption`; without an assumption of that kind the property would be false.
`GridUsable` is the rest.

**`LocalSearchProofs`** (any values of the objective, any limits).  What is
promised at the end of the search depends on what each line search keeps of its
points: `LineState` says that the end `a` of a bracket, and in the first phase the
last point, has decreased enough and is not below `min_f`, since that would have
ended it; `ValueState` where `f_value`, and after it `f0`, is the objective at `x`;
`CollapseState` that only a collapsed interval breaks this; `Descent` that no step
so far has raised the objective.  `Refinement` maps a line search that moves `x`
to `Move` and needs `CollapseState` to show that the search does not end at a value
that `Minimiser` rules out.

**`WrappersProofs`** (any Antennas, addresses and files).  The properties are about
the Antennas that exist; the invariant is about all pointers, for which it needs
that Antennas that are gone point to nothing (`GoneNull`).  `LoadState` says that
what a system's load was asked for is what it has loaded followed by what is
left, with the models that are behind the pointers: `SystemComplete`.

**`AntennaProofs`** (any antennas, models, bases, turns).  Every setter is an
instance of one lemma, `DerivedAnew`; `DerivedUpToDate` is inductive together
with the fact that the variables are functions of the antennas.  `CopyFaithful`
is the action property of the copy.  `TypeCorrect` needs that arguments have
three coordinates, all of which the code reads (`ArgumentsAssumption`), and rests on
`DerivedTyped`, the same for types.

**`EstimatorWindowProofs`** (any windows, lengths, bounds).  `GridInUse` needs a
history argument: `set_signal_param` stores the window before `generate_grid`
can fail.  That it throws for a flat antenna does no harm: the antenna was copied
when the `Pelengator` was made, so a flat one never had a grid (`NoGridIfFlat`).
That it runs out of memory does, and the theorem says that nothing else does.  `AmpSafe`, `PelSafe` and `SameSide` are about the indices
read.

Each of these modules begins with `Invariance`, that its invariant holds in every
reachable state; the invariants were checked by TLC before they were proved.
`TypeCorrect` is the type invariant.  `LhSearch` and `EstimatorWindow` have one that no
run repeats.

Only model-checked: the liveness properties `EveryFrameReturns`, `SearchEnds` and
`TriangulationEnds`, which are out of the prover's reach.  The three properties
that are violated have no theorem.

## 6. Not modelled

- The values the estimators, the likelihood and the triangulator compute: real
  arithmetic.  So an uninitialised `lh_max` (`lhpel.cpp:70`), which scales the
  likelihood, shows nowhere.
- The rest of dlib, vendored; the Python scripts and notebooks, which the library
  does not call; `setup.py`, `pyestimator.pyx`.
- The asserts of `Pelengator::estimate` on the frame's parameters, `verbose`,
  `active`, names, printing and plotting.
- What the interpreter does with an exception of a function that is not declared
  `except +` (`source_localization_headers.pxd`: all but the `Antenna`
  constructors): it ends the process.
- `SpecFrame::filter`, which changes samples under the other holders of a frame:
  no text says that samples stay.
- `AntennaSystem.save` and `clear`, which raise an exception whatever the state.
- Reopening a saver, titles that no saver wrote, `malloc` that fails, except for
  the rows of an uninitialised length.
- What `LhPel` prints when `verbose`.

Nearly all lines under `src/` are dlib's, of which the library calls one
function; the map can therefore cover only a small part of them.

## 7. Plan

Done: the modules above, in the order `FrameShare`, `FrameMemory`, `FrameFile`,
`LhSearch`, `Antenna`, `EstimatorWindow`, `FrameUse`, `LocalSearch`, `SearchGrid`
with `Pairs` and `Pelengation`, `Wrappers`, `Recording`; proofs of every safety
property and refinement that a run checks.
