# A verification of rust-qec's stateful core

rust-qec is a Rust workspace of simulators, decoders and benchmark drivers for
quantum error correction. This directory is about the parts of it that are hard
to get right by testing. Some are about time: sampling runs that are cut into
pieces, saved, killed and resumed; files that several invocations share; a
worker process behind a timeout; tasks collected in parallel. Others are
algorithms with much state: the matching decoder, with its event queue, regions,
alternating trees and blossoms; and three views of a stabilizer circuit, the
tableau executor, the frame simulator and the error analyzer, that must agree
about every gate. They are modelled in TLA+ and model-checked with TLC. All that is about time,
the decoder's event queue, and the agreement of the three views gate by gate are
also proved with TLAPS, for every value of their parameters.

Paths below are relative to `src/`, the repository.

## 1. The system

### 1.1 Components

| component | code | state | operations | status |
|---|---|---|---|---|
| task stream | `rmagna/src/task/evaluate/run.rs`, `run/stream.rs`, `run/stream/checkpoint.rs`, `costs.rs` | RNG, accumulators, sentinel failure, meter | start, advance, checkpoint_json, restore | modelled in part |
| checkpoint files | `rmagna/src/cli/stream/persistence.rs` | one directory | reserve, publish | modelled in part |
| stream command | `rmagna/src/cli/stream.rs` | the invocation's context, the stream, the files | run, advance, checkpoint, report, finish | modelled in part |
| controller process | `rmagna/src/runtime/process.rs`, `process/protocol.rs` | session, two channels, an I/O thread, a child process | spawn, evaluate, fail, drop | modelled in part |
| benchmark driver | `rsinter/src/bench/run.rs`, `bench/merge.rs` | per runner: `test-run`, `test-run.tmp` | run, resume, merge, publish | modelled in part |
| collect | `rsinter/src/collect.rs`, `csv_io.rs` | totals per task, one CSV file | batches, limits, save, resume | modelled in part |
| event queue | `rmatching/src/util/radix_heap.rs`, `interop/queued_event_tracker.rs` | buckets, clock, trackers | enqueue, dequeue, want, forget, reset | modelled |
| flooder | `rmatching/src/flooder` | nodes, regions with their radii and shells | grow, freeze, shrink, arrive, look | modelled |
| matcher | `rmatching/src/matcher`, `util/arena.rs` | alternating trees, blossoms, arenas | collide, rotate, blossom, shatter, extract | modelled |
| driver | `rmatching/src/driver`, `flooder/graph.rs` | the prepared graph | prepare, decode, reset | modelled in part |
| search flooder | `rmatching/src/search` | a search graph | - | not modelled |
| rmagna evaluation, files, batches | `rmagna/src/...` | none that outlives a call, apart from the stream | - | not modelled |
| rsinter decoders, replay, plots | `rsinter/src/...` | none | - | not modelled |
| tableau executor | `rstim/src/sim/tableau.rs`, `executor.rs` | tableau, records, detectors, observables | gates, measurements, resets, noise, reference sample | modelled in part |
| frame simulator | `rstim/src/sim/frame.rs`, `sampler.rs` | frames, flips | the same on a batch | modelled in part |
| reference sample and conversion | `rstim/src/data_path.rs`, `reference_sample_tree.rs`, `m2d.rs`, `transforms.rs` | boundary states seen, a tree of bits; pending corrections | fold loops, compare with the reference, carry feedback | modelled in part |
| error analyzer | `rstim/src/error_analyzer.rs` | sensitivities of qubits and measurements, errors | the same backwards | modelled in part |
| rest of rstim, rstim-shot-web | `rstim/`, `rstim-shot-web/` | near-Clifford amplitudes, archives, drawing, command line | - | not modelled |
| rbposd, rilpqec, qec-ilp-core, renvelope, qec-code | the crates of these names | numeric | - | not modelled |
| benchmarks, site, web, tools, fuzz, examples | | scripts and stored results | - | not modelled |

`PROJECT.json` lists the same components with their sources and reasons.

### 1.2 How they interact

```
 rmagna stream (cli/stream.rs)                rsinter bench run        rsinter collect
   |  calls             |  writes                |                        |
   v                    v                        v                        v
 TaskStream        checkpoint-N.json       <out>/<runner>/test-run     results.csv
   |  evaluates         ^                        (staged, swapped)       (rewritten)
   v                    |  read by --resume
 ControllerProcess -- pipes --> worker

 rmatching: user graph -> Matching::decode
              |  process_event                    notices
              v                                 <---------
            Mwpm (trees, blossoms, arenas)      GraphFlooder --looks--> trackers + RadixHeapQueue

 rstim: circuit -> reference sample -.
                -> frame simulator  --+-> samples (detectors, observables)
                -> tableau executor ----> samples (the fallback, and single shots)
                -> measurements and the reference sample -> conversion -> detectors
                -> error analyzer   ----> detector error model -> rmatching
```

* The stream command owns a task stream, advances it in bounded calls, and
  publishes what `checkpoint_json` encodes after each one. A later invocation
  reads any of those files. The interface between the two is a *position*: rows
  committed, RNG state, failed or not.
* A stream that evaluates with an external controller calls
  `Session::evaluate`; a controller error is a draw that fails, which is the
  `SampleError` of `TaskStream` and the `DrawFails` of `StreamCli`.
* The benchmark driver and collect share no state with the stream. Each owns
  files that its next invocation reads.
* The flooder hands notices (a region hit a region, the boundary, shrank away) to
  the matcher, which answers by changing regions; what it changes has to be
  looked at again. The flooder shares the event queue with nobody.
* The frame simulator needs the reference sample, and samples are right only if
  frames are carried along as the tableau carries its rows. The error analyzer
  walks the same circuit backwards; its model is what the decoder's graph is
  built from, so an error that it tells wrongly is decoded wrongly.

### 1.3 What is hard here, and what would be correct

* *Streams*: a draw consumes entropy before it commits anything; a second
  accumulator is pushed in place after the first one was cloned; guards count
  while an error or a panic unwinds. Correct means: whatever happened, the
  committed rows are a prefix of the one run from the seed, and what was saved
  can be resumed.
* *Files*: what was promised to be saved is saved, although every system call
  may fail, the process may be killed between any two, and power may be lost.
  What is there to be read is whole.
* *The worker*: three parties wait for each other; a timeout races an answer.
  Correct means that no answer reaches the wrong call, every call returns, and
  no worker outlives the session that lost it.
* *Resumed campaigns*: nothing completed is run again, counted twice or lost.
* *The decoder*: fronts move while regions are merged, frozen, matched and taken
  apart; each event is computed ahead, from caches, and must be taken back when
  what it came from changes. Correct means: it ends, with a correction of minimum
  weight, whatever the order of simultaneous events; nothing is left behind in
  arenas that the next syndrome uses.
* *Circuits*: the effect of each gate is written down three times, with and
  without signs, forwards and backwards; a measurement leaves a random frame
  that must not be felt. Correct means that the three agree.
* *Shortcuts*: a loop is not executed to its end, and feedback that was left out
  is made up for afterwards. Correct means that nobody can tell.
* *The event queue*: times wrap, events go stale, slots are used again; still
  no look that is wanted is lost, early or late.

`PROJECT.json` lists 40 hazards, each at its line, with the properties that
would catch it going wrong.

## 2. The modules

| module | is | used by |
|---|---|---|
| `ExactSampling` | abstract: one sampling run, interrupted and resumed | `TaskStream`, `StreamCli` |
| `TaskStream` | the stream in memory | `MCTaskStream`, `TaskStreamProofs` |
| `CheckpointLog` | abstract: a log of whole, permanent entries | `CheckpointStore` |
| `CheckpointStore` | reserve and publish, one action per system call | `MCCheckpointStore`, `CheckpointStoreProofs` |
| `StreamCli` | invocations of the stream command | `MCStreamCli`, `StreamCliProofs` |
| `ControllerProcess` | session, I/O thread and worker | `MCControllerProcess`, `ControllerProcessProofs` |
| `BenchRun` | the benchmark driver | `MCBenchRun` (two configurations), `BenchRunProofs` |
| `Collect` | collect and its file | `MCCollect`, `CollectProofs` |
| `Agenda` | abstract: looks in the order of time | `EventQueue` |
| `EventQueue` | radix heap and trackers | `MCEventQueue`, `RmatchingProofs` |
| `MatchingGraph` | the decoder's graph, and what a correction of minimum weight is | extended by `GraphFlooder`, an instance in `RmatchingProofs` |
| `GraphFlooder` | the flooder's operations | extended by `AltTree` |
| `AltTree` | alternating trees and arenas | extended by `Mwpm` |
| `Mwpm` | the matcher's operations | extended by `Matching` |
| `Matching` | decoding, as a state machine | `MCMatching` (two configurations) |
| `StimCircuit` | instructions | extended by the next rows |
| `Tableau`, `Executor` | the tableau and the executor | extended by `StabilizerCircuits` |
| `PauliFrame`, `FrameSimulator` | a frame and the frame simulator | extended by `StabilizerCircuits` |
| `ErrorAnalyzer` | the analysis | extended by `StabilizerCircuits` |
| `ReferenceTree` | the reference sample that skips iterations | extended by `RepeatedCircuits` |
| `MeasurementsToDetections` | the conversion of measurements, with and without their feedback | extended by `StabilizerCircuits` |
| `StabilizerCircuits` | a circuit through all of them, as a state machine | extended by `RepeatedCircuits`, `CircuitEffects` |
| `CircuitEffects` | the notions and the inductive invariants of the proofs about it | extended by `StabilizerCircuitsProofs` |
| `RepeatedCircuits` | loops, unrolled and folded | `MCStabilizerCircuits` (two configurations) |
| `...Proofs` | the inductive invariant and the theorems of the module of that name, or of the crate | - |

The modules of the stream form a stack. `StreamCli` takes for granted of a draw
what `TaskStream` shows of the code of `advance` (it happens at its commit or
fails for good), because both implement `ExactSampling`; and it takes for
granted of a file what `CheckpointStore` shows of the code of `publish` (it
appears whole or not at all, and stays once acknowledged), because that
implements `CheckpointLog`.

Operators whose comment begins with "Mutant:" are not part of a model: each is a
definition with one plausible bug, named in `PROJECT.json`, with which TLC finds
a property violated.

### 2.1 TaskStream

A row is named by the RNG state its draw began in. The evaluator is
deterministic, so a sequence of such names says which draws an accumulator
contains, and in which order, and nothing of what a draw computes is needed.
RNG states are the constant `RngStates`; `Drawn` is the state a complete draw
leaves and `Interrupted` the states an incomplete one may.

| TLA+ | code |
|---|---|
| `pc` | the point reached inside `TaskStream::advance` |
| `random`, `statistics`, `efficiency`, `groups`, `records`, `failure` | fields of the stream and of its `Accumulator` |
| `query`, `open` | the operation counters of `ExecutionMeter` and the live `Measurement` guards |
| `staged` | the clone `Accumulator::push` works on |
| `saved` | the checkpoints somebody keeps |
| `Start`, `Restore`, `Checkpoint` | `start_stream`, `restore_stream_json`, `checkpoint_json` |
| `Advance` .. `Commit` | the steps of the loop in `advance`: sentinel, sample, statistics, efficiency, commit |
| `SampleError`, `AccumulationError`, `Unwind` | errors and caught panics at each step |
| `Vanish` | the process that holds the stream ends |

`Accepts` is the list of checks that `restore_stream_json` makes, so
`CheckpointsRestorable` compares the writer's code with the reader's.

### 2.2 CheckpointStore

One action per system call, for several invocations told to use one directory.
The file system is external, and is modelled by what the code relies on:
`cache` is what processes see; an fsync copies a file or a directory's names to
`disk`; `PowerLoss` leaves, of what was not synchronized, any part. Any call may
fail (`CallFails`), with the removal of the pending file that the error path of
`publish` tries. `SyncUnlink` stands for the last call of `publish` and for the
increment of the index in `checkpoint` of `cli/stream.rs`, which follows it.

### 2.3 StreamCli

One invocation at a time over a set of `files`, each of which may be resumed by
any later invocation. `Save`, `Advance`, `Draw`, `Report`, `Receipt` and `Exit`
are the code's steps from the first checkpoint to the report. A user gives any
`--stop-after` and `--checkpoint-every` of a small set, each user sets of its own. `Kill` may leave the
file being published, or not, and `LosePower` takes any files that were not
acknowledged.

### 2.4 ControllerProcess

Callers on their own threads, the mutex of the session, the two channels of one
message, the I/O thread and the worker. The worker is external: it reads
requests, answers one it has read - perhaps an earlier one again, perhaps with
an error or something that is not a frame - and dies at any time.
A frame carries `of`, the call it was computed for, which the code does not
see; `AnswerIsOwn` compares it with the caller. A timeout may fire whenever the
response channel is empty. The last request id is `LastId`, u64::MAX - 1 in
the code, where the counter stops at u64::MAX.

### 2.5 BenchRun

Any sequence of invocations over the artifacts of two runners, with and without
`--resume`, with a specification that may change. `loaded` is what was read of
every runner before the first one runs. `Merged` adds the samplings of two rows
as `merge_row_into` adds their counts. `Kill` leaves any remnant of a directory
that was being removed; a file operation that fails leaves no more than that.

### 2.6 Collect

Tasks in parallel batches, limits of shots, errors and seconds (whole), batch
sizes that double, failures of the compiler, sampler and decoder, and the CSV
file, truncated and rewritten at the end of a call. `sampled` counts what the
sampler ever made, which no variable of the code does.

### 2.7 EventQueue

`buckets`, `curTime` and `enqueued` are the heap; `tracker` has the four fields
of a `QueuedEventTracker`. A cyclic time has `Width` bits, 32 in the code.
Callers want looks from the current time to `Horizon` later: the graph flooder
clamps its times to the clock, and edge weights have far fewer bits than times
(`NUM_DISTINCT_WEIGHTS` is 1<<24, `driver/user_graph.rs:10-11`), which is what
`HorizonAssumption` says. `Reuse` gives the slot of an item to another one while
its events are still in the heap. A tracker's times that are left over when
their flag is off are not told apart by the code, and `Reset` and `Reuse` bring
them to `Default` as it does.

### 2.8 The matching decoder

The flooder and the matcher are methods on one memory, and so are the operators
of `GraphFlooder`, `AltTree` and `Mwpm`: each takes the memory `m` and returns
the memory its method leaves. `Matching` makes them a state machine. One action
is one turn of the loop in `process_timeline_until_completion`: a look at a node
or a shrinking region, or the handling of one notice.

| TLA+ | code |
|---|---|
| `user`, `near` | `UserGraph`, and the neighbours of `MatchingGraph` in their order |
| `m.node`, `m.region`, `m.tree` | `DetectorNode`, `GraphFillRegion`, `AltTreeNode` in their arenas |
| `m.unusedRegions`, `m.unusedTrees` | the free lists; the slot freed last is used first |
| `wake` of a node or region | the time its `QueuedEventTracker` desires |
| `LookAtNode`, `LookAtShrinkingRegion` | `dequeue_valid`, `process_tentative_event` |
| `RegionHitRegion`, `RegionHitBoundary`, `BlossomShatter` | `Mwpm::process_event` |
| `ShatterAndExtract`, `Predict`, `Reset` | `shatter_and_extract`, the prediction, `GraphFlooder::reset` |

The queue is an agenda, which is what `EventQueue` shows of the code of heap and
trackers. Looks wanted at one time are taken in any order: the heap's depends on
all that was queued before. `Likeliest` in `MatchingGraph` is the reference that
a decoding is compared with: the corrections of least weight, found by trying
all sets of edges. Some operators (`Extracted`, the walks up a tree) are
recursive as in the code, so these modules are checked and not proved about;
`MatchingGraph` has none (section 4.7).

### 2.9 Stabilizer circuits

An instruction is a name, groups of targets, the inverted ones, and whether its
probability is positive. A probability decides between outcomes that are all
kept: `ExecuteOp` and `FrameOp` give the *set* of shots an instruction may lead
to, and `StabilizerCircuits` keeps the sets of all shots of the executor and of
all frames. So comparing the sets compares everything that can be sampled.

| TLA+ | code |
|---|---|
| a row of `Tableau` | row i of `x`, `z` and `phase` of `StabilizerState` |
| a frame | one column of `x_table` and `z_table` |
| `flips` | the same column of `m_record`, before the reference is added |
| `x`, `z`, `measurement` of an analysis | `x_sens`, `z_sens`, `measurement_sens` |
| `RefSample`, `Execute`, `RunFrames` | one turn of `ref_sample_instrs`, `execute_instrs`, `FrameSimulator::run` |
| `Undo`, `UndoElse` | one turn of `undo_circuit`, for a block of else branches one |

`program` is a circuit with its `REPEAT`s, `circuit` the same unrolled, which is
what all but the packed reference sample take. `StabilizerCircuits` has the way of
unrolling as the constant `Unrolled`, for which `RepeatedCircuits` has `Flattened`,
recursive as `flattened` is. `Valid` is what `validation.rs` lets through, and
asks besides that the two qubits of a pair, and all of a product, are different
(section 3.2); `CircuitsAreValid` assumes it of the circuits. `ReferenceInstrs` and
`ReferenceRepeat` are that sample: they are recursive, as is the nesting of
loops, and give the tree, the tableau and the counters at once. Below the rows
of `canonical_snapshot` the packed tableau is not modelled: `RefSampleOp` stands
for its instructions. `Normalized` removes a circuit's feedback and says which
results correct which; a circuit with feedback goes to the executor only, as
`uses_executor_sampling_fallback` has it.

Gates are operators on one row, one frame, or one analysis; `Conjugated` is the
loop over rows. `clean`, which says that no noise happened in a shot, is not in
the code: the properties compare shots with noise to those without.

## 3. What is checked

Twelve runs. Bounds are constants with "bound:" in their comment; nothing else is
bounded. Deadlock is checked in `task_stream`, `event_queue` and `matching`,
where there is always a next step. In the other systems it is not
(`CHECK_DEADLOCK FALSE`): streams end, processes die, sessions are dropped, an
analysis is done, and the bounds on invocations and calls let everything come to
its end.

| run | instance | question | distinct states |
|---|---|---|---|
| `task_stream` | 3 draws, RNG of 8 states, 3 queries, 2 nested, 1 checkpoint kept | Is every reachable stream and checkpoint a cut of the one exact run? | 661,000 |
| `checkpoint_store` | 3 invocations, 3 checkpoints | Is what is visible whole, and what is acknowledged durable? | 5,100 |
| `stream_cli` | 3 draws, 2 users: 3 invocations with any file, or 5 with the longest; 2 faults | Are draws never ahead of the disk, failures terminal, reports honest, and does resuming complete the stream? | 1,241,000 |
| `bench_run` | 2 runners, 3 points, 3 invocations, 2 errors, 1 kill | Is each point sampled once, and success complete? | 43,000 |
| `bench_interrupted` | the same | Does an interrupted resumption preserve completed rows? (It does not.) | stops at the violation |
| `collect` | 2 tasks, 2 calls, 1 fault | Do totals count what was sampled, and do limits hold? | 455,000 |
| `controller_process` | 2 callers of 2 calls, 3 ids, 3 frames | Does every call get its own answer, and return? | 41,000 |
| `event_queue` | 2 items, 3-bit times, time to 10, 3 events queued | Are looks given in order, none lost, across the wrap? | 409,000 |
| `matching` | 86 graphs of 3 to 7 nodes, all explainable syndromes of the small ones, any order of simultaneous looks | Does every decoding end, at minimum weight, with memory in order? | 109,000 |
| `matching_nested` | a graph of 9 nodes and 10 edges, all fired | The same with a blossom in a blossom that is matched. (It is not of minimum weight.) | stops at the violation |
| `stabilizer_circuits` | 5,667 circuits on 2 qubits | Do samplers and analysis agree, is the analysis exact, and do shortcuts show? | 204,000 |
| `measured_again` | `H 0; M 0; M 0` | Is every record sampled from frames possible? (It is not.) | stops at the violation |

### 3.1 Properties

*task_stream.* `ExactPrefix`: no draw is skipped or made twice. `Aligned`: an
error or panic in the middle of a push leaves no accumulator ahead of another.
`CheckpointsRestorable`: no legal history leads to a checkpoint that the reader
refuses. `MeterBalanced`: guards balance their counters through nested failures
and panics. `Implements`: all of it is `ExactSampling`.

*checkpoint_store.* `AcknowledgedIsDurable`, `OneWriter` and `Implements` (of
`CheckpointLog`, whose entries are whole).

*stream_cli.* `WriteAhead`: no draw is made before the file it builds on is
saved, and a kill loses at most `--checkpoint-every` draws.
`TerminalNeverDrawn`: neither a failed stream nor a terminal receipt is drawn
from, through any number of resumptions. `HonestReport`: what a report says of
the stream is what the file it names holds. `Implements` (of `ExactSampling`).
`Completes`: a patient user is told of a complete or failed stream.

*bench_run.* `SampledOnce`, `SuccessIsComplete`, `LostOnlyInTheSwap`.
A point whose identity cannot be planned is run again by every resumption
(`bench/run.rs:89`), and its counts are added: such points are excluded from
`SampledOnce`.

*collect.* `CountedWereSampled`, `LimitsRespected`, `CallsEnd`.

*controller_process.* `AnswerIsOwn`, `NoOrphan`, `CallsReturn`.

*event_queue.* `HeapOrdered`, `Implements` (of `Agenda`).
`HeapOrdered` also says that the `None` of `radix_heap.rs:99` cannot be reached
while events are counted.

*matching.* `MinimumWeight`: the result is the weight, and the observables, of a
likeliest correction. `Pairing`: the pairs of `decode_to_edges` name every event
once and are as far apart as the weight says. The others say why, at every
moment: `NoOverlap` (fronts never pass through each other), `Watched` (whenever
two close in on each other, an end of the edge wants a look in time),
`TreesAndMatches` (every region grows or shrinks in one tree, or stands matched
to one that is matched to it; links agree both ways), `CachesFresh` (tops,
wrapped radii and blossom cycles are what would be computed), `SlotsAccounted`
(each slot of an arena is reachable or free, once), `Decodes` (it ends).

*stabilizer_circuits.* `WellFormed`: the tableau stays one. `SamplingExact`: the
frames of a batch give exactly the records, detectors and observables that
single shots do, in circuits that reset a qubit before they use it after a
measurement and have no noise on `MPAD`. `FoldedExact`: skipped iterations change
no bit of the reference sample, nor the stabilizer state after it, and are all
counted. `FeedbacklessExact`: the same measurements, detectors and observables
follow from shots taken without feedback as from shots taken with it, where each
fed back qubit is measured once before it is used again (`FlippedOnce`).
`EffectsExact`: at every point of a circuit the analysis says of every Pauli there
what a frame carried forward from it flips, beside what random frames flip of
themselves, which without products is nothing. `GaugeExact`: a circuit is rejected
only if some detector is random without noise, where none looks back at a herald
(`HeraldsSeen`), and, if it measures no products, whenever one is. `DemExact`: each
error of the model happens, alone, in some shot; and nothing happens that is not a
sum of them, in circuits without noise on `MPAD` (`PadsFlip`). The circuits of the
run have noisy `MPAD`, heralds that detectors look back at, and fed back qubits
that one instruction measures twice, so that each guard is needed there: without
it the property is violated.

### 3.2 Where the code and its documents disagree

* `bench_interrupted`. `bench/run.rs` removes the old artifact directory before
  it renames the staged one into its place, and a later invocation removes the
  staging directory. A kill between the two loses completed rows that
  `benchmarks/surface_decoder_compare/README.md:104-107` says are preserved.
  `LostOnlyInTheSwap`, which holds, says that there is no other such moment.
* `matching_nested`. When a blossom shatters, `mwpm.rs:478-479` looks again at
  the children that become matched, by `reschedule_region_nodes` (`:1062-1068`),
  which visits the shell of the region itself only. If such a child is itself a
  blossom, the nodes of the regions inside it go on waiting as they did while
  they shrank; a neighbour grows towards them, and the meeting is noticed late
  or never. On the graph of the run, nine events end with a correction of weight
  47 half units that crosses the observable, where the least is 46 and does not.
  `rmatching/README.md:5` says "minimum-weight perfect matching". In `matching`
  no such child occurs.
* `measured_again`. After a measurement the frame simulator clears the flip it
  has just recorded (`frame.rs:464`, `472`, `484-485`, and the compiled
  `1099-1117`), as if the qubit had been reset: from then on the shot is taken to
  be in the state of the reference sample, which it is not if its result was
  flipped. `H 0; M 0; M 0` samples records whose results differ.
  `rstim/tests/frame_possible_outputs.rs:28-31` asserts that sampled rows are
  possible; none of its circuits uses a qubit again that `M` has measured.
* Without a run of its own: `error_analyzer.rs:751-762` undoes the two steps of
  `CXSWAP` and `SWAPCX` in the order in which they are done, so that a Pauli
  before such a gate is told to flip what it does not flip. The pairs of one
  instruction that share a qubit are undone in forward order as well. Feedback is
  passed over, and what is left of the targets is paired anew
  (`error_analyzer.rs:2061-2072`).
* Without a run of its own: the executor flips the bits of `MPAD(p)` with
  probability p (`executor.rs:1121-1145`), as
  `rstim/tests/executor_mpad.rs:25-29` asserts and `validation.rs:106-107`
  accepts. The frame simulator pushes zeros (`frame.rs:887-891`), and
  `uses_executor_sampling_fallback` (`sampler.rs:491-524`) does not send such
  circuits to the executor, so that `MPAD(p) 1` is never sampled as 0. The error
  analyzer takes the bits back without their noise (`error_analyzer.rs:848-856`),
  so that `MPAD(p) 1; DETECTOR rec[-1]` gets a model without errors, where
  `rstim/doc/getting_started.md:176-177` says that a model describes which errors
  cause which detectors to fire. `SamplingExact` and `DemExact` fail on such
  circuits if their guard `~PadsFlip(circuit)` is dropped.
* Without a run of its own: the analyzer takes a herald off the record and leaves
  what looks back at it (`error_analyzer.rs:1052`, `1079`). At the end
  `:1951-1961` calls it "non-deterministic", and rejects
  `HERALDED_ERASE(p) 0; DETECTOR rec[-1]`, although the detector never fires
  without noise; `rstim/tests/noise_phase3.rs:179-185` has such a detector.
  `GaugeExact` fails on such circuits if its guard `~HeraldsSeen(circuit)` is
  dropped.
* Without a run of its own: `validation.rs:288-323` and `367-398` accept a pair of
  one qubit with itself, and a product that names a qubit twice, which
  `near_clifford.rs:163` rejects. `cx` with equal qubits (`tableau.rs:270`) clears
  the qubit's column, after which the rows are no tableau: with `CX 0 0` among the
  circuits, and `CircuitsAreValid` dropped, `WellFormed` fails.
* Without a run of its own: a feedback is made up for at the first measurement of
  its qubit only (`transforms.rs:264-265`), so that `--ran_without_feedback`
  converts a second measurement before a reset wrongly, and says nothing; so it
  does if one instruction measures the qubit twice (`MY 0 0`).
  `FeedbacklessExact` fails on such circuits if its guard `FlippedOnce` is
  dropped. A feedback instruction with several pairs is not recognized
  (`transforms.rs:204-210`) and stays in the circuit.
* Without a run, as the inverse of a circuit is not modelled: by the tables of
  the tableau `C_NXYZ` is undone by `C_ZYNX`, and not by `C_XYNZ` as
  `transforms.rs:74` says, nor `C_NZYX` by `C_ZYNX` (`:78`).

### 3.3 Why the bounds are enough

* `task_stream`: three draws allow a first, a middle and a last one, so each of
  the checks of `restore_stream_json` that treats zero or all draws specially
  has both sides; a draw takes two RNG states and may be interrupted after one,
  so a wrong state is always told apart. Three queries exhaust the limit across
  a checkpoint; two nested ones put two guards on the stack of a panic. One kept
  checkpoint is any of those encoded so far.
* `checkpoint_store`: with three checkpoints there is one acknowledged before,
  one being published and one after; a third invocation comes to a directory
  that power loss has left behind.
* `stream_cli`: chunks are smaller than, equal to and larger than what is left;
  three invocations allow a resumption of what a resumption wrote; two faults
  allow a failed draw whose save fails too. For the hasty user one number of rows
  cannot be diagnosed and one cannot be exported. The patient user, whose runs
  are the subject of `Completes`, has five invocations: two for the faults and
  three for the draws.
* `bench_run`: two runners, because a runner that has finished and one that has
  not differ; two specifications that share one point, so a row may be asked
  for by some invocations only.
* `collect`: limits of shots that are smaller and larger than an earlier call's,
  batches that grow from one to two, and two tasks that end differently.
* `controller_process`: more calls than ids, so ids run out; three frames are a
  greeting, an answer and a repetition or a second answer.
* `event_queue`: times pass the end of the 3-bit cycle, twice the horizon fits
  into it, three events for two items leave stale ones next to current ones.

* `matching`: a square with a diagonal and a boundary, with every weight of 1 or 2
  on each edge and every syndrome, has odd cycles, and matched pairs that are
  taken into a tree; forks of five nodes with a distant boundary have blossoms in
  blossoms that shrink away again, either way round, with subtrees below them;
  two larger graphs make a region leave a node behind when it shrinks, and a
  cycle of five regions; four small ones have negative and zero weights, loops,
  parallel boundary edges and declared boundary nodes, and are decoded twice, to
  see what a decoding leaves to the next. Which case occurs where was found by
  breaking the code's operations one by one; the properties' mutants are some.
* `stabilizer_circuits`: two qubits, as every rule is about one qubit or two.
  Each gate is followed by each two-qubit gate on an entangled pair (`Entangled`),
  and stands with its inverse around each kind of noise between resets and
  measurements of all bases (`Echoes`); every two kinds of measurement and reset
  follow each other (`Sequences`), or a product and a qubit that may feel its random
  frame, of which the analysis says nothing (`Felt`); a parity is measured twice, by three gates
  (`Rounds`); a result is fed back to either qubit by each controlled Pauli, once
  or twice, before measurements and resets of all kinds (`Feedbacks`), or to one
  that the next instruction measures twice (`Twice`); noisy `MPAD` and heralds are
  looked back at by detectors, or fed back (`Padded`). The
  analysis accepts 1,940 of the circuits and rejects the others. Loops (`Loops`)
  have periods of 1, 2 and 4, end within a period or at its end, measure random and
  fixed results, and contain one another, 225 circuits in all. They are folded
  from `RepeatFoldThreshold` = 4 iterations on, where the code does so from 10: a
  loop below it and one above it are then short enough to be unrolled.
  788 circuits with feedback are in the scope of `FeedbacklessExact`.

### 3.4 Fairness

Of `checkpoint_store`, `bench_run`, `task_stream`, `event_queue` and
`stabilizer_circuits` only safety is asked, and nothing is assumed. The others
assume:

* `StreamCli!FairSpec`: a running invocation goes on (it is one thread without
  waits), and a user whose stream is not at its end invokes the command again.
  The latter is about the user: `Completes` speaks of the patient one, who
  resumes from a file with most rows, with a positive `--stop-after`. Kills and
  lost files are limited by `MaxFaults`, and the invocations suffice for them.
* `Collect!FairSpec`: the threads of the pool are scheduled. The wall clock
  helps nobody: a batch may take no time.
* `ControllerProcess!FairSpec`: threads are scheduled, `recv_timeout` returns, the
  I/O thread's writes go on when the worker is dead. Nothing is assumed of the
  worker, whose full pipe may hold up a write for as long as it lives. The
  mutex is not assumed fair; `CallsReturn` holds because other callers make
  finitely many calls.

* `Matching!GoesOn`: a decoding is one call on one thread, so it takes a step
  while there is one; that there is one is the absence of deadlock.

## 4. What is proved

### 4.1 The task stream

`TaskStreamProofs` proves about `TaskStream`, for every number of draws, every
RNG, every query limit, nesting and number of checkpoints, with and without
retained rows:

| theorem | says |
|---|---|
| `StreamCorrect` | `Spec => []StreamInv`, the inductive invariant |
| `TypeCorrect` | `Spec => []TypeOK` |
| `PrefixExact`, `CheckpointsExact` | `Spec => []ExactPrefix`, `[]ExactCheckpoints` |
| `AccumulatorsAligned` | `Spec => []Aligned` |
| `CheckpointsAccepted` | `Spec => []CheckpointsRestorable` |
| `MeterCorrect` | `Spec => []MeterBalanced` |
| `FailureIsTerminal` | `Spec => FailureTerminal` |
| `StreamImplements` | `Spec => Implements`: the refinement of `ExactSampling` |

**Assumptions.** Those of the module, which TLC evaluates in the run: counters
and bounds are natural numbers, the seed is an RNG state, `Drawn` maps states to
states, `Interrupted` maps states to sets of them.

**The argument.** None of the properties is inductive by itself. That
the accumulators agree at rest needs to be known of every point inside a draw,
and that a draw starts in the right RNG state needs that the one before it
ended there. `StreamInv` says both. *Settled* describes the stream between two
draws: accumulators, retained rows and RNG state all belong to one prefix.
*Drawing* describes it inside one: the sentinel names the draw, `row.from` is
where the prefix ended, and each accumulator is exactly as far as the step that
was reached. *Faithful* says of each checkpoint that the reader accepts it and
that it is a prefix; it is what makes `Restore` preserve `Settled`, and
`Settled` is what makes `Checkpoint` preserve it. One lemma per action
(`StartInv` .. `CommitInv`) shows that it is preserved; `NextInv` collects them.
The lemma `PrefixExtends` carries the one fact about sequences: a prefix is
extended by the draw that begins where it ends.

The refinement maps a draw in flight to the position before it: it happens at
its commit, or fails. Every action is then a `Begin`, `Resume`, `Draw`, `Fail`,
`Save` or `Lose` of `ExactSampling`, or a stutter.

### 4.2 Stabilizer circuits

`StabilizerCircuitsProofs` proves of any circuits, on any number of qubits, that
what the executor computes with stays a tableau:

| theorem | says |
|---|---|
| `TableauxStayWellFormed` | `Spec => []WellFormed`, of the reference sample and of every shot |
| `InstructionsKeepShots` | `execute_op` takes a shot with a tableau to shots with tableaux, and to one at least |
| `ReferencesKeepShots` | so does `ref_sample_op` |
| `GatesKeepTableaux`, `PairGatesKeepTableaux` | so does each gate, |
| `CollapseKeepsTableaux` | and a random measurement of a qubit |

It also proves that the three views of a circuit agree about each instruction,
in the presence of any frame, row or sensitivity. `Feels(a, f, r, d)` says that
the part of frame `f` on qubit `r` flips target `d`, according to analysis `a`.

| theorem | says |
|---|---|
| `OneQubitGatesAgree` | undoing a gate gives every frame what its image after the gate flips |
| `TwoQubitGatesAgree` | the same of pairs, but for `CXSWAP` and `SWAPCX` (section 3.2) |
| `FramesFollowRows`, `FramesFollowRowsOfPairs` | a frame goes through a gate as the X and Z of a tableau's row do |
| `MeasurementsAgree` | a frame before a measurement flips what it flips after it, or else what looks back at a result that it flips |
| `InstructionsUndone` | undoing an instruction is dual to running it |
| `EffectsStayExact` | `Spec => []EffectsExact`, of all the instructions of a circuit together |
| `ResetsAgree` | what a reset in the basis X or Z leaves of a frame, random bit included, flips nothing where the analyzer finds no gauge |

**Assumptions.** `NumQubits` is positive. `CircuitsAreValid`: circuits have an
instruction, and each instruction is `Valid`, so that the qubits of a pair or of
a product differ, which the code does not ask for and needs (section 3.2).
No lookback goes further back than there are measurements (`LooksBackWithin`),
which `validate_circuit` refuses as well, and without which the analyzer would
take a difference below zero. Else branches stand anywhere: nothing is assumed
of them. TLC evaluates both assumptions in the run.

**The argument for tableaux.** Of a tableau, stabilizer i and destabilizer i
anticommute, all other rows commute, and the phases of stabilizers are real. A
gate is applied to each row by itself, so what is needed is about two rows:
`Kept` says that they anticommute after it if and only if they did before, and
that the phase of neither changes its parity. The gates that the code does not
compose of others are shown to be so by counting on how many of the gate's qubits
the two rows clash (`LocallyKept`, `PairwiseKept`); the others follow step by
step (`SequencesKept`, `GateKept`, `PairGateKept`), and a product is a sequence of
changes of basis and of `CX`s onto its anchor (`ProductsKept`). That is where the
qubits have to be different.

A measurement multiplies rows. `row_mult` adds up a phase qubit by qubit; its
parity is the number of qubits on which the two rows clash (`PhaseSum`), so
that the product of two rows has a real phase if both have and they commute
(`RowMultIs`). In `CollapseKeepsTableaux` every row but the pivot's destabilizer
is multiplied by the pivot or left alone; as the destabilizer is overwritten
with the pivot, and the pivot with a signed Z, the pairs that anticommute are
again those of one number. A measurement whose result is fixed adds up rows
that are not changed. What is left is bookkeeping over targets, coins and bases
(`MeasurementsKeep`, `TargetsKeep`, `StepwiseKeeps`). `Invariance` has besides
the tableaux that `pc` is in the circuit while instructions are executed.

**The argument for the three views.** The frame operators are eight, and so are
the analyzer's; a lemma says of each pair of them that they are adjoint
(`HAgrees` .. `SwapAgrees`), and one for each that it is what the tableau's gate
does to X and Z (`RowGates`, `RowPairGates`). Names are then taken one by one: a
gate that the code composes of others agrees because each of its steps does, in
one direction for the frame and in the other for the analyzer. That is where
`CXSWAP` fails. What makes a symmetric case of a pair follow from the other is
`Symmetric`. `ResetsAgree` is not claimed in the basis Y, in which the frame
simulator draws x and z apart from each other and the analyzer relies on their
being drawn together.

**The argument for the analysis.** `EffectsStayExact` puts the three views
together, from the rules of single groups to whole circuits. Its notions are in
`CircuitEffects`. The effect of a state of the frame simulator, `Effect(a, s)`,
is what fires in the end as analysis `a` has it: what the frame flips, what the
recorded results flip that something looks back at, and what has fired already.
`EffectsExact` is of the frames that have one Pauli at `pc`, and of the rests of
a circuit that reset what they have measured and are undone in reverse
(`ResetAfterMeasurement`, `UndoneInReverse`, section 3.2); the proof is about the
effects of all states, which a step carries along.

1. *Groups.* `Dual(op, t, b, a)`: if undoing a group leads from analysis `a` to
   `b`, running it takes every state to states whose effects, as `a` has them,
   are the effect that `b` had for it plus the members of one set, which does not
   depend on the state. Only measured products add anything: the random part
   of their frame can flip what the analyzer does not check. One lemma for each kind
   of instruction (`GateIsDual` .. `ProductMeasurementIsDual`), of which that of
   products is the longest: a product is folded onto its anchor and
   unfolded, by steps that commute, so that the analyzer may undo them in either
   order (`Reordered`, `ProductsMirror`).
2. *Instructions.* `InstructionsUndone`: the groups one after another, in the
   order in which the code undoes them: the last first where results are
   recorded and for products, and for the others as they are written, where they have
   one group or groups that do not depend on each other (`Clearings` for resets). A measurement leaves a qubit that must be reset
   before it is used (section 3.2): `Spared` says that the analysis has nothing
   on such a qubit, and `Link` that if this is so after an instruction it is so
   before it, and the instruction is dual. Detectors and observables change what
   looks back, noise that does not occur changes nothing.
3. *Circuits.* The analysis at `pc` does not say how it came about. Therefore
   the invariant `AnalysisInvariance` remembers a `History`: analyses of every
   place from the end of the circuit back to `pc`, each linked to the next, with
   the measurements and detectors that are left counted (`Fits`). One step
   of the analyzer adds one to it, or a block of correlated errors (`StepsKeepAnalyzed`).
   From a history, losses are followed along the circuit and back
   (`LossesOfCircuit`), and the simulator is walked forwards along it; the sets
   that the instructions add are added up (`RemaindersAdd`). At the end nothing is
   pending, and an effect is what has fired (`EffectAtEnd`).

The invariant is needed because the property is not inductive: that the effects
agree at `pc` says nothing of the analysis there but for frames on one qubit with
no results, and the step before it needs all frames, and all results.

From these proofs TLC's question for two qubits is left with what they do not say: that
frames sample what shots do, and which circuits are rejected.

### 4.3 The checkpoint files

`CheckpointStoreProofs`, for any invocations and any last index:

| theorem | says |
|---|---|
| `TypeCorrect` | `Spec => []TypeOK` |
| `AcknowledgedDurability` | `Spec => []AcknowledgedIsDurable` |
| `SingleWriter` | `Spec => []OneWriter` |
| `ImplementsLog` | `Spec => Implements`: the refinement of `CheckpointLog` |

**Assumptions.** The last index is a natural number; there is an invocation, and
the two words for the contents of a file are none.

**The argument.** `StoreInv` adds four parts to `AcknowledgedIsDurable`.
*Exclusive*: one running invocation created the directory, and where one has
acknowledged something no other ever will; a mere `OneWriter` would not survive
a loss of power, after which the directory may be there and its creator gone.
*Reserved*: the directory is on the disk before its first file. *Progress* says,
call by call, what `publish` has done of its checkpoint: the text is on the disk
before the published name is linked. *Whole* follows: a published name leads to
a whole text, on the disk too, from the moment it is seen. One lemma per system
call (`CreateDirInv` .. `SyncUnlinkInv`), and one each for failing calls, kills and losses of
power, shows that all of it is kept; the same cases map to the steps of the log.

### 4.4 The stream command

`StreamCliProofs`, for any stream, RNG, users, options and bounds:

| theorem | says |
|---|---|
| `Invariance`, `TypeCorrect` | `Spec => []CliInv`, `[]TypeOK` |
| `DrawsAreWrittenAhead` | `Spec => []WriteAhead` |
| `TerminalStaysTerminal` | `Spec => []TerminalNeverDrawn` |
| `ReportsAreHonest` | `Spec => []HonestReport` |
| `ImplementsExactSampling` | `Spec => Implements`: the refinement of `ExactSampling` |

**Assumptions.** Rows are counted by natural numbers, draws take RNG states to
RNG states, `--stop-after` is not negative and `--checkpoint-every` is positive,
as the parser of options has it.

**The argument.** The command knows of its files by two flags and the record of
the last one. *SavedAsIs* is what `persistence_ok` is worth: while it holds, the
file acknowledged last is the stream as it is. *Drawing* carries the limits from
the head of the loop into the draw, and *Receipts* the terminal flag from the
point where a failure is found to the exit, after its receipt was saved or could
not be. *Filed* keeps the files of earlier invocations apart from this one's,
*Reported* the report from what runs. `WriteAhead` is a case of *Drawing*, and
`HonestReport` is inductive with the rest.

### 4.5 The controller process

`ControllerProcessProofs`, for any callers, calls, ids and bounds:

| theorem | says |
|---|---|
| `Invariance`, `TypeCorrect` | `Spec => []ProcessInv`, `[]TypeOK` |
| `AnswersAreOwn` | `Spec => []AnswerIsOwn` |
| `NoWorkerIsLeft` | `Spec => []NoOrphan` |
| `SendIsTaken` | `Spec => []RoomToSend`: a request finds its channel empty and the I/O thread waiting at it |

**Assumptions.** The last id is a natural number, and no caller is called like
the two that are none.

**The argument.** *Labelled* is the invariant that counts: every request and
every frame, in a channel, in the thread's hands or in a pipe, names an id that
was given out, and if a caller still waits for this id, it was computed for the
call that has it. So the comparison of ids in `evaluate` is enough, however late
or often the worker answers. It needs ids to be given out once (a counter that
stops below u64::MAX, which a greeting has) and callers to hold the mutex from
the check of the session to the answer (*Exclusive*). `SendIsTaken` rests on a
second invariant, *Flow*: until a session fails there is one message between the
two channels and the thread while somebody waits, and none otherwise. Of the two
ways in which `try_send` may fail, a full channel and a receiver that is gone,
neither can therefore happen to a caller; its error
branch (`process.rs:86-88`) is kept in the model and never taken.

### 4.6 The benchmark driver and collect

`BenchRunProofs`, for any number of runners, points, specifications, errors and kills:

| theorem | says |
|---|---|
| `TypeCorrect` | `Spec => []TypeOK` |
| `NeverSampledTwice` | `Spec => []SampledOnce` |
| `SuccessComplete` | `Spec => []SuccessIsComplete` |
| `RowsLostOnlyInTheSwap` | `Spec => LostOnlyInTheSwap`, an action property |

`CollectProofs`, for any tasks, limits and batch sizes:

| theorem | says |
|---|---|
| `TypeCorrect` | `Spec => []TypeOK` |
| `SavedCountsWereSampled` | `Spec => []CountedWereSampled` |
| `LimitsHold` | `Spec => []LimitsRespected` |

**Assumptions.** There is a runner: with none the driver writes nothing and
reports success, which the model leaves out. A specification lists no point
twice: the proof of `NeverSampledTwice` failed without this, and the code does
keep both rows then, whose counts a resumption adds up. Batch sizes and the
limit of seconds are positive.

**The argument.** In `BenchInv`, *FreshRows* says of the runner at work that it
ran only points that were not completed, once each, and *Progress* that the
runners before it are complete and that the old directory is gone just when the
new one takes its name. `SampledOnce` of the files then follows from the same of
what was loaded (*LoadedOnce*). `RowsLostOnlyInTheSwap` needs the invariant
where a directory is renamed: what it had before was empty. In `CollectInv` the
totals at work never run ahead of the sampler, so neither does a file written
from them; `LimitsRespected` is inductive once batches are known to be no larger
than the largest size.

### 4.7 The event queue, and negative weights

`RmatchingProofs`, for any items, any width of a cyclic time, and any horizon
below half a cycle:

| theorem | says |
|---|---|
| `Invariance`, `TypeCorrect` | `Spec => []QueueInv`, `[]TypeOK` |
| `Ordered` | `Spec => []HeapOrdered` |
| `ImplementsAgenda` | `Spec => Implements`: the refinement of `Agenda` |

**Assumptions.** `Width` is positive, and `HorizonAssumption`, which section 2.7
justifies.

**The argument.** All is said by how far a time is ahead on the cycle, `Ahead`:
`cyclic_gt` compares two times that are near by how far ahead they are
(`CyclicGtIs`), `widen_from_nearby_reference` finds the time that is so far ahead
(`WidenIs`), and the remainder computed by wrapping subtraction is it
(`AheadIs`). The bucket of a time is the least number of low bits without which
it agrees with the present (`BucketIs`). From that follow the facts the heap
lives on: in one bucket the smaller number is less far ahead (`OrderInBucket`,
also in the last bucket, where the times have wrapped around), what is in a lower
bucket is less far ahead (`OrderOfBuckets`), and when the time moves to one in
bucket j, what is in higher buckets stays and what is in bucket j goes to lower
ones (`BucketAfter`). `SettledIs` and `Dequeued` say the same of the heap: after
a move every event is in its bucket, none is lost, and the first bucket has one.
That is why `expect` and both `debug_assert`s of `dequeue` and `enqueue` hold.

`QueueInv` adds what the trackers know. *Queued*: the event that a tracker
counts as queued is in the heap, also while stale ones about the same item are.
*Awake*: an item that wants a look has a queued event that is no further ahead
than the wish. So the earliest event is never after a wish (`SeekIs`), no wish is
passed by, and an empty heap means that there is none. The refinement maps a
cyclic time to the absolute one, which a move of the clock leaves as it was
(`TimeMoves`).

**Induction.** The theorems of the library about induction and recursion take
operators as parameters, which the provers cannot instantiate. Here they are
restated for sets and functions (`NaturalInduction`, `PrimitiveRecursion`), from
the theorem that every set of numbers has a least one. The powers of two,
the counter of events and the loop that redistributes a bucket are recursive
functions, and what is said of them is proved by induction over their length.
`StabilizerCircuitsProofs` does the same for the folds of the community modules,
over sets (`SubsetInduction`, `FoldExists`) and over sequences from the left
(`FoldLeftUnique`).

**Negative weights.** The same module proves of `MatchingGraph`, for any graph
a user may give (nodes, edges of integral weight, parallel ones, loops, boundary
nodes) and any detectors that fired:

| theorem | says |
|---|---|
| `NegativeWeightsUndone` | edges are a lightest explanation of `fired` just if the edges in which they differ from the negative ones are one of `EffectiveEvents`, with weights without sign; and weight and observable of the former are those of the latter with `NegativeSum` and `NegativeObs` added |

The decoder takes the negative edges as used and matches the effective events
over weights without sign; the theorem says that an exact matching of those is
an exact decoding of what was asked, so that of `MinimumWeight` only the matching
itself is left to TLC. It is of the edges that `to_matching_graph` keeps, of
parallel ways from a node to the boundary the lightest. The argument: the parity of a
symmetric difference is that of both sets together (`OddSymDiff`, `EdgesDiffer`),
which gives events and observable, and shows that to take the difference twice
is to do nothing, so that explanations match one to one; weights of disjoint
sets add up (`WeightsAdd`), and a negative edge that is left out weighs what
it weighs without sign. A sum over a set is a fold that picks its elements in
some order: `SumExists` and `AnyOrder` say that there is such a function and that
the order makes no difference. That the edges kept are edges again, with
weights, is `SignedEdgesAre`.

### 4.8 Only model-checked

Liveness (`Completes`, `CallsEnd`, `CallsReturn`, `Decodes`) stays with TLC: the
prover does not reason about fairness and ENABLED. So does the decoding
(`MinimumWeight`, `Pairing`, `NoOverlap`, `Watched`, `TreesAndMatches`,
`CachesFresh`, `SlotsAccounted`): it is built on recursive operators, as its code
is, over trees and blossoms, and in modules that reach one the prover loses its
arithmetic. That a correction is of minimum weight would need a theory of
matchings beside. `FoldedExact` is about nested loops and stays for the same
reason. `SamplingExact`, `FeedbacklessExact`, `GaugeExact` and `DemExact` compare what
two programs do with a circuit from end to end, as sets of all their runs;
section 4.2 proves what each instruction does. For `GaugeExact` and `DemExact`
the duality of the analysis is there, and what is missing is which states the
random bits of a circuit lead to.
`ExactCheckpoints`, `FailureTerminal` and `RoomToSend` are proved and not run: the mutants
that break them are those that break the properties that are.

## 5. What is not modelled

* In `TaskStream`: what the evaluator computes, the text and the identity of a
  checkpoint, the limits of bytes, the quotas other than queries, and clocks.
* In `CheckpointStore`: `read`, which changes nothing.
* In `StreamCli`: preflight and preparation, whose errors come before anything is saved, and the
  file `--output` writes, which nothing reads.
* In `ControllerProcess`: bindings and manifests in a greeting; poisoned
  mutexes, which end in the same error; grandchildren of the worker that keep
  its pipe open. Something that is not a frame may be refused by `read_frame` or
  by the receiver: both are in the model.
* In `BenchRun`: what a runner measures; a specification that lists a point
  twice; rows of one identity that differ in parameters.
  `prune_completed_identity_failures` (`bench/run.rs:209-225`) finds nothing to
  prune in rows that can be reached here, of which there is one per identity.
* In `Collect`: limits that differ between the tasks of a call, a task twice in one call, batch sizes of zero, no
  `max_batch_size`.
* In `EventQueue`: what a look does. Whether a region that was freed is still
  wanted is decided by the matcher. In debug builds `enqueue` asserts that no
  time is in the past; release builds rely on what `HorizonAssumption` says.
* In the decoder: the parsing of a detector error model and the rounding of its
  weights (weights here are integral, and doubled as the code doubles them);
  packed formats of input and output; more than one observable, of which each is
  treated alike; the search flooder, which no public operation calls. Syndromes
  that no set of edges explains are not decoded: a blossom left unmatched panics
  (`mwpm.rs:836`), a plain region is passed over. Parallel edges between two
  inner nodes are left out: the first is used for both (`graph_flooder.rs:625`).
* In rstim: loss, sweep bits, coordinates, probabilities and
  the sampling from them, packed words and compiled blocks, tracked sources, the
  decomposition of hyperedges, the packed tableau, conversion with sweep tables,
  with loss or without a reference, the inverse of a circuit, `allow_gauge_detectors` and
  `approximate_disjoint_errors`. `SamplingExact` and `EffectsExact` are of
  circuits that reset a qubit before they use it after a measurement (section
  3.2); the properties of the analysis leave aside what it does not undo in
  reverse (`UndoneInReverse`). `SamplingExact` and `DemExact` leave aside noise on
  `MPAD` (`PadsFlip`), and `GaugeExact` leaves aside rejections of circuits with
  detectors or observables of heralds (`HeraldsSeen`).
* The rest of rstim, numeric crates and pure transformations of files: amplitudes
  and messages in floating point, text and drawings, which a model checker does
  not reach or says nothing about.

## 6. The plan

Done: the modules above, and the theorems of section 4.

Next, in this order:

1. *Loss in rstim* (`executor.rs:911-1120`, `m2d.rs:199-630`): gates that are
   skipped, and detectors that depend on what was lost.
2. *Decomposition of hyperedges* (`error_analyzer.rs:2300-2646`): that the parts
   of an error are its whole.
3. *StreamTiming* (`checkpoint.rs:498-499`, `653-662`): the three clocks a
   checkpoint reads and the order its reader demands.
4. *Batches* (`run_batch` and its monitored variant): progress and cancellation.
5. *Duplicates in collect*: a task listed twice in one call.
6. *The sample archive and the result stream of rstim.*

Properties that turn out to say less than newer ones give way to them.

Proofs, in this order: `GaugeExact` and `DemExact` from `EffectsStayExact`;
`SamplingExact` for circuits of gates; the decoder's memory (`TreesAndMatches`, `SlotsAccounted`),
once its walks are written as recursive functions, over which section 4.7 shows
how to reason.

## 7. Running it

```
tlc -workers 2 -config MCTaskStream.cfg MCTaskStream      # and likewise each MC module
tlapm TaskStreamProofs.tla                                # and likewise each ...Proofs module
```
