# A TLA+ model of Rook's record and replay

Rook records what crossed the boundary of one software component, replays the
recorded inputs into a possibly different build of it, and asks a property
program what the replay shows. The case the repository is built around is a
Nav2 action client that gives up on a goal after a timeout without cancelling
it. This directory models both paths of the repository: the native one
(recording format, component, recorder, adapter protocol, runner, property
program, commands and case files, and the thread handoff of the Nav2
experiment), and the Wasm one (replay core, guest ABI, the host's commands).

## 1. Inventory

| Component | State | Operations | Talks to |
|---|---|---|---|
| Stream reader, hashes (`crates/rook-native`) | cursor, next sequence per source, session, ended | `decode_stream`, `decode_payload`, `hash_frames` | everything that opens a recording |
| Reference component (`rook-adapter-ref/src/component.rs`) | one callback's state, goals issued, sequence per effect channel | `step`: goal command, clock, goal response, result, cancel response | recorder (in process), adapter |
| Recorder (`fixture.rs`) | frames, counters per source, last goal and last cancel | `record` over a script | component |
| Adapter (`adapter.rs`, `protocol.rs`) | a component, count of effects | `serve`: start, step, finish | runner, by lines over two pipes |
| Runner (`rook-verify/src/runner.rs`) | cursor in the recording, replayed frames, steps, effects, authorized callbacks, sequences, early answer | `replay` | adapter process, property program, normalization |
| Normalization (`normalization.rs`) | issuance order of goals, pairs | `Goals::effect`, `Goals::input` | runner |
| Property program (`property.rs`) | none | `evaluate`: timeout-cancel, timely-ack | runner |
| Adapter process (`AdapterProcess` in `runner.rs`) | child, two pipes, a reader thread, a channel of sixteen lines | `spawn`, `send`, `line`, `finish`, drop | runner |
| Reference driver (`driver.rs`) | the runner's, without early answers | `replay`, `compare` | any adapter |
| Commands (`rook-verify/src/lib.rs`, `bin/rook.rs`) | none beyond the reports | `run_case`: baseline, candidate, comparison, exit code | case loader, runner |
| Case and builds (`case.rs`) | a directory of files, two build descriptions | `Case::load`, `Build::load`, `candidate`, `same_identity` | commands |
| Standalone verifier (`rook-verify/src/main.rs`) | a capsule directory | `verify_manifest`, `run`, `run_native` | none |
| Nav2 experiment (`native/src/rook_nav2_experiment`) | worker thread and its suspended caller, callbacks, clocks | `launch`, `pause`, `resume`, `stop`, executor, client | its own adapter and property scripts |
| Wasm core (`rook-core`, `cells/echo-count`) | none; chains over deliveries and emits | `replay`, `replay_synthetic`, `hash_observed` | host |
| Wasm host (`rook-host/src/abi.rs`, `main.rs`) | tick, inbox, captured emits and logs with their budgets | the guest ABI, `run_cell_replay` | a cell |
| RMF runs (`rmf.rs`, `rmf_bag.rs`) | scripted robots, a recorded bag | `record`, `replay_recording`, `reorder_lifecycle`, `lcs_len`, `per_participant_lcs` | the blockade cell, through the ABI |

What is hard here:

* Failure of the recorder. A crash, a torn frame or a lost event must not look
  like a shorter or quieter execution.
* Late, repeated and misattributed inputs at the component: a response after
  this run's cancel, a clock read after the acknowledgment, a response whose
  goal is right and whose request is wrong.
* Replay into another build. The runner interleaves recorded inputs with new
  effects, refuses inputs whose request was never made, takes refused inputs
  back, and attributes effects to callbacks that started several steps before.
* Early answers. A candidate's property is evaluated in the middle of a step,
  while later lines of that step are still in the pipe.
* An adapter that dies, hangs or stops between two lines, and a reader thread
  that may be blocked in a full channel when it does.
* Two threads that hand one component back and forth through a flag and a
  condition variable, with spurious wakeups and a stop at any moment.
* Verdicts folded from several replays: a baseline that disagrees before a gap, a
  refusal, an early answer, and one exit code.
* Files that are checked in one place and trusted in another: manifest, expected
  hashes, recording, captured effects, build descriptions and artifacts, edited
  separately or together.
* Budgets and orders of the Wasm host: a cell that emits too much, too early or
  not at all; deliveries in any arrival order; a last tick that is not full.

`PROJECT.json` lists these as hazards, each with its line and the properties
aimed at it.

## 2. Modules

| Module | Models | Extends |
|---|---|---|
| `NativeFrames` | event types, kinds, marker tuples, envelopes and the three hashes; `WellFormed`, the definition of a recording | |
| `NativeStream` | `decode_stream`, one step per frame, and the checks after the loop | `NativeFrames` |
| `GoalClient` | the component: one action per handler, the dispatch in `Step` | `NativeFrames` |
| `GoalClientEnv` | the component under arbitrary inputs, with a bystander's record of what crossed the boundary | `GoalClient` |
| `Recorder` | `record`: one action per script entry, then the End marker | `GoalClient` |
| `Property` | `property_input` and `evaluate` as operators on a run: events, steps and effects as sets, scans as least and greatest ordinals | `GoalClient` |
| `Subsequences` | what is left of a sequence when positions are kept, as a recursive function that can be reasoned about | |
| `Runner` | the composition: record, then `replay` against an adapter process | `Recorder`, `Property`, `Subsequences` |
| `AdapterLines` | what the runner relies on: a queue of lines | |
| `AdapterPipe` | `AdapterProcess`: child, pipe, reader thread, channel, timeouts, kill; implements `AdapterLines` | |
| `Goals` | `normalization.rs` under both policies | |
| `Driver` | the reference driver against an adapter that may answer anything | `NativeFrames`, `Subsequences` |
| `RunCase` | `run_case`: what two replays come to | `Subsequences` |
| `Capsule` | a capsule directory under edits, `rook-verify` and `Case::load` | |
| `Builds` | case identity, build descriptions and artifacts under edits, and what is started | |
| `Coroutine` | the abstract coroutine of the Nav2 experiment | |
| `Handoff` | `control.hpp`; implements `Coroutine` | |
| `ReplayCore` | `rook-core`: order, chains, the echo decisions | |
| `CellHost` | the guest ABI and `replay_recording`, with any cell | `ReplayCore` |
| `EchoRun` | the default command with the echo-count cell | `CellHost` |
| `RobotRun` | `record` of `rmf.rs`: scripted robots and the moderator's cell | `ReplayCore` |
| `BagReorder` | `read_deliveries`, `reorder_lifecycle` | `ReplayCore` |
| `Conformance` | the scores of a bag replay | |
| `RookHost` | `main` of `rook-host`: its commands, composed of the stages above by `INSTANCE` | `ReplayCore` |
| `MCNativeStream`, `MCGoalClient`, `MCGoals`, `MCCapsule`, `MCRookHost` | the inputs of the runs | |
| `RunnerInvariants` | the inductive invariants of record and replay, for `Runner_proofs` | `Runner` |
| `FrameOrder_proofs` | the proofs about reading frames and matching goals | `NativeStream`, `Goals` |
| `GoalClient_proofs`, `Runner_proofs`, `Driver_proofs`, `RunCase_proofs` | the proofs about one module | that module |
| `Exchange_proofs` | the proofs about threads and messages: handoff, process pipe, robots, the order of a replay | `Handoff`, `AdapterPipe`, `RookHost` |
| `CaseFiles_proofs` | the proofs about edited files | `Capsule`, `Builds` |
| `Subsequences_proofs` | lemmas about sequences, for all proof modules that count or cut streams | `Subsequences` |

Conventions. A frame is a record; bytes are values, and `damage` says what a
byte-level reader would find wrong. Hashes are taken as collision free, so a
chain is the sequence of envelopes it commits; the observed time is not among
them. An optional value is a set with at most one member. A response's
`request` is the (channel, sequence) the runner resolved. Goal ids are the
issuance index, as in `Component::goal_id`; the all-zero id of a wildcard
cancel is `WILDCARD`.

Definitions that stand next to a mapped one and differ from it in one detail
(`EndMatchesUuid`, `NotAhead`, `DeadlinePassedLate`, `bound_by_goal_only`,
`PairedLate`, `MarkersWithoutGap`, `TurnTaken`, `SendOrLose`, `NeverBlocked`,
`EarlierByTick`, `AsRecorded` and so on) are faulty forms of it: the
change a plausible mistake in the code would make. They are not used by any
specification. Substituted for the real definition they break the property
`PROJECT.json` pairs them with, which shows that the property is about that
code.

### Correspondence

*Reader.* `ReadFrame` and `RefuseFrame` are the two outcomes of one turn of the
loop; `FrameError` lists the early returns in the order of the code.
`decode_payload`'s five errors are one. `CloseStream` is the code after the
loop.

*Component.* `OnGoalCommand`, `OnClock` (with `SendGoal` and `PollDeadline` for
its two waiting states), `OnGoalResponse`, `OnResult`, `OnCancelResponse` are
the handlers; `outcome` is the returned `Outcome`. Nothing emits twice on one
channel in one step, so counting per step equals counting per effect. The
layout of bodies has been checked by the reader, so the only decode error left
to a handler is a message whose serialization is not raw.

*Recorder.* `Serve` is one turn of the loop of `record`: push the input, step
the component, push the effects, remember the last goal and cancel. An input
that is not consumed ends the recording in an error (`bailed`).

*Adapter.* A step's lines appear at once. The adapter shares nothing with the
runner but the pipes, so this loses no behaviour the runner could see, except a
process that stops between two lines: that is `AdapterDies`, which drops any
suffix of the lines not yet received. A hang needs no action: no fairness is
assumed of the adapter.

*Runner.* Phases follow `replay`: starting, delivering (the head of the loop),
stepping (waiting for lines of one step), stopping (after the loop), finishing,
reaping (waiting for the exit), then done, error (a check failed) or lost
(nothing came within ten seconds, the pipe closed, or the exit was not clean).
`Abort` includes the kill in `Drop`. `ReceiveEffect` holds every check on an
effect line, the candidate's early evaluation included. `Conclude` is the code
after the finish loop. The startup identity is reduced to the variant, and the
property program is a call whose error makes the run an error.

*Adapter process.* `Read`, `ReadEnd`, `SendLine` and `SendFails` are the steps of
the reader thread; a line over the limit or without its newline is `Bad` and ends
the thread. `Receive` and `ReceiveTimesOut` are `line`, `Finish` polls the exit
code, `Drop` kills and forgets. `OnTheWay`, the lines between child and runner, is
the refinement mapping: module `Runner` uses the queue, this module shows that
pipe, thread and channel are one.

*Goals.* `New`, `EmitGoal` and `EmitCancel` change the state; `goal_response` and
`cancel_response` (`Goals::input`) do not, and are operators giving what a
recorded response would be turned into. `Equivalent` is the runner's test that a
recorded request was made by this run. The `Vec` of a client's recorded goals is
modelled by their places: its entry n is the goal with n goals of the client before it.

*Driver.* One action per arm of the loop of `replay` and per kind of line.
`Issued`, `Authorized` and `EffectAllowed` are its checks; every line the adapter
could send instead is an `Error`.

*Commands.* A replay is reduced to what it leaves behind: the stream, the reason
it stopped and the position. `EndBaseline` and `EndCandidate` are the two halves
of `run_case`; `baseline_mismatch`, `verify_code` and `test_code` are its
decisions.

*Capsule and builds.* A content stands for its bytes and its hash. What a replay
decides is a function of the cell, of the angle in `params` and of the deliveries,
and undefined where the cell traps. The two loaders
are operators that give the verdict with the order of their early returns. Edits
happen before a program starts, one file, manifest line or description entry at a
time.

*Handoff.* One action per critical section. A thread that waits for the condition
variable is woken by `Notified`, or by nothing at all (`WakeCaller`, `WakeWorker`:
the spurious wakeups), and rechecks its predicate. `fate` is a history
variable: how the operation ended. The client code that runs on the worker is an
operation that may pause, return or throw.

*Wasm host.* `Emit`, `Rand`, `Log` and `Trap` are the ABI calls with an effect, in
any order and with any arguments, from `rook_init` too; `EchoMessage` and
`EchoStepEnds` are the calls the echo cell makes. `BeginTick` and `EndStep` are
`Cell::step`. In `RobotRun` there is one action per branch of `robot_messages`,
and the vendored moderator may publish any grants. `MoveCancel` is one pass of the
loop of `reorder_lifecycle`. `RookHost` starts each stage on any input of the form
the stage before hands on, because the stages of a command run one after another
and share no state.

## 3. Runs

| Run | Config | States | Shows |
|---|---|---|---|
| `reader` | `MCNativeStream.cfg` | 38,382 | the reader against 84 recordings and everything that can happen to them |
| `reader_missing_event` | `NativeStream_missing.cfg` | stops at the counterexample | a divergence, below |
| `component` | `MCGoalClient.cfg` | 142,818 | the four builds under arbitrary inputs |
| `replay` | `Runner.cfg` | 324,281 | record, then replay, with failing adapters |
| `handoff` | `Handoff.cfg` | 108 | the two threads of the Nav2 experiment |
| `pipe` | `AdapterPipe.cfg` | 4,750 | the adapter process and its reader thread |
| `goal_ids` | `MCGoals.cfg` | 69,414 | goal correspondence under both policies |
| `driver` | `Driver.cfg` | 933,842 | the reference driver against any adapter |
| `commands` | `RunCase.cfg` | 4,659,677 | `rook verify` and `rook test` |
| `capsule` | `MCCapsule.cfg` | 7,077,452 | edited capsules, two programs |
| `builds` | `Builds.cfg` | 217,473 | edited build descriptions and artifacts |
| `rook_host` | `MCRookHost.cfg` | 2,469,778 | the commands of `rook-host` |

`reader`. `TypeOK`; `DecidesWellFormed` (`AcceptedIsWellFormed` and
`RefusedIsIllFormed`) compares the one-pass reader with `WellFormed`; `NeverAShorterRecording` is the crash rule;
`TamperedIsRefused` is about losses, duplicates and overtaking before the
recorder numbered the frames; `InterleavingCommitted` is what the hashes must
tell apart. Bound: three events between the markers, from four types on three
sources. Two events of one source with one of another between them need three.

`component`. `TimeoutCancels` says which goals each build cancels, against the
bystander's own record of expired deadlines; `AckExcludesTimeout` that a goal is
settled one way only; `RequestsDistinct` that ids and sequences are never
reused; `ResponsesCorrelate` (`ResponseBound` and `RefusedExactlyAfterCancel`) what a
consumed response was, and that a response is refused exactly while the cancel of its
goal is open (`answered` is the bystander's note of the cancels that were answered;
after that the response is only not consumed). Bound: ordinals up to 6, so seven inputs, enough for a
goal to time out and a second one to be answered. Clock values are a negative
one, 0, the deadline and the largest, whose deadline overflows.

`replay`. `StreamsDecode`: recording and replayed stream are well formed.
`SelfReplay`: the recorded build reproduces its recording, to the end, to the
gap or to the early answer. `EvidenceBelongs`: what counts as evidence is a
prefix of the recorded inputs, without refused ones and without anything past a
gap (`EvidenceIsPrefix`), and every response in it answers a request this run made
before it, the one it answered in the recording (`AnswersThisRun`): a response never
crosses into a build that asked something else. `VerdictMatchesBuild`: the answer never blames the fixed build and never
clears another one, for any recording and wherever it is cut.
`EarlyVerdictIsFinal`: an early answer is the one the whole evidence gives.
`HealthyAdapterAccepted`: the checks on lines reject no reference adapter of the
declared build; the one other error is `always-cancel` sending at a clock value
whose deadline the property program cannot compute. `Settles`: every replay
ends and leaves no process. Bound: scripts of six entries, which reach a second
goal with its response; clock values 0, the deadline, and one past the overflow.
A refusal by the component itself is modelled and not reached: a recording made by
`record` holds only inputs its build consumed, and a build that cancels where the
recorded one did not is answered at the cancel.
The case (builds, property, baseline or candidate) is chosen at launch.

`handoff`. `OneOwner`: caller and worker never both own the component.
`ErrorIsTheOperations`: an exception is rethrown to the call whose operation threw
it, although `launch` reuses the block. `CallsReturn`: no wakeup is lost, and
`stop` joins a worker that is paused on an observation nobody will supply.
`ImplementsCoroutine`: together the threads are a coroutine, its fairness included.
The only constant is the set of reasons to pause; the state is finite without
bounds, and the run checks deadlock.

`pipe`. `ImplementsLines`: no line is lost, doubled or overtaken, with channel and
pipe full. `NothingLeftBehind`: every receive returns, a line on its way is
received by a runner that keeps asking, and a dropped process leaves neither child
nor thread. Bounds: channel and pipe of two and six lines, so that both are full
with a line in the thread's hand and one more to come.

`goal_ids`. `ResponseReachesItsGoal`: a recorded response goes to the goal this run
issued at the same place of the same client, goals named in a cancel response stay
apart, and a cancel taken for a recorded one cancels the corresponding goal.
`AgreementIsRenaming`: normalized agreement is exactly a renaming of ids, one for one
within each client. Bounds:
two clients, three ids, three effects on either side: two overlapping goals and a
cancel, or an extra goal.

`driver`. `RunDecodes`, `InputsAreTheConsumedPrefix` and `EffectsHaveACause`: what a
returned run is, whatever the adapter said. Bounds: three frames between the
markers and two effects, enough for a request, its response and an effect after it.

`commands`. `VerifyCodeMeansAgreement`: exit 0 is agreement in everything, exit 2 is
a gap with nothing wrong before it. `PassRestsOnTheBaseline`: no pass, and no
inconclusive answer, over a baseline that disagrees with what it consumed. Bounds:
four recorded frames and three effects: an input, its effect, a response, a gap.

`capsule`. `ExpectedCommitsTheRun`: with the expected file as packed, no agreement
is reported on other evidence, and for a cell none on other decisions, whatever else
was rewritten and repinned. What `expected` does not commit may differ: the identity,
the cell, and `params`, whose angle is read into the replay; the run reaches a verified
capsule with another angle that leads to the packed decisions. Two cells, two angles
and two deliveries, one pair of which makes a cell trap;
`ProgramsAgree`: what `rook` loads is consistent and `rook-verify` does not
contradict it. Four edits rewrite and repin two files. `builds`,
`OnlyTheComponentDiffers`: between baseline and candidate nothing but the component
differs, the reported identities are those of the bytes that ran, and a candidate
that keeps to the rule is tested. Three edits change a description, its identity
entry and the file.

`rook_host`. `ReplayCommitsTheRun`: what the run hash of a replay commits.
`ArrivalOrderIrrelevant`: it is the same for every order the deliveries arrive in, and
so is the refusal of two deliveries of one key. `FourWayAgreement`: cell, host, native replay and
Wasm core agree, last tick full or not. `AdvancesWithinGrant`: robots move only
where granted. `ReorderIsLifecycle`: the loop computes the rule.
`HashOrderIsReplayOrder`: the rewritten ticks keep a reordered bag in its order when
it is hashed, which sorts by tick. `ScoreMeansAgreement`: what a full score says. Bounds: three
deliveries on two ticks with equal keys possible, budgets that run out by count and
by bytes; corpora of 0 to 13 events, four a tick, with room for 11; two fleets of
two robots and 20 ticks, in which each misbehaviour happens; bags of five
deliveries of two participants; two recorded and three replayed heartbeats.

Deadlock is checked in `handoff` only: elsewhere a reader, a component whose
ordinals are used up and a finished command all stop.

Fairness. `Handoff!FairSpec` is weakly fair to each step a running or woken thread
takes, which mutex and scheduler give; a notification wakes its waiter in the same
step, and spurious wakeups are not relied on. Nobody is assumed to call, and an
operation that runs is assumed to pause or end. `AdapterPipe!FairSpec` is weakly fair to the reader thread and to the
runner inside a call; nothing is assumed of the child or of the next call. In
`Runner`, `FairSpec` is weakly fair to the runner only. It is one sequential
thread, every wait in it (`recv_timeout`, the exit loop) ends after ten seconds,
and `GiveUp` is enabled whenever it waits for something that is not there.
Nothing is assumed of the adapter.

### Finding, and where the text says more than the code

`docs/internals/native-contract.md` section 3 says that per-source sequences
"make a missing or duplicated event from one endpoint a refusal at decode
time". The reader compares each sequence with the count so far and is told no
final count per source. If the last event of an endpoint never reaches the
recorder, which numbers ordinals and the End count itself, the stream is
accepted. `reader_missing_event` shows the shortest such stream;
`TamperedIsRefused` states what does hold.

Three more places where a comment or a document promises more than the code does.
No run is spent on them; the properties above state what does hold.

* `normalization.rs:112` ("No mapping is invented for it") and
  `native-contract.md:217`: the cancel of an extra goal keeps its raw id
  (`normalization.rs:157`). If the run gave that goal the id of a recorded one, the
  cancel equals the recorded cancel. `CancelsItsGoal` has this as its second case.
* `rook-core/src/lib.rs:252` says the host enforces that emits land on live ticks.
  `abi.rs:140` stamps the tick the host holds, which during `rook_init` is none; it
  is `hash_observed` that refuses the run afterwards, unless the first delivery has
  tick 0. `CapturedEmitsHash` has this case.
* `format-spec.md:132` says manifest entries with separators and symlinked entries
  are refused. `rook-verify` does so; `Case::load` (`case.rs:164-180`) accepts any
  entry whose canonical path stays inside the case.

## 4. Proofs

The proof modules hold for every value of the constants. Where a constant only
bounds a run of TLC (lines, edits, script length, recorded frames) the theorem says
that the property does not depend on it. Each inductive invariant was checked by TLC
on a small instance before it was proved.

`FrameOrder_proofs`, the reader: `ReaderDecides` says that the reader
accepts exactly the well-formed streams, of any length;
`CrashIsNeverShorter` follows, because the End marker of a recording occurs only
as its last frame. The inductive invariant says what the reader knows about the
frames behind its cursor (`PrefixInv`), that `sequences` counts them per source
(`SequencesInv`, by cardinality), that `session` is the first frame's body
(`SessionInv`) and what an End implies (`EndedInv`). `RefusedIsIllFormed` is part
of it: at a refusal the prefix facts show which clause of `WellFormed` fails.
`TamperingIsRefused` and `InterleavingIsCommitted` are then about recordings alone. A
repeated, overtaking or missing event leaves a frame whose number is one off the
frames of its source before it (`DuplicateRefused`, `OvertakeRefused`, `LossRefused`).
The envelopes a chain commits name their places by their ordinals, so equal trace
hashes (or digests) put the frames they are over in the same places, and the equal
payloads of the others fall into the places between (`OneSideDetermines`): the
interleaving is the same. Assumption: streams are sequences of frames over the constants.

`FrameOrder_proofs`, goal correspondence: `ResponsesReachTheirGoals` and
`AgreementMeansRenaming`, for every set of clients and ids, every recording and every
run. The code keeps a count per client, a set of ids and a table; the properties
speak of places in two streams. `GoalsInv` relates them: `counts` is the number of a
client's goals (`CountsInv`), `seen` is what was issued, each with an id of its own
(`SeenInv`), `pairs` holds exactly the goals at the same place of the same client
(`PairsInv`), and every effect is translated as the pairs of *now* would translate
it, although it was by the pairs of its time (`NormalizedInv`: a new pair is about an
id not seen before, so it touches no earlier cancel). Places grow along a channel
(`PlacesGrow`, by cardinality), so a place names one frame, and with the refusals of
duplicate ids the correspondence of a client is one to one (`OneToOne`).
Assumption: the zero id is no goal's id.

`GoalClient_proofs`: `CancelOnTimeout`, `AckXorTimeout`, `DistinctRequests`
and `ResponsesBelong`. None of the properties is inductive. The strengthening adds
that everything sent is below the counters and every callback below the next
ordinal (`Fresh`), that sends differ in goal, sequence and callback
(`SentDistinct`), what the waiting state says about the goal in flight
(`InFlight`: while the response is awaited the goal is neither acknowledged nor
cancelled nor expired, and its deadline is the send time plus the constant),
which states a build cannot be in (`ByVariant`), and that the one cancel without a
response is the one the component waits for (`OneCancelOpen`). Each handler is first reduced
to one of eight transitions; each transition is then shown to preserve the
invariant. Assumptions: the deadline is a positive natural number, ordinals are
natural, clock values integers, command payloads goals.

`Runner_proofs` (its invariants are in `RunnerInvariants`): `StreamsAreRecordings` and
`EvidenceBegins`, about recorder, component, adapter process and runner together, for scripts and replays of any
length and wherever the adapter dies. Neither property is inductive: that the run
decodes at the end is a fact about counters kept since the start. The invariant has
three parts. The recording (`RecordingInv`): while it is written its frames fit
their places and the recorder's counters are the numbers of frames per source; once
closed, the End marker is last and tells the length. The cursor (`CursorInv`). The
replay (`ReplayInv`, while a replay is under way): the run holds the inputs the
runner has reached, each once and in order (`Passed`), so every source but the
component counts in the run as in the recording up to there, the component by
`effect_sequences` and the session by `session_sequence` (`Counted`). `Working` says
what is known of the input in work, `Refusals` that a refused input is the last one
reached and was taken back. Assumption: the deadline is a positive natural number.

`Runner_proofs`, the answers: `VerdictsMatchBuilds` and `EarlyVerdictsAreFinal`, for
every recording, every build and every point where the evidence stops. Both follow from
`AnswerInv` (`AnswerInvariance`), which relates the component in the adapter to what the
property program would be given. `Follows` says what a build in a given state has left
behind in the evidence: no goal sent (`NoneSent`), or the first goal and its course in
this build (`OneSent`, `Course`: under way, timed out and then cancelled, acknowledged;
cancelled at once by `always-cancel`, never by `old`). At any moment some of that is
still in the pipe, so while a step is answered the claim is about the run with the lines
on their way added to it (`Ahead`, `Answering`). An answer that ends a delivery early is
final (`Final`): what can still come is later than what decided it, and is no input
(`Later`, `FinalStays`), so neither the goal that is judged nor its reads in time change.
The part about a build's course gives the answers it may get (`SentMatches`,
`UnsentMatches`). Nothing is claimed of an adapter that has died, since its replay ends
without an answer. Same assumption.

`Runner_proofs`, the recorded build: `RecordedBuildReproduces`, for every script, every
build and every end a replay can have. The property compares two executions of the
component that are never there together: the recorder's is over when the adapter's
begins. What joins them is the recording. A handler is a function of the build, of its
memory and of the input (`After`, `StepIs`), so a recording determines a sequence of
memories from frame to frame, in which each input takes one to the next by the effects
that stand behind it (`Traced`, `Serves`); while the recording grows the component is at
the end of this trace (`Writing`). In the replay the invariant is `SelfInv`: as long as
the adapter lives and runs the recorded build, the frames so far have the envelopes of
the recording (`Mirrors`), the component has the memory the trace gives for the place the
run has come to, and the lines on their way are the effects that stand next in the
recording, all of them (`Owing`). A recorded response finds the request it names and
this run has issued it (`OwnRequest`): goals are paired by place, and equal prefixes have
the same goals in the same places (`GoalsAlike`). The End marker agrees because its
sequence counts the session's frames and its body the others (`EndAlike`). Same
assumption.

`Driver_proofs`: `ReturnedRunDecodes`, `ReturnedInputs`, `ReturnedEffects`, for an
adapter that answers anything. The argument is the same, with one part more:
`Caused` says that every effect is attributed to a callback which an input already
in the run started, and that responses answer requests of this run. That a recorded
sequence number fits the run is a counting argument over both streams (`Counted`).
Assumption: the bounds are natural numbers.

`RunCase_proofs`: `VerifyCode` and `PassOverBaseline`. `Evidence`: while the baseline
is replayed its stream holds the inputs the cursor has passed and the one being
answered; `StopsWhere`: what the recording has where a replay stops; `KeptOutcome`:
what is kept of the baseline repeats both; `CodeDecided`: the code is a function of
it. That equal effects and equal inputs make equal streams needs the places of the
effects, which is where the exit code alone would say too little.

`CaseFiles_proofs`: `ExpectedCommits` and `TwoPrograms` about a capsule,
`ComponentAlone` about builds, after any number of edits. A verdict is a function of
the capsule and no edit follows it, so it stays what the program would say again
(`SaidOfTheCapsule`); the file names are those of the kind the capsule was packed as,
whatever its first line is relabelled to (`Shape`). For builds: what `run_case`
accepted stays as accepted (`Decided`), and a description keeps its three programs
(`Described`). Assumption: effects, angles, decisions and heartbeat streams are
functions of the files they are computed from (decisions where the cell does not
trap), and a hash commits what it is computed from.

`Exchange_proofs`, the handoff: `Ownership`, `ErrorDelivery` and `RefinesCoroutine`,
over `HandoffInv`. Ownership alone is not inductive, since a thread's place says
nothing of the other's. The strengthening says what each may conclude from where it
is: `CallerKnows` (in a call the worker exists, an owner has the flag set by it, and a
stop is under way exactly when the caller joins or is gone), `WorkerKnows` (what each
place of the worker implies for flag, stop and caller) and `EndKnown` (how the
operation ended agrees with the worker's place and the stored error).
`RefinesCoroutine` maps the places of the worker to the coroutine's state and shows
every step to be one of the coroutine's or a stutter; its fairness is left to TLC.
Assumption: no reason to pause is called "none" or "done".

`Exchange_proofs`, the process pipe: `LinesArrive`, that `AdapterPipe` implements
`AdapterLines` for every capacity of the channel and of the pipe and any number of
lines. The refinement maps pipe, the item the thread holds and the channel to one
queue, cut at the first item that is not a good line. `PipeInv` is what makes
the cut harmless: the end of file comes last and nothing is written behind it
(`EndIsLast`), and a runner that got a bad line asks for no other. Each step is then
an append, a take, a drop or a stutter of the queue (`WriteQueues`, `ReceiveTakes`,
`SameQueue`). Assumption: the bounds are natural numbers.

`Exchange_proofs`, the robots: `RobotsAdvanceWithinGrant`, for every fleet, path,
travel time, delay and number of cycles, whatever the moderator grants. A robot reads
its grant off a heartbeat that was decided for what the moderator knew then, so the
property is about two views that differ while a message is under way. `RecordInv`
says by how much: the moderator's record of a robot is the robot's own (`Synced`), or
one message that is still to be handled settles the difference (`Fits`, `WillSync`),
at most one for each robot; a message a robot never sent (a stale ready) changes
nothing. The messages of a tick are handled in the order of their keys, a permutation
of how they were sent, so none is lost in sorting. The theorem follows from what a
robot that moves on has just read (`Within`). Assumptions: `RookHostAssumption` (delays are
natural numbers, a path has at least one checkpoint, the heartbeat period is positive).

`Exchange_proofs`, the order of a replay: `ArrivalOrder` and `ReplayOrderHashed`. The
stable sort is defined by rank: a delivery goes to the place that is one past the
number of deliveries before it. A permutation of the arrivals maps these one to one,
so ranks agree unless two keys are equal; equal keys end up side by side whatever the
order (`DuplicatesMeet`), and then every order is refused. For a reordered bag
`RisenRises` shows that the recursive rewriting of the ticks exists and rises, over any
distance; rising ticks make the rank of a message its place (`SortedStays`), whatever
the moves before (`MovedMessages`). Assumption: the five parts of a delivery's key are
natural numbers.

`Subsequences_proofs` has what these rest on. The library's induction rules cannot
be used by the installed provers, since they take an operator. Induction on lengths
is carried out through the least element of a set of numbers instead (`LeastNumber`,
from the well-foundedness of inclusion of finite sets, then `UpToInduction`); it
shows that the recursive function behind `Keep` exists, is unique, and grows by an
element when its sequence does.

Only model-checked: of the runner `HealthyAdapterAccepted`, for which every check on a
line must be followed through a whole run; of the Wasm host `ReplayCommitsTheRun`,
`FourWayAgreement`, `ReorderIsLifecycle` and `ScoreMeansAgreement`, which say what a
fold or a recursive definition computes for every input (the chains, the order a loop
arrives at, the rows of `lcs_len`) and are compared with a reference definition over
bounded inputs; and `Settles`, `CallsReturn` and `NothingLeftBehind`, since liveness
under fairness is outside the prover's reach.

## 5. Not modelled, and the plan

Not modelled, and why:

* Byte layouts, encoders, key-value and line syntax: the models have one outcome
  for bytes that do not parse.
* Wasm execution, fuel and the parameter table: the runtime's. The blockade
  moderator and its cell are vendored C++; the moderator may grant anything. The
  tap is a patch of the vendored node.
* The Python adapter, property and capture scripts: the protocol and the rules are
  those of `Runner` and `Property`, and nothing runs concurrently in them.
* `verify_goldens`, dumps, reports, packers and documentation tools: file input and
  output without state of their own.
* Files replaced between being hashed and being opened again: `SECURITY.md` asks
  that the directory stay unchanged.
* `send` has no timeout: a child that does not read, with its pipe full, would hold
  the runner. Sizes of requests are not modelled.
* The stages of `rmf` and `rmf-bag` are not chained: what one hands to the next is
  any value of the right form.

Left in the plan:

1. A proof of `HealthyAdapterAccepted`, from the invariants of `Runner_proofs` and what
   the callbacks and counters of the component have left behind in the run.
2. An adapter in `Runner` other than the reference one (diagnostics before the send,
   effects out of turn), to bring the stale pending operations of the early
   evaluation within reach; `Driver` has such an adapter, without early answers.
3. The callback queue and the clocks of the Nav2 experiment behind `Handoff`.
