# A TLA+ model of DynamicMCPBench

DynamicMCPBench builds benchmark tasks out of recorded runs of LLM agents against live MCP servers, and
scores other agents on them by the effects of their calls. This directory holds TLA+ modules for the
parts of it that are hard to test: sessions and traces, resumable pipelines, launches that share a
directory, a dataset that several people merge, a web client with streams, and the rules that turn
what was recorded into tasks, scores and reports. TLC checks them on small instances; for all the
components with a state of their own the safety properties are proved for every instance.

```
tlc -config SessionActor.cfg SessionActor.tla        # model-check one run
tlapm SessionActorProofs.tla                         # check the proofs of one module (section 4 lists the eight)
```

## 1. The system

| Component | Code | State | Operations | Module |
|---|---|---|---|---|
| session actor | `dmcp/recorder.py` `_SessionActor` | task, `_ready` future, request queue, the item in flight, one future per request | `start`, `request`, `stop`, the loop of `_serve`, `_drain` | `SessionActor`, `RequestPort` |
| trace recorder | `dmcp/recorder.py`, `dmcp/trace.py` | actors by server, the trace, the stderr file | `__aenter__`, `_fingerprint`, `list_tools`, `call_tool`, `__aexit__` | `Recorder` |
| explorer, LLM client | `dmcp/explorer.py`, `llm.py` | messages, outcome, counters | one LLM turn after another, up to a budget | `Exploration` |
| distiller | `dmcp/distiller.py`, `families.py` | none | a trace and a model's answer become a spec | `Distill` |
| generate | `dmcp/cli.py` `generate`, `resume.py` | traces file, specs file, the set of seen goals | explore in a subprocess, distil, gate, append; `--resume` | `Generate`, `JsonlLog` |
| replay | `dmcp/replay.py` | cache of the reference's results, the candidate's trace | `call_tool` by tiers 1 to 3 or a miss | `Replay` |
| scorer, judge | `dmcp/evaluator.py`, `spec.py`, `judge.py` | a result being upgraded | checkpoints, minefields, ordering, taxonomy, SAE, gates, judge | `Scoring`, `Evaluation` |
| eval | `dmcp/cli.py` `evaluate` | output file, seen tasks | `--repeat`, `--resume` | `EvalResume` |
| verification | `dmcp/verify.py` | report per tool, harvested values | two passes of test calls | `Verify` |
| refresh | `dmcp/refresh.py`, `preflight.py`, `attribution.py` | outcome per call | re-execute a trace, decay per server | `Refresh` |
| crawl | `dmcp/discovery/`, `install.py`, `vet.py`, `manifest.py` | the manifest | page, dedup, install, smoke-test | `Discovery` |
| goals | `dmcp/goal_gen.py`, `goals.py` | goals file | propose, check, accept | `GoalGen` |
| tool pools, surface | `dmcp/pools.py`, `sampling.py`, `architecture.py`, `normalize.py` | none | catalog, distractors, pool; flat, retrieval, router | `ToolPool`, `Architecture` |
| corpus build | `scripts/build_corpus.py` | shard files | allocate, shard, select by depth | `CorpusMath` |
| advisor planning | `benchmark_advisor/planner.py`, `validator.py`, `v2_engine.py` | none | design, search, advise, revalidate | `Planning` |
| advisor launch | `benchmark_advisor/v2_launch.py` | job table, output directories | launch, top up, select, evaluate, report | `LaunchJob` |
| reports | `dmcp/report.py`, `benchmark_advisor/v2_report.py`, `stats.py` | none | pass^k, tables, paired summary, statistical report | `Reports` |
| human agreement | `dmcp/baselines/rq4_subset.py`, `rq4_agreement.py` | annotation sheets | subset, consensus, kappa, alpha | `Agreement` |
| dataset merge | `scripts/merge_to_hf.py`, `release_hf.py` | parts and root files on the Hub | upload, list, download, union, push | `DatasetMerge` |
| studio | `dmcp-studio/backend`, `frontend` | cached traces, streams, UI store | explore, distil, score, leave, reset | `Studio` |

A recorder owns one session actor per server and talks to it through `request()`: a queue one way, a
future the other. The explorer (or `verify`, `refresh`, the studio) enters a recorder, makes calls and
leaves; the trace that remains goes to the distiller and, through the traces file, to `evaluate`, which
replays it for a candidate and scores the candidate's own trace. The commands of the pipeline meet only
in JSONL files that each of them opens for appending; launches of the advisor start those commands as
subprocesses, and contributors meet in the files of one Hub repository.

What is hard, and where the properties aim:

* coroutines that interleave at every `await` of the actor and the recorder: cancellation while booting,
  waiting or stopping; a session that breaks under a call; an answer that is too late; requests that
  race the sentinel of `stop()`;
* processes that end in every way between two writes: `generate` and `eval` are killed (with any prefix of
  their bytes on disk), raise or finish, and the next one goes by what it finds;
* several actors on the same files without a lock: two launches of one request, two contributors;
* a browser in which streams and answers that nobody withdraws meet clicks;
* decisions made twice or on partial data: the judge after tier 1, three self-consistency gates, a replayed
  world against the recorded one, a design judged by a score and by refusals, missing cells;
* counts that are kept in several places and must agree: outcomes and decay, shares and shards, tables.

`PROJECT.json` lists the hazards with their lines, those that no property covers included.

## 2. The modules

### SessionActor and RequestPort

One actor, its owner (the coroutine in `__aenter__`/`__aexit__`) and any number of requesters. asyncio
runs one coroutine at a time, so an action is the code from one `await` to the next:

| Code | Action |
|---|---|
| `start()` up to `await self._ready` / its return / its cancellation | `Start`, `StartReturns`, `CancelStart` |
| `session.initialize()` returns, `_ready.set_result` | `BootSucceeds` |
| `request()` up to `await fut`, with its early `RuntimeError` | `Submit` (one action: there is no await in between, the queue is unbounded) |
| the caller is cancelled at `await fut` | `Withdraw` |
| `queue.get()` returns the sentinel / an item (dropped if its future is done) | `TakeStop`, `TakeRequest` |
| the session call ends and its future still waits / does not | `Answered`, `AnsweredLate` |
| boot raises, or the transport cancels the body | `SessionBreaks` |
| the contexts have unwound; `_drain` in the handlers, end of the task | `TaskEnds` |
| `stop()` up to `await task` / its cancellation / its return | `StopBegins`, `CancelStop`, `StopReturns` |

`pc` is the place of the serving task, `fut` the futures, `inflight` the item taken off the queue; it
keeps the request when the session breaks under it, because nobody resolves that one.

`RequestPort` is what callers may rely on: a port that is opened and closed once; every future resolved
at most once - answered, refused, failed or withdrawn; and on closing at most one request left without
an answer. `SessionActor` implements it (`PortSpec`), by TLC and by proof. It is the interface
`Recorder` is written against.

### Recorder

`TraceRecorder` over the sessions of its servers: `Enter`, then for each server `Started` and
`Fingerprinted`, or `BootFails`, or `CancelEnter`; `Issue` for a call (a `KeyError` without a Step, a
refusal recorded at once, or a wait) that ends by `Returns`, `Raises` or `Cancel`, each recording its
Step in the `finally`, unless building the Step raises there: a model may write arguments that are no
JSON object (`Args`), of which an empty one is still sent and answered; `SessionDies` at any time; `BeginExit`, `StopActor`, `StoppedCleanly`,
`StopReturns` per actor and `Exited`. `actor.stop()` inside `BootFails` and `CancelEnter` is part of the
action: nobody else can see that actor. Calls are made by coroutines inside the `async with` body and
may still be waiting when the exit begins. `outcome` is history: what really became of each call.

### JsonlLog and Generate

`JsonlLog` is a file of lines: complete ones, which parse or not (`JUNK`), and a tail without a newline.
`Landed` appends rows; `KilledAfter` gives the files that a killed writer may leave, cut inside a row or
right before its newline; `RowsIn` is the tolerant reader of `resume.py`. `Generate` is `dmcp generate
--resume`, one process after the other over the same goals: `StartRun` reads the seen goals, `SkipSeen`,
`NoTrace` (a subprocess that timed out or crashed), `Explored`, `NoSpec` and `Distilled` are the ways
through the loop, `Finish`, `Raise` and `Kill` the ends. Each file has its own buffer, so a kill
leaves any prefix of each. A row that was cut inside a character cannot be decoded and stops any later
process before its first goal (`MayNotDecode`, `StartFails`).

### EvalResume

`dmcp eval --resume --repeat K` over a `JsonlLog` of its own: `StartEval` reads the seen tasks, `Skip` passes
over those and over tasks without a reference, `StartEvalFails` is an output that does not decode, `Repetition` is `_single_run` and its row, `TaskDone` the
end of a task, then the same three ends. A task with one row is done for good, so a kill in the middle
of its repetitions leaves it short: the report's pass^k is then over fewer runs than K
(`CutsAreBounded` says how many tasks can be affected, and that no other way affects any; `PassK` is
what the report makes of the rows). What `_single_run` does is the subject of `Replay` and `Evaluation`.
The candidate traces file is left out. Its process is that of `Generate`, so what both have is named for the command
(`evalRun`, `EvalSpec`).

### Scoring and Evaluation

`Scoring` is the tier-1 scorer as operators with the code's names. Data is what the properties tell
apart: a predicate on arguments is the set of argument classes it accepts, a predicate on texts a set of
texts; a checkpoint's id is its place in the spec (ids are unique in distilled specs), a step's id its
place in the trace (`StepIdsArePositions` of `Recorder`). `Evaluation` is one candidate run:
`Call`s, `EndRun` with a final message, `Score`, then the judge over the failed checkpoints in turn
(`PassThrough`, `JudgeYes`, `JudgeNo`) and `EndJudge`, which replaces results and verdict. The judge's
answer is arbitrary, its step id included. `PassThrough` also stands for a judge that does not answer.

### Replay

`Replay` extends `Evaluation`: the reference run is recorded against live servers whose results are arbitrary
(`LiveStep`); a success may leave no result (`bare`: its caller was cancelled); `Open` fills the cache from the rest; a candidate's `Call` of `Evaluation` is served by `ServeExact`,
`ServeClosest`, `Simulate` or `Miss`; the run ends and is scored by `Evaluation`'s own actions (`FinishRun`). The
judge, which reads nothing of the replay, is left to `Evaluation`. The similarity of two arguments is a table (a constant).
Results have text content: a result without is rendered as JSON together with the tags of the replay,
which the model does not distinguish. A simulator is there or not from the start.

### LaunchJob

A job is a thread and, while it waits for one, a child process. The thread: `StartCorpus`/`EndCorpus` around
`build_corpus.py`, `StartTopUp`/`EndTopUp`, `SelectSpecs` and `SelectTraces` (combine, keep the first row of each
task - `FirstOfEach` -, choose `target` of them by depth with `CorpusMath`; two files, written one after the
other), per model `StartEval`, `EndEval` (the results are read and deduplicated) and `WriteCopy`, then
`BuildReport`; `BuildFails`, `SelectFails` and `EvalFails` end it early. The child: the rows it has to append
are in `queue`, one buffer per file, and reach each file in order (`Lands`), or in two parts (`Begins`,
`Ends`) with rows of other processes in between. A child may be killed between any two of these, which is a
child that takes no more steps, and then leaves part of a row; what comes next is glued to it.

All jobs have the same request and therefore the same directory: `files` are the JSONL files that children
append to (specs and traces of the directory and its two top-ups, results of each model), `outputs` what the
threads write. A build generates what it generates: any number of tasks up to `MaxBuild`, distilled or not.
`Restart` of the server forgets the jobs and ends their threads, which are daemons; the children go on.
`owner`, `dedup[m].by` and `author` are history: whose selection and copies are in the directory, and who wrote
what follows the last newline of a file.

Coarser than the code: `SelectSpecs` reads its files (up to six) in one step, and an evaluation is given the
specs and traces that are there when it starts, although it reads the specs line by line while it runs. A
file that the threads write is written in one step, as is the pair of summary and report; `candidate_traces`
is left out. `read_text().splitlines()` also splits at U+2028 and its like, which JSON writes unescaped here.

### DatasetMerge

A run of `merge_to_hf.py --push`, one call to the Hub per action: `UploadSpecs`, `UploadTraces`, `List`,
`DownloadSpecs`/`DownloadTraces` per contributor in the order of their names, `StartPush` (build, which
refuses an empty dataset), four times `Push`. `DownloadFails` is a contributor with specs and no
traces yet; `Die` a refused call or a kill anywhere. The merge itself is a function of the parts
(`Built`). `alone` is history: nobody else has taken a step since this run listed the parts.

### Studio

One visitor's browser against the demo's backend. `ui` is the part of the store that streams can change,
`stream` the one open event stream and the place it has reached, `reqs` the requests that nobody can
withdraw. Clicks (`Enter`, `Go`, `SetMode`, `SetCandidate`, `ToggleEquiv`, and whatever closes a stream) interleave with
frames and answers. A live exploration may fail after any frame; the backend then replays the recorded
one on the same stream. The spec on display has equivalence sets of its own (`Recorded`, or one of `LiveSets`
after a live distillation), whose tools the visitor switches on and off (`MayToggle`); a score is always of the
recorded spec, which accepts of each of its sets the members that are named, or all if none is (`Override`,
`Accepted`). `spoiled` and `left` record the two ways in which the interface is known to
show something stale (section 5).

### The parts that are functions of their inputs

Fourteen parts have no actor of their own: they are operators that translate the code, and a run takes
one bounded input per step (`MCServers`: a state is one input of one kind; `MCAlgorithms` joins the kinds).
What a model, a server or a package manager answers is part of the input, so that these modules cover
failures and retries too. Iteration is by folds and recursive functions, in the order of the code.

| Module | Inputs (in) | What must hold of every input |
|---|---|---|
| `Refresh` (`MCServers`) | two traces, flaky and refusing servers, credentials, preflight on or off, retries | `DecayIsAccounted`: reports, summary and decay count each call once; a server is said to have changed only where it answered |
| `Verify` (`MCServers`) | three tools with every pair of outcomes, yields and uses | `ToolGraphIsEarned`: dependencies go from a tool that succeeded before to one that failed without its value; a hanging tool is not called again; the strict gate needs a success |
| `Discovery` (`MCServers`) | three records with packages, boot outcomes, failing pages, a limit | `CrawlIsSafeToRun`: what enters the manifest booted without credentials, under an identifier of its own, in a sandbox if it writes |
| `Exploration` (`MCCorpus`) | turns with faults, unknown tools, errors, budgets | `TurnsAreAnswered`: each call of a turn has its one answer before the next turn; the tallies agree with the conversation; out of budget means no answer |
| `Distill` (`MCCorpus`) | traces of up to three steps, answers of every shape | `SpecReflectsTrace`: servers are those of the successful calls, dynamism agrees with the coupling to state, and there is a spec only for a usable trace and answer, its minefields included |
| `CorpusMath` (`MCCorpus`) | totals, weights, shards, depths | `CorpusAddsUp`: a plan holds what was asked for, every share within one of exact; shards lose nothing; a selection has the asked size |
| `ToolPool`, `Architecture` (`MCCorpus`) | catalogs, strategies, pool sizes, seeds; levels, architectures, router answers | `PoolsAreExact`: no tool twice, the required ones always offered, as many as asked for where there are enough; what is presented is offered |
| `GoalGen` (`MCCorpus`) | servers that boot or not; repeated, invented, malformed proposals and ones that are no object | `GoalsFileIsValid`: ids are unique, servers are captured ones, the file loads, a malformed goal costs only itself |
| `Planning` (`MCReports`) | requests over budgets, modes, targets and overrides | `LaunchablePlanIsSound`: a launchable plan has no critical issue, is within budget and detects its effect; one that is not says why; validating it again agrees, and refuses it once edited to fractions that do not add up or rules nobody knows |
| `Reports` (`MCReports`) | result rows; outcome tensors with missing and repeated cells | `OutcomesAreReported`: tables add up, approval needs observed cells, a claim needs a margin that the interval clears |
| `Agreement` (`MCReports`) | verdicts of three people, tier-1 and judged results; strata | also `OutcomesAreReported`: ties are left out, no order of rows matters, agreement is complete exactly where no verdict differs; each stratum has its share |

## 3. The runs

| Run | Instance | What it shows |
|---|---|---|
| `session_actor` | 3 requests; fairness below | `ActorAccounted`, `ServedInOrder`, both liveness properties, and `PortSpec` |
| `session_actor_late_answer` | same | **violation** of `AnswerKeepsSession`: a late answer ends the session (`recorder.py:166`) |
| `recorder` | 2 servers, 2 overlapping calls, three shapes of arguments | `TraceIsFaithful`, `BootIsAccounted`, `LeftQuiet` |
| `generate` | 3 goals, 3 processes | one readable spec per goal with its trace; terminated rows survive; a finished run covers its goals |
| `eval_resume` | 4 tasks, 2 repetitions, 3 processes | the K runs of a task come from one process; cuts are bounded; a finished run is complete |
| `evaluation` | 5 specs, up to 3 calls | monotone, explained, nested scoring; what the judge cannot do |
| `replay` | references and candidates of up to 2 calls, 6 calls to choose from, results or none | the replayed world is fixed, recorded, adds nothing, and reaches the gated effects |
| `launch` | 2 jobs (symmetric), 2 models, target 1, 2 tasks, 1 row cut, restarts | one row per task and model; top-ups that suffice; the selection is reported or a model's results are warned of |
| `dataset_merge` | 3 runs of 2 contributors | the root is sound in every state, and an undisturbed run repairs it |
| `dataset_merge_race` | 2 runs of 2 contributors | **violation** of `RunsConverge` (`merge_to_hf.py:11-12`) |
| `studio` | 2 candidates, 3 tools, a recorded and two live equivalence sets, 3 epochs, explorations of one call | what is shown is one trace and one current verdict; explorations end |
| `algorithms` | every input of the bounded sets of section 2 | the ten properties of the table there |

Several names above are conjunctions of what a component owes: `ActorAccounted` of `PendingAccounted`,
`OnlyInflightLost` and `JoinedBeforeLeaving`; `ServedInOrder` of `NoOvertaking` and `CleanStopFailsNobody`;
`TraceIsFaithful` of one step per call, ids that are positions, and explained statuses; and so on. Each
includes the type invariant of its module.

The bounds. Three requests are one in flight, one queued behind it and one that arrives while the
session closes; a fourth is in the position of one of these. Two servers are one that boots and one that
boots, fails or is stopped next to it; two calls overlap or use a dead session. Three processes let the
damage of a kill meet a resumed process and that one's output a third, and three goals let a
process skip, lose and write one each; for `eval_resume` two repetitions are a first and a last one, and
of four tasks one is never run while three can be cut, glued and left whole. Three calls let each
checkpoint of an ordered pair be matched early or late and a wrong server be tried in between. Two
reference calls are two results of one call, or two similar calls; two candidate calls repeat one. Two
launches are one whose files another one finds, appends to and overwrites, or one whose orphan does; with a
target of one and builds of up to two tasks a corpus may be short, exact or too long, before and after a
top-up, and a selection leaves a task out. One row in two parts is a line that is broken by a kill, or by a
row of another child between its parts; the two tasks differ in depth and in having a trace that is found. Two runs
of one contributor replace a part, the third run has one that rivals it: the specs contain a
duplicate task, one that is not valid, one refuted by its own trace and one without a trace. In the studio
three epochs are the change to the live mode, an exploration and another one while an answer to the first is
under way; of the two live specs one shares a tool with the recorded one and one has nothing to edit. `MaxRuns` (twice),
`MaxSteps`, `MaxReference`, `MaxCalls`, `MaxTasks`, `MaxBuild`, `MaxCuts` and `MaxEpoch` are the only
bounds in guards.

Deadlock checking is off except in `studio`: the other modules are about something that ends.

Fairness is assumed by two runs. `session_actor`: `LoopFairness`, the event loop runs a coroutine that is
ready, and the code never blocks it; `ServerFairness`, a server boots or fails, and ends every call,
because transports end their calls on closing. There is none for the environment: nobody need
cancel, submit or stop anything. Without `ServerFairness` `stop()` can wait forever for a call that never
ends, since the code has no timeout there; callers that bound the wait (`verify.py:268`) cancel their
own future, not the call. `studio`: weak fairness of the frames of an open stream, because the backend's
queue is drained until its sentinel and a live run is bounded by its budget; no click is fair.

## 4. What is proved

| Proof module | About | Main theorems (the property of the runs each states) |
|---|---|---|
| `SessionActorProofs` | `SessionActor` | `NobodyForgotten` (`ActorAccounted`), `InOrder` (`ServedInOrder`), `Refinement` (`PortSpec`) |
| `RecorderProofs` | `Recorder` | `FaithfulTrace` (`TraceIsFaithful`), `LeavesQuiet` (`LeftQuiet`), `BootIsAlwaysAccounted` (`BootIsAccounted`) |
| `DatasetMergeProofs` | `DatasetMerge` | `RootStaysSound` (`RootIsSound`), `RunRepairs` (`UndisturbedRunRepairs`) |
| `JsonlLogProofs` | `JsonlLog` | lemmas: what closing and killing keep, add and lose |
| `ResumeProofs` | `Generate`, `EvalResume` | `CorpusIsSound` (`CorpusSound`), `RowsSurvive` (`TerminatedRowsSurvive`), `FinishedRunsCover` (`FinishedRunCovers`), `RunsAreSound` (`RunsSound`), `FinishedRunsComplete` (`FinishedRunCompletes`) |
| `StudioProofs` | `Studio` | `VerdictsAreCurrent` (`VerdictIsCurrent`), `ExplorationsAreShownWhole` (`TraceIsShownWhole`), `NothingSpinsUnfed` (`SpinsOnlyWhileStreaming`), `DistillationsAreOfTheLastTrace` (`DistillsTheLastTrace`) |
| `ScoringProofs` | `Scoring`, `Evaluation`, `Replay` | `VerdictIsSound` (`VerdictSound`), `JudgeFlipsEffectsOnly` (`JudgeOnlyFlipsEffects`), `ChecksNest` (`GatesNest`), `CallsUndoNothing` (`FurtherCallsUndoNothing`), `ReplayIsEvaluation`, `ReplayFaithful` (`ReplayIsFaithful`), `GatedEffectsReachable` (`GatedEffectsAreReachable`) |
| `LaunchJobProofs` | `LaunchJob`, with `CorpusMath` | `CorpusHasOneRowPerTask` (`OneRowPerTask`), `TargetIsMissedOnlyAfterTopUps` (`TopUpsSuffice`), `StandingSelectionIsReported` (`SelectionIsReported`); of `CorpusMath`: `AllocationAddsUp`, `PlanHoldsWhatWasAsked`, `ShardsPartitionGoals`, `DepthsGetTheirShare` |

Each module has a theorem that its inductive invariant (`IInv` in the module it is about) holds in every
reachable state; TLC has checked each `IInv` on the instance of the component's run. Bounds such as `MaxRuns`,
`MaxSteps` or `MaxEpoch` are arbitrary numbers in the theorems. No theorem assumes fairness.

`SessionActorProofs` proves, for every set `Requests` and distinct sentinels `NONE` and `STOP`
(`SentinelsDistinct`, the only assumption), without fairness:

* `TypeCorrect`, `Accounted`, `LostIsInflight`, `StopJoins` and their conjunction `NobodyForgotten`:
  `Spec => []ActorAccounted`;
* the action properties `CleanStop` and `Fifo`, together `InOrder` (`ServedInOrder`);
* `Refinement`: `Spec => PortSpec`.

The argument. None of the invariants is inductive alone. `PendingAccounted` says a waiting request
is queued or in flight; to keep it, an item must not be lost with the queue (so `QueueShape`: the queue
of a task that does not run is empty) nor overwritten in `inflight` (so `Holding`: while the task is idle
nothing is held). `CleanStop` needs that the sentinel is the last item and that nothing is accepted
behind it (`QueueShape` again), and `JoinedBeforeLeaving` needs `LifeCycle`. `IInv` is
the conjunction; `InitInv`, `OwnerInv`, `RequesterInv`, `TaskInv` prove it action by action,
and `Invariance` puts them together. That items are pairwise distinct is what lets the refinement
show that a resolved future is never resolved again and that at most one request is lost.

`RecorderProofs` proves, for every non-empty `Order` of distinct servers (`OrderListsServers`) and every
set `Calls`: `TypeCorrect`, `UniqueIds`, `ExactlyOneStep`, `LeavesQuiet` (`LeftQuiet`), `FaithfulTrace`
(`TraceIsFaithful`), `BootedIsCallable` (`BootedServersHaveSession`) and `BootIsAlwaysAccounted`
(`BootIsAccounted`).

The argument. The two properties of steps carry each other: an id is the last one plus one, which is the
length only because the ids so far are positions (`NextIdIsLength`), and from there
`RecordAppends` says all that the ends of calls with an object as arguments need; others append nothing. What a status says of a call is kept because
`Record` is the only writer of both (`RecordKeepsStatus`, `NextStatus`). `LeftQuiet` is not inductive: leaving
shows only that the loop over `actors` has ended. `RunningKnown` says who may run at each phase - the server
being booted and the actors already published; then the published ones; then those the exit loop has not
reached - and `LoopsInRange` that the loops stay inside their lists. Cancelling the boot leaves
this invariant for `aborted`, about which it says nothing (section 5). `BootedKnown` is the same idea for the
fingerprints: who is on record as booted is published, or was. For `BootAccounted` the loop of `__aenter__` carries
`Filed`: the servers it is done with are on exactly one of two lists, each in configuration order
(`BootIsFiled`; `CurrentIsNew` says the next server is on neither).

`DatasetMergeProofs` proves, for every sequence of contributors, every set of runs and every corpus
(`MergeAssumption`: a run's contributor is one of them and has specs and traces):

* `RootStaysSound`: `Spec => []RootIsSound`, however runs overlap, fail or are killed;
* `RunRepairs`: `Spec => UndisturbedRunRepairs`.

The argument. `MergeIsSound` is about the merge alone: places of specs are ordered, so the first admitted one
keeps every later one of its task out. `Sourced` ties the root to a run that pushed and keeps its parts,
which needs `InStages`: nothing is fetched after the build. `UpToDate` says that what an undisturbed run has
fetched is still what is uploaded, whole or its first half, and that what it has pushed is still there; the
step of another run ends its premise, the run's own steps keep it (`ListInv`, `DownloadInv`, `PushInv`). At
the fourth push nothing is missing, so what it has fetched are the parts themselves.

`JsonlLogProofs` is about a file alone, for any set of rows without the two marks `JUNK` and `EMPTY`
(`TwoMarks`: these differ). `LandedKeeps` and `KilledKeeps` say that complete lines stay where they are
(`Kept`) and no row appears that was not written; `LandedAfterLine` that closing after a newline adds just
the rows written, without harming a file that parses; `LandedLoses` and `KilledLoses` what an end may cost:
the row after the last newline, the first row written behind it, the row that was cut, and the rows not reached.

`ResumeProofs` is about the two commands with `--resume`, each proved from the lemmas about files. For `Generate`,
with every sequence of goals, repeated ones included (`GoalsAndRuns`; no row is a mark):
`CorpusSound` is not inductive: that a spec is never
repeated needs that what a process saw is still what the file holds (`AtWork`: the file grows only when
the process ends) and that its buffer has only goals that it did not see (`BufferedSpecs`). That each spec has
its trace needs the same of the buffers, and that nothing is glued (`WholeLines`): both files end in a
newline as long as nothing is killed, since a process that raises closes its files. `FinishedRunCovers`
follows from `BufferedSpecs` and `LandedAfterLine`.

For `EvalResume`, with every sequence of distinct tasks and any number of repetitions (`TasksAndRuns`; task ids are fresh, `distiller.py:439`). The hard part is
`CutsAreBounded`, at most one task cut per raise and two per kill, which counts something no single step
bounds: a kill may cut one task now, and the next process to write may glue its first row to the
torn line. `CutsAreAccounted` is a potential that pays for both in advance: the tasks that are cut, with the
one whose row is the unterminated tail, plus one while there is such a tail. An end that lands whole rows leaves
it (the glued row costs what the tail had paid for), a raise adds at most one task (`TaskByTask`: the
buffer has whole tasks but for the last), a kill at most that and a new tail. `Buffered` and `Counted`
say how far a process has come, which gives `FinishedRunCompletes`, and `OneRunPerTask` because a task
with a row on disk is skipped.

`StudioProofs` proves its four theorems for any candidates, tools, lengths and numbers of explorations
(`StudioAssumption`: there is a candidate, equivalence sets are non-empty sets of tools, those of the recorded spec
do not overlap, and `NONE` is nothing else). What is shown depends on where the
visitor is: `InPlace` says which view a stream belongs to, so that a click elsewhere has closed
it, `Listed` what an open exploration has listed, in each of the three sources it may have, `Judging` that
the scoring under way is of what is selected, and `Asking` that a distillation asked for since the last
exploration found that one's trace in the cache. With the recorded spec on display `Judging` also keeps a tool on in each
of its sets, which is what lets `OnIsAccepted` conclude that the scorer accepts just what is on: a set of which
none is named would count whole. The histories `left` and `spoiled` excuse only what section 5 reports.

`ScoringProofs` is about both users of `Scoring`. For `Evaluation`, with any set of well-formed specs, any steps
and any answers of the judge: `Tier1` is recomputed in every state, and `JudgedSoFar` says each result the judge
has passed by is tier 1's or a failed effect turned. `VerdictSound` then rests on lemmas about the scorer:
the step of a passed checkpoint is evidence (`CheckpointResults`), an ordering that holds is of calls
(`OrderIsOfCalls`), a failure is counted (`ErrorsCounted`), and `FirstStays` - the first match does not move
when the trace grows - for `CallsUndoNothing`. `Replay` (assumption `Similarities`: the table of similarities) first refines `Evaluation`: however a call is
served, one call is recorded that the cache explains (`ServedCall`), so that each step of a replay is a step of
the evaluation (`StepEvaluates`, `ReplayIsEvaluation`) and inherits its invariant; from there `VerdictSound` holds
of replays too (`ReplayVerdictIsSound`). `Answered` says that the tier and text of
a call are decided by the cache, and the cache is that of the first successes in the reference
(`CacheIsFirst`), so that equal calls have equal answers; the transfer of effects and values between
the two traces is `EffectPasses` and `ValuePasses`. `GatedEffectsReachable` is of references whose
successes have results: only these are in the cache. The first step of a list exists by the well-foundedness
of the natural numbers (`MinOfNats`).

`LaunchJobProofs` proves, for any set of jobs, any non-empty sequence of models, any target and any table of depths
and goals (`LaunchAssumption`; tasks are numbers, so no row is a mark, and every bound is arbitrary):
`CorpusHasOneRowPerTask`, `TargetIsMissedOnlyAfterTopUps` and `StandingSelectionIsReported`.

The argument. Jobs and orphans write to the same files in parts, so none of the three is inductive. What a step of a
child does to its file is stated once, by the three ways it can write (`BeginsDoes`, `EndsDoes`, `LandsDoes`): a part
is left at the end, the rest of it follows, or a row lands whole, each behind whatever is there. `ChildKeeps`
draws the conclusions, and the threads have a lemma per action. What each property needs is:

* `SpecsAreApart` and `SpecsAreFresh`, for the first two: no spec is in two of the directories or twice in one, in the
  file or still on its way, for a build numbers its specs anew (`NewNumbers`). `TailsAreTheirs` adds what a part at
  the end of a file can become: what its author has left of it fits, or another's row was glued to it and neither can be
  read.
* `CountsAreBacked`, for the second: what a job has counted is at most the lines that the files it will select
  from have (`Countable`), although others add to them in the meantime (`MoreToCount`). Where each of these files
  parses there are as many rows as lines, all different (`Reading`), so that what was counted can be selected
  (`SelectionOf`). A file with a broken line is the one exception that the theorem leaves: such a line counts
  and cannot be read.
* `SelectionIsCovered`, for the third: the job whose selection stands has, of the results of each model it is
  done with, every task it selected with its trace, or it has warned. At work on a model, each such task is `Safe`: its
  row is in the file, or its child holds it, or it was lost and the file has a line that nobody can make whole
  (`Broken`). No step of any child takes that away (`SafeStays`), and when the child is done the row is read or the
  line is counted as invalid (`SafeIsRead`). Another job's selection ends the premise.

All three rest on what `SelectByDepth`, `FirstOfEach` and `Filter` return. `Filter` is a recursive function of the
length; `Climb` (a set of numbers that has zero and every successor has them all) and `Iterates` (a function
defined from its value before is the one that the steps determine) are the induction and the recursion this takes,
both from the well-foundedness of the natural numbers. `Selection` then says that at most `target` rows
are chosen, none twice, all of them rows that were given, and `target` of them where there are as many - whatever
the shares by depth come to, since rows left out fill up (`NoLonger`: a sequence without repetition whose elements
are all in another is no longer than it).

The same module proves of `CorpusMath`, for all inputs, the four things `CorpusAddsUp` checks on small ones (they are
here because of the lemmas on `UpTo` and `Filter` and because the launches select with it):

* `AllocationAddsUp`: the largest remainders hand out exactly `total` slots, every key less than one away from its
  share, for any finite set of weights that are not all zero. Sums over a finite set are folds, which `SumSteps`
  shows to be what adding element by element gives (`AddOneByOne` is the induction over a finite set, from `Climb`).
  What the quotas leave is less than the number of keys with a remainder (`Quotients`), the keys ranked first are
  as many as are left over (`FirstOnes`: in a finite total order exactly r elements have fewer than r before them), and so
  the top-up ends at the total (`ToppedUpAddsUp`). The assumption `Sorts` is that `sorted` gives keys distinct places.
* `PlanHoldsWhatWasAsked`: the plan by complexity and strategy has `total` tasks, and each complexity as many as it was
  given, as soon as some strategy has a fraction or a default is there to take the rest (`StrategiesHaveWeights`);
  otherwise the code plans nothing, which the run checks.
* `ShardsPartitionGoals`: every goal is at exactly one place of exactly one shard (`RoundRobin`), and earlier shards
  have at most one goal more than later ones.
* `DepthsGetTheirShare`: the numbers wanted of each depth add up to the target and are less than one away from their
  share (`DesiredCounts`, because the most lacking depth is below its share as long as the sum is below the target,
  `MostLackingLacks`); so no group is cut off, and the selection holds of each depth as many as are wanted, or all there are.

Weights are natural numbers over a common denominator here and floating-point numbers in the code.

Only model-checked:

* the liveness properties (`EveryRequestResolved`, `StopReturnsEventually`, `ExplorationsEnd`): the proof
  system reaches neither fairness nor ENABLED;
* the ten properties of the fourteen pure parts, over their bounded inputs, except that the parts of `CorpusAddsUp` are
  proved as said: they are about what folds and recursive functions compute, and each such operator would need
  an argument like that of `Filter` of its own;
* `RunsConverge` and `AnswerKeepsSession`, which do not hold.

## 5. Divergences observed

Two runs show a disagreement between the code and its own text: the late answer (`recorder.py:166-167`) and
the merge race (`merge_to_hf.py:11-12, 109`). Two more are in the models, as steps that the properties allow for:

* A call whose arguments are no JSON object runs and leaves no step. `llm.py:291-294` does not check what it parses,
  `recorder.py:399` sends an empty list as `{}`, and the `finally` (417-429) then raises a validation error
  (`trace.py:132`) in place of the answer, which `explorer.py:211-213` turns into a message for the model;
  `recorder.py:206` says "records every interaction". `TraceIsFaithful` says which calls leave their step.
* A line that a kill cut inside a character stops every later `generate --resume` and `eval --resume` before it begins
  (`StartFails`): `resume.py:33` raises `UnicodeDecodeError`, and line 39 catches only the errors of JSON; `resume.py:11-13`
  says that the helper does not crash on "the very last byte of a previous run".

The following were met while modelling as well; the modules contain the
code's behaviour and the properties are stated around it.

* A boot that is cancelled leaves the sessions of the servers booted before running (`recorder.py:271`).
* The first row of a resumed `generate` is glued to a torn last line and lost (`cli.py:1757`, where
  `resume.py:9-10` says that at most the torn one is); `TerminatedRowsSurvive` and `FinishedRunCovers` say
  what is kept.
* After the judge the taxonomy stays that of tier 1 (`cli.py:2189`); wrong-server errors and the SAE rate are
  decided differently (`evaluator.py:420`); a tier-2 replay is recorded with the candidate's own arguments
  (`replay.py:315`); a success without a result passes the gate and is a miss on replay (212).
* A row of an evaluation that is glued to the broken line of one that was killed, or overlapped, is dropped by `_dedup_eval`
  with a warning in the log only (`v2_launch.py:464-471`), as `warned` in `LaunchJob`.
* `v2_launch.py`: the report states missing cells as 0 (667-668), and a leaderboard delta has the wrong sign
  when the second model ranks first (595).
* `v2_engine.py` 1076-1086: the best score may go to a refused design while a supported one exists;
  a regression without a margin is refused at design but its recommended design validates as launchable.
* `v2_report.py` 142-179: repeated cells can make more cells missing than there are; unreadable text values
  are dropped; a refused diagnostic report still allows descriptive claims.
* `report.py`: subset tables divide by all specs; pass^k may exceed pass@1 where repetitions are uneven.
* Crawl: dedup takes the first package without credentials (`cli.py:1462-1470`) where the installer prefers
  PyPI (`install.py:68-76`); names that sanitise alike make the manifest raise (`vet.py:98-103`).
* `goal_gen.py` 375: a proposal that is no object raises, and the goals that were accepted before it are lost.
* Studio: a score is always of the recorded spec, also while a live one is on display, and its verdicts are shown by index
  on that one's checkpoints (`app.py:207-217`, `Score.tsx:141-142`; `dmcp-studio/README.md:113` says that scoring is replayed).
* Studio: leaving a stage or choosing another candidate keeps a spinner on (`left`); a late distillation or an
  interrupted re-score leaves an old verdict (`spoiled`); live frames stay in front of the recorded ones.
* Tool names that contain `__` are routed wrongly (`llm.py:131`); a spec answer without a prompt raises a
  `KeyError` in the distiller; the share of alternates in a pool is rounded (`pools.py:9-11` says exact).
* `rq4_agreement.py` 147-160 leaves out every checkpoint the judge was asked about (its docstring,
  326-331, only those it decided); `rq4_subset.py` shuffles by `hash(str)`, which differs from process to
  process; with more strata than asked-for tasks the subset is larger.
* A router's answer that is a JSON list raises, and a router may choose a server without tools.

## 6. What is not modelled, and why

Prompts, wording, rendering, exports and citations; JSON-schema argument synthesis (`verify.py`) and wire
formats (`llm.py`, `providers.py`); `world.py` and `_mcp_compat.py`, which patch what the MCP library returns.
Price tables, learning curves, ablations and the baselines of the paper (`compare`, `failure_model`,
`graph_sampling`, `direct_generation`, `answer_match`) are sums, regressions and seeded walks over
finished results, without a protocol. The one-off scripts run the commands above. The v1 advisor service
shares planner and validator with v2. Argument and value predicates (`_field_match`,
`_value_predicate_matches`) are data here: sets of what they accept; `_detect_iae` counts failed value
checkpoints. The `raw` fields, times and latencies of steps, truncation, and transports other than by what
they may do (boot, answer, break) are left out. Several concurrent `generate` processes on one file are
outside the code's contract (`resume.py:15-17`), except where `LaunchJob` starts them. The strict loader of reference
traces (`cli.py:1855`), which refuses the torn file that `generate --resume` goes on with, concerns two commands that are modelled
apart.

Of the hazards in `PROJECT.json` seven have no property, with the reason in their note: four are losses that section 5
reports (the cancelled boot, the glued row, the call without a step, the file that does not decode); the judge's step id
(`judge.py:203`), the credit for similar arguments (`replay.py:315`) and the studio's fallback to another trace
(`live.py:228`) are followed by the models and excluded by no text that a property could state.

## 7. Plan

Done: the modules in the order of the first plan, from the session actor to the pure parts; the safety
properties of all components with a state of their own proved. Next, most important first:

1. The pure parts: lemmas about their operators that are not recursive (`Refresh`, `Architecture`, `Agreement`), and
   about recursive functions along the lines of `FilterProperties` and `SumSteps`.
2. An abstract specification of a resumable writer that `Generate` and `EvalResume` both implement.
3. `generate` and `eval` composed over one traces file, which covers the strict loader.
