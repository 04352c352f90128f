# TLA+ models of skills-sdk

This directory models `skills_sdk`: first the parts in which something happens (processes, tasks, timers, files and
directories that other programs also write), then the receipts that are handed from one part to the next and the verdicts
they rest on. The modules are checked with TLC on small instances; most of the safety and action properties
that TLC checks on those instances are also proved with TLAPS for every value of the constants. Paths below are relative to `src/skills_sdk/` of the repository unless they start with
`docs/`.

## The system

`skills_sdk` is a Python library with a command line that validates, evaluates and maintains agent skills and plugins.
Its functions take a request model and return an immutable result model whose validators refuse every record the code did not
mean to hand out. Two things make that hard to get right. Most functions read a directory that others may write, and
read it several times; and results are bound to each other by digests alone, so that a caller may combine results of
different packages, revisions and moments. Beside that there are child processes, adapters supplied by the host, and time.

| Component | State | Operations | Interacts with | Hard behaviour | What makes it correct |
| --- | --- | --- | --- | --- | --- |
| Entrypoint maintenance (`host/entrypoint.py`) | the runtime directory entry of SKILL.md or a sibling, uuid-named stage, backup and recovery entries, an advisory lock file in the temporary directory | `check_entrypoint`, `repair_entrypoint` | the file system; writers that ignore the lock; the CLI's `maintain` command | stale comparisons, renames between `open` and `exchange`, partial failures in every clean-up, death of the process | approved bytes only are published; prior and displaced bytes survive; the result says what happened |
| Bounded provider call (`providers/call.py`) | one call, an operation task, a stream pull, a teardown task, the set of pending tasks | `execute_provider_call` | the adapter supplied by the host; the caller, which may cancel | cancellation that is ignored, four deadlines, deferred teardown | late output is dropped, limits hold, cleanup does not race the adapter, cancellation remains cancellation, a receipt is always returned |
| Codex judge process (`providers/codex_judge.py`, `_codex_judge_channel.py`, `_codex_judge_supervisor.py`) | an asyncio task, a supervisor process with two threads and two locks, the target's process group, control, status and data pipes | `_run`; `assess`, `judge`, `cleanup` of the adapter | the operating system; the host, which calls `cleanup` at any time | two threads reporting on one pipe, stop racing launch, descendants that keep pipes open, cancellation during teardown | nothing of the group is alive after a clean return; verdicts come from the target; the call ends |
| Live selected case (`evaluation/live_selected_case.py`, `selected_case.py`) | one request, a provider receipt, a judge receipt | `execute_selected_case`, with or without judge | provider call, judge adapter, deterministic evaluation | judge timer against late answer, cleanup left running | a result claims no more than its receipts show |
| Matched campaigns (`evaluation/matched_*.py`) | a runtime budget per lane, a plugin guard, per-trial receipts | `execute_matched_lane`, comparison, calibration, feedback, hand-off | selected cases, provider calls | a budget charged across callbacks; a plugin that changes meanwhile | nothing starts past the limit; an edit that lasts is noticed; receipts are valid |
| Scoring and safety evidence (`evaluation/deterministic*.py`, `pre_execution_safety.py`, `plugin_safety.py`) | none; a plugin directory captured five times | score observations, screen sources, assess a package or a plugin before it is executed | package directories, evidence supplied by the host | screening, checklist and evidence made at different moments | a score follows from its observations; a clearance is about what was captured last |
| Quality check (`evaluation/quality_workflow.py`, `quality.py`, `coverage.py`, `scorer_*.py`) | two package directories, the stages so far | `check_local_quality` and its gates | content review, intake | either directory edited between any two stages | what passes was earned by the documents as they are |
| Content review worker (`evaluation/content_review.py`) | a child process, a socket, two deadlines | `execute_content_review` | the operating system, an offline adapter | hang, death, late answers, cancellation | a passing review is the adapter's own, in time, about the captured documents; the worker ends |
| Plugin quality (`evaluation/plugin_quality.py`, `validation/plugin_presentation.py`) | two slots, two worker threads, a plugin directory | `check_plugin_quality` | quality check, captures | cancelled callers, a full pool, shutdown, edits | slots are neither lost nor doubled; what passes is the plugin as captured last |
| Plugin normalization (`intake/plugin_normalization.py`) | a source directory, a directory being created, the destination's name | `normalize_standalone_skill_package` | intake, plugin validation, the file system | both trees edited, the name rebound, any step failing | what is receipted is the whole admitted skill and nothing else |
| Package and plugin validation (`validation/skill_package.py`, `plugin_capture.py`, `plugin_package.py`) | a tree being captured | `validate_skill_package`, `capture_plugin_source`, `validate_plugin_package` | the file system | a tree that changes while it is read | a plugin capture is the tree at one moment as far as metadata tell; verdicts satisfy their contracts |
| Packaging and registry (`packaging`, `distribution`) | none; receipts | build, harden, verify an archive, prepare | each other's receipts | receipts of different packages under one id, spoiled archives | what is prepared was built and hardened as one package |
| Lifecycle and runtime evidence (`lifecycle`, `models/runtime_evidence.py`) | the runtime lock, the record of observations | plan an installation; observe, roll back | the host adapter that carries plans out | stale, repeated and mislabelled observations | an entry of the lock was earned; outcomes and rollbacks are about what happened |
| Provider profiles, advisory, PR sweep, CLI, core, schemas | none | static data, record validation, rendering | each other | | not modelled |

`PROJECT.json` lists every component with what is modelled of it, and under `hazards` the places in the code that a test
would hardly reach, with the properties that cover them; the few no property covers carry a note.

## Modules

| Module | Role |
| --- | --- |
| `EntrypointRepair` | entrypoint maintenance: any number of concurrent calls, the file system, an uncooperative writer |
| `MCEntrypointRepair` | its small instances |
| `EntrypointRepairProofs` | its inductive invariant and theorems |
| `ProviderCall` | one bounded provider call and its four asyncio tasks |
| `ProviderCallProofs` | its inductive invariant, its theorems, and the refinement of `BoundedCall` |
| `MCProviderCall` | its small instances: the items a stream may deliver |
| `BoundedCall` | what a bounded provider call promises, without tasks and timers |
| `SelectedCase` | one live evaluation of a selected case, on top of `BoundedCall` |
| `MatchedLane` | one lane of a matched comparison: a budget and a plugin guard around many evaluations |
| `LiveEvaluationProofs` | the inductive invariants and theorems of `SelectedCase`, `MatchedLane`, `SuppliedCase` and scoring |
| `Evaluation` | scoring of supplied observations, both versions |
| `SafetyEvidence` | screening, review receipt, checklist and their assessment at execution |
| `SuppliedCase` | loading a selected case and executing it with supplied judge evidence, over a directory that is replaced |
| `MCSupplied`, `MCScoring` | values, and the run `scoring`: four machines, one chosen at the start |
| `JudgeSupervisor` | one judge process: parent task, supervisor threads, process group |
| `JudgeSupervisorProofs` | its inductive invariant and theorems, the refinement of `OwnedProcess`, and the hook beside it |
| `JudgeAdapter` | `JudgeSupervisor` composed with the adapter's `cleanup` hook |
| `OwnedProcess` | what one judge process promises, without pipes, threads and timers |
| `CodexJudge` | the whole adapter over owned processes: judgments that share it, retention, cleanup hooks |
| `CodexJudgeProofs` | its inductive invariant and theorem |
| `MCJudge` | the run `judge_process`: two machines |
| `SkillPackage` | the verdict over a captured skill and its contracts |
| `PluginCapture` | the capture of a tree beside a writer, system call by system call |
| `ReviewsProofs` | the inductive invariants and theorems of `PluginCapture`, `ReviewWorker` and `QualityWorkflow` |
| `ContentReview`, `Intake`, `Scenarios`, `Scorers` | the gates of the quality check, as operators, with their contracts |
| `ReviewWorker` | the isolated content review |
| `QualityWorkflow` | `check_local_quality`, on top of `ReviewWorker` and the gates |
| `MCReviews` | the run `reviews`: two machines |
| `PluginPackage`, `PluginPresentation` | verdicts over captures of a plugin, and over its images |
| `PluginQuality` | `check_plugin_quality`: callers, slots, worker threads, captures |
| `PluginNormalization` | a standalone skill becomes a plugin |
| `PluginSafety` | a plugin is assessed before it is executed |
| `Packaging`, `Registry`, `Lifecycle`, `RuntimeEvidence` | receipts from the build of a package to the observations of its installation, with their contracts |
| `Release` | a host that mixes receipts and adopts plans |
| `RuntimeHost` | a host adapter that carries plans out and supplies observations |
| `DistributionProofs` | the theorems of `Release` and of `RuntimeHost`, with the contracts of every receipt and plan |
| `PluginProofs` | the theorems of `PluginNormalization`, of `PluginSafety` and of `PluginQuality`, with the validations and presentations it retains; at its end the theorem about the five machines of `MCDistribution`, which it extends |
| `MCDistribution` | values, and the run `distribution`: five machines |

A run with several machines chooses one in its initial states; the variables of the others keep their first values, so that its state
space is the sum and not the product. Machines that share a run share modules.

Variables of a module come in groups: what the program keeps, what its environment keeps, and history variables that only
properties read. Definitions marked *Defect* are variants of the definition that follows them, each a plausible bug; no
next-state relation uses them. They show that a property can fail: substituted for the definition, they violate it.

### EntrypointRepair

Each member of `Ops` is one call in a process of its own; `pc[o]` names the next system call or block of `_publish`. The
file system is a map from inodes to contents and one variable per directory entry the code names. An inode is named by
its creator and is never reused. A digest is represented by the bytes it was computed from.

`_capture` is two steps, the opening of the name (`CaptureOpen`) and the reading of the open inode (in the action of the
line that called it), because another program may rebind the name in between; a write during the read is seen by the
`fstat` pair and is one of the failures of the step. Every step may fail, and then takes the `except` or `finally` path of
its place in the code. `Leave` records the result and goes to the first `finally` clause still to run: `RemoveOwned`
(the stage), then `Unlock`.

A write of a whole file is one step, with the torn outcome as an alternative; `exchange` (`renameatx_np`/`renameat2`),
`link`, `unlink` and `flock` are atomic as the kernel has them. The lock is the pair of a generation of the lock file and
the set of its holders, since a cleaner of the temporary directory may remove the file and thereby let a second call in.
Permission bits are a small set of modes with the sanitizing function `mode & 0o777` and the executable ones. After a
parent directory has been moved a call refuses at its next `_verify_parents`, and no new call begins, because the request's path would
name another directory. The writer does not touch the uuid names, which only the calls know.

Runs:

* `entrypoint_writer`: one call against three steps of the writer (replace, remove, edit in place, open and write later,
  move a parent, edit or replace the source). Three steps are enough for open, exchange and late write, and for replacing
  the target before and after the exchange. It shows that a result's evidence exists, that `repaired` means what it
  says, that bytes of the writer keep a name, and that only approved bytes are published.
* `entrypoint_repair`: two calls for the same drift, one writer step, one removal of the lock file, crashes anywhere. The
  prior bytes stay in the backup, the outcome decides, and no stage is left after a blocked call; that the lock excludes while its
  file stays is proved.
* `entrypoint_chain`: two calls on a supporting document, where the second is approved to replace what the first
  publishes, and a preview. Displaced files keep a name although the file that displaced them is displaced in turn;
  every call ends. Fairness is weak fairness of each running call: none of its steps waits for another (`LOCK_NB`). No
  crash is assumed away: a crashed call has ended. The writer does not write here (`MaxWrites` is 0): what a late
  write may do to a displaced inode is `ForeignUntouched` in `entrypoint_writer`, and the proofs for any number of
  writes.

Proved (`EntrypointRepairProofs`), for any set of calls, bytes and modes and any bounds: `TypeOK`, `OneMaintainer`, and every safety and
action property the runs check; only `EveryCallEnds` is model-checked alone. None of the properties is inductive, and two
invariants carry them.

* `Inv` (`PriorRetained`, `DisplacedKept`, `EvidenceExists`, `OutcomeDecides`, `OneMaintainer`) adds, for each call, what it knows
  at each program counter (`Local`: the source and current captures hold the requested digests, a call that may exchange has a
  complete snapshot, results that are on their way are already true), that no name or descriptor the writer or an exchange works
  on reaches a backup inode (`NoBackupExposed`), and that each holder of the lock is in its critical section and holders have
  distinct lock files (`LockInv`).
* `StageInv` (`StageDisposed`, `RepairedIsPublished`, `ForeignUntouched`, `PublishesApproved`) says of the other inode a call makes that
  nobody else has a name for it until it is exchanged (`StagePrivate`), and what the call knows of it (`Staged`): it holds the selected
  bytes before the exchange, the approved inode has taken its place afterwards, and at the end one of them was disposed of.

Both are shown preserved by a call's own step, by the steps of other calls (which touch only their own entries and the target), by the
writer and by the cleaner of the lock file. The two action properties follow from both invariants and from the frame of each step.

### ProviderCall

The four tasks are `pc` (the call), `op` with `runner` (the operation under the overall deadline, and where
`_run_complete` or `_run_stream` waits), `pull` (one `anext` under the idle deadline) and `cl` (the shielded teardown). An
action is what a task does between two suspension points, a timer, an answer of the adapter, or a cancellation by the
caller. Timers fire in any order once armed, so the model includes every choice of the four durations. The several event-loop turns that
an answer takes through nested tasks are one intermediate point, `settled`, at which a cancellation can still arrive.
Output is sizes; checks of a pull are the operators `BatchRefused`, `EventAccepted`, `Consumed`.

An adapter may take for ever and may go on after it is cancelled; `HookSwallows` says whether the selected hook may also
return normally after its cancellation.

`BoundedCall` states what remains for the code that awaits the call: it ends once; completed output with a successful
cleanup means that nothing of the call is running; a cancelled call returns no result; after the end work can only cease.
`KeepsPromise` is that specification under the mapping at the end of `ProviderCall`, in which a call is busy while its
operation, a pull, a hook or a teardown that is still to come is.

Runs:

* `provider_calls`: a completion adapter that may swallow cancellation, and a streaming one that does not; two cancellations;
  limits of three events, buffer 2, chunk 2 and output 5 against single events, empty batches and batches at and beyond the limits,
  so that each limit is met exactly and exceeded by one. `OutputEarned`: late text is dropped and what was consumed is within the limits.
  `CleanupNeverRaces`: cleanup waits for the work it follows. `KeepsPromise`: the tasks implement `BoundedCall`. `CallsEnd`: a receipt
  is returned whatever the adapter does, and a teardown deferred past it still happens. Fairness is the event loop's: it resumes
  ready tasks and its timers fire; the adapter is under no obligation. Only the second half of `CallsEnd` adds that the adapter
  lets go in the end (docs/api.md:593-597 promises no more). Three events are enough to start further pulls and to reach the event limit.
* `provider_race` and `provider_cancel` show the two findings below.

Proved (`ProviderCallProofs`), for every limit, set of items, adapter and number of cancellations: `OutputEarned`, `KeepsPromise` and
`CleanupNeverRaces`. The last has the hypothesis that a stream hook does not return normally after it was cancelled (`"stream" \notin
HookSwallows`), which `provider_race` shows to be needed; the others have none. `CallInv` goes by the suspension points: how far operation and pull
are (`Operated`), what was consumed (`Consuming`), what the call waits for (`Proceeding`) and the teardown (`TearingDown`), and which
cancellation is still owed (`Cancelled`). For the cleanup, `Drained` adds that a teardown that has begun its hook has seen both tasks end;
a swallowed cancellation is the one way in which a pull can start after that. The refinement maps each step to a
step of `BoundedCall` or to a stutter: the same action may end the call, let work go, or both. `CallsEnd` is model-checked.

Two calls that share an adapter are not modelled: the set of pending tasks is per call.

### SelectedCase

`pc` follows `_execute_selected_case_with_judge`: admission (validation, binding of the request, safety, the two adapters), the
provider call, the judge, its cleanup (`tidy`), the conversion of the evidence. The provider call is the one of
`BoundedCall`, so what is shown here holds for every implementation of it. Each hook of the judge is a task that
`_bounded_judge_wait` starts one event-loop turn after the evaluation asks for it (`scheduled`), that may be cancelled before its first
step (`dropped`), and that is not awaited once it has been cancelled: it may answer later or for ever run on. `callReq` and
`judgeReq` are the copies of the request that the adapters hold and may change while they run; validation of the
evidence, the digest of the output and the references' privacy are the refusing alternatives of `CallReturns` and
`Convert`. That an adapter may change its copy of the request while it runs matters to this route only.

Runs:

* `scoring`, first machine: every answer and every silence of the judge and its cleanup, two cancellations anywhere. `ScoreEarned`:
  a score rests on released output, a timely answer, a cleanup that returned None and unchanged requests, and leaves nothing
  running. `JudgeHandled`: the judge never runs beside the provider, and whoever asked the judge calls its cleanup unless a
  cancellation meets the cleanup itself. `CancellationFaithful`: a cancelled evaluation ends cancelled (unless the provider call
  reports a contract error, as in `provider_cancel`) and the judge cannot make it look cancelled. `RunsEnd`: the evaluation ends, under
  weak fairness of its own steps, of the loop, of the two timers, and of the provider call's return, which `CallsEnd` justifies; hooks
  owe nothing. Two cancellations are enough for one during the judge and one during its cleanup; a third finds the evaluation over.
* `selected_case_skip` shows the fourth finding below, with a single cancellation.

Proved (`LiveEvaluationProofs`), for any number of cancellations and whatever the hooks do: `ScoreEarned`, `JudgeHandled` and
`CancellationFaithful`. A hook that was given up may still run, so that the invariant `CaseInv` says of each task what can no longer change:
what the provider call left behind once it is over (`Called`), that the judge's hook and its cleanup are asked in that order (`Hooked`), and how
failure, cancellation and result follow from them at each suspension. `RunsEnd` is model-checked.

### MatchedLane

`pc` follows `_execute_matched_lane`: `preflight`, then for each trial `trial` (a guard of its own, asked at once), `provider` and
`judge` (inside the evaluation), `check` (guard and budget again), and after both trials of a pair `pair` and `record` (each
source once more, the clock, the append). An evaluation is that of `SelectedCase` reduced to what the lane wraps, the two
callbacks: it may fail at any time and leave its callbacks behind (they answer later, and still ask guard and budget), it judges after the
provider has answered, and it scores after the judge has (`ScoreEarned`, `JudgeHandled`); that it ends is `RunsEnd`.
A source is `bound`, `changed` or `unsafe` when `_PluginGuard.check` captures it. Both orders matter and are kept: the guard is asked
before the budget, the budget's reason is reported before the guard's. `CancelledError` leaves without a receipt.
The validators of `MatchedExecutionReceipt` are the operators `CoverageValid`, `BudgetValid` and `StatusValid`; digests,
judgments and the case order are left out of them.

Second machine of the run `scoring`: two pairs, a clock of three readings, two edits of the plugins, and six budgets (just sufficient
with a limit met early, late or never; one callback to spare; one too few; a cost bound). A receipt always passes its own
validation, although counts, pairs, time and reason are taken at different moments (`ReceiptValid`); no callback is attempted and nothing
recorded past the limit (`NothingAfterExpiry`); an edit that lasts keeps a lane from completing (`EditsNoticed`); the lane ends (`RunsEnd`), under weak fairness of the lane
and of the evaluation and none of the host's callbacks. Two pairs give a first pair that was recorded before a
failure and a failure in either variant of the second. Two edits allow a change and its undoing, the case in which nothing need be noticed.
The codes `matched_provider_budget_exhausted` and `matched_judge_budget_exhausted` are never reported after a passed
preflight, which demands enough callbacks for every trial. Each variant has its own plugin; one adapter per trial is assumed,
as `_require_trial_adapters` enforces.

Proved (`LiveEvaluationProofs`), for any number of cases, any limits, any clock and any edits: `ReceiptValid` and `NothingAfterExpiry`, from the
assumption `LaneAssumption` that there is a pair and that the limits are numbers. `LaneInv`
counts: the callbacks attempted are one of each kind for each trial that is done, and those of the trial in progress (`Counted`); two trials
make a pair (`Paired`); and a reason of the budget that was true when it was noted stays true (`Budgeted`). `EditsNoticed` and `RunsEnd` are model-checked.

### Evaluation, SafetyEvidence and SuppliedCase

`Evaluation` is scoring as the code does it, in both versions: findings in their order, observations grouped by case, the score as the
pair of passed and all cases and compared with the threshold as fractions. Fourth machine of `scoring`: 
small sets of cases and observations, each sound but for one defect (missing, repeated, foreign, of another candidate, with forbidden
commands or unproved). Part of `SuppliedEarned`: the receipts pass their own validation, a pass means that every case has an
observation that holds what the case wants, and the two versions give the same verdict where their rules coincide.

`SafetyEvidence` are the rules by which a source is screened and a review, a checklist and the screening are accepted for a candidate at a
moment. `SuppliedCase` is the route with supplied evidence: `step` follows `load_selected_case` (validate, read the evals document) and
`execute_selected_case` (revalidate the definition against the directory, collect the documents of the context, scan them, screen the
source, call the adapter, compare evidence and output). An action goes as far as the next read or await; another process may replace
the content of the directory in between, and time passes. What the host hands over is a sound request or one with a single defect, per definition.

Third machine of `scoring`: four contents of a package, replaced up to twice, three ticks. `SuppliedEarned`: a score is about the
content that was reloaded, the one whose safety was assessed is the same, its review was in time and covers what the content's own
files show, and it passes exactly if the text that came back holds what the case wants. (That loading and screening read the directory
separately is a hazard that the revalidated definition and the candidate of the safety evidence close.) The clock is read when the
safety is assessed, as in the code. The machine takes a bounded number of steps (`MaxReplacements`, `MaxTicks`) and deadlock is checked, so that it ends without fairness.

Proved (`LiveEvaluationProofs`): `SuppliedEarned` (`SuppliedIsEarned`), for any contents, requests, evidence, signatures, clock and number of replacements, and for any
submissions whose parts are each valid by themselves.

* `SuppliedInv` is the invariant of `SuppliedCase`. `InHand`: the definition was loaded from one content, and what was handed over belongs to it.
  `Cleared`: from the scan of the context on, the content read is that of the definition; from the screening on, the request has its candidate and prompt; and the call is made only with an
  assessment of that content whose review covers, in time, what its own files show (`SafetyAssessed`). No read is trusted for longer than the comparison after it.
* Scores are counted without induction. If no observation is refused, observations and cases correspond one to one, so that the places of the passed
  results are as many as the cases with an observation that shows what they want (`Cardinality` of two sets with a bijection). For the one
  case of a supplied execution (`OneScored`), the signals wanted are those of the semantic and of the deterministic assertions, whose ids never coincide (`SignalsShown`).
* `GivenInv` says the same of the submissions (`SubmitKeeps`).

The assumptions, which TLC evaluates: `None` is no code of a refusal and no text (`EvaluationAssumption`, `SafetyAssumption`, `SuppliedAssumption`); the ages are numbers (`AgeAssumption`); an evals document
that loads lists its assertions and their requirements, and a request names its provider, and its blocker if it is blocked, as their
models demand (`SuppliedAssumption`); what is submitted is a valid set, valid observations and a valid scorer (`SubmissionAssumption`).

### JudgeSupervisor, JudgeAdapter and CodexJudge

The parent's `pc` follows `_run`: launch, exchange, the `finally` clause up to its wait (`Stop`), the drain, done. `sup`
is the supervisor process, `main` and `reader` its threads, `transition` and `reporting` their locks; `group` is the live
part of the target's process group, `holders` the processes that keep the data pipes open. `status` is the status pipe
with the frames written and not read, `control` the parent's end of the control pipe. Deadlines are steps that may be
taken at any time in their scope. Standard output and standard error are one pipe, because the code waits for both; `send()` is
left out, since its failures are swallowed and it ends with the others. A failing `os.close` in `stop()` is left out.
The target may leave one child, which stands for any number of descendants in the group.

Somebody may end the supervisor alone at any moment. The parent knows of that end what the return code tells (`Sigkilled`): a death by
anything but SIGKILL is told from the kill of the group, a SIGKILL (`struck`) is not. The `stopping` frame narrows that down, since only a
supervisor about to kill its group writes it. What remains is `Undercut`: a SIGKILL from outside after the frame
(`_codex_judge_supervisor.py`:34) and before `os.killpg` in line 35. There `codex_judge.py`:342 sees the code it expects, the stop verifies and the
group lives. docs/api.md:655-657 disclaims such interference, so the properties except this one moment by name and no other.
A second cancellation that meets the wait for the four tasks (`codex_judge.py`:353) leaves the status pipe open (`DrainCancelled`).
`task.cancelling()`, which decides whether the hook cancels, counts a deadline's cancellation too while it is being delivered (`CleanupPasses`, `MayExpire`).

`OwnedProcess` is what the adapter sees of it: a call that launches, works, tears down and ends, how it ends, whether it
reports a teardown failure, whether anything of the group is alive, a cancellation that is on its way, and whether it was undercut. `Owned` in `JudgeSupervisor` is the
refinement mapping and `StaysOwned` the refinement: output comes from a process that is gone, a teardown that was not cut
short leaves nothing or reports a failure, unless the process was undercut while it was torn down, a cancellation that was asked for is how the call ends (also when it arrives while the
teardown of another outcome runs), and after the end a process can only cease.

`CodexJudge` is the adapter over owned processes. Each task makes one call, of `assess` or `judge`: the guards (`closed`, busy) as
`_busy`, `_assessment_task` and `_judge_task` decide them, the version probe, the judging process, removing the workspace,
the host's retention callback. A caller cancels a task at any moment; `cleanup` closes the adapter, cancels what is active unless it is being
cancelled, waits at most six seconds and reports what `_cleanup_error` remembers. Whether inputs bind, the version matches, the
deadline shared by the two processes is over, and the events decode, is a choice of success or failure. A callback that
itself calls `cleanup` is left out.

Runs:

* `judge_process`: anybody may kill the supervisor, and the host process, at any moment; two cancellations; the hook `cleanup()` called at
  any moment. A call that reports no cleanup failure leaves nothing alive, or was undercut (`ContainedOnReturn`); a returned verdict is the output of a
  target that exited with zero (`VerdictFromTarget`); the whole implements the owned process (`StaysOwned`), so that a cancellation
  remains one whatever fails afterwards; unless somebody ended the supervisor, the protocol never produces a cleanup failure of its own (`StopVerifiable`); a teardown that one cancellation started is not
  cut by the hook (`TeardownNotCut`; a caller that cancels twice cuts the wait itself, as asyncio has it); the call ends although the
  target need never exit, and the supervisor does not stay behind (`ProcessesEnd`). Fairness: the event loop runs, deadlines pass, both
  threads are scheduled; nothing of the target. The run does not promise that the target of a killed host is gone: the
  `stopping` frame is written before the group is killed, the write fails with `EPIPE` once nobody reads the status pipe, and the reader
  leaves with `os._exit(125)`. Second machine: two tasks and two hooks on one adapter, two cancellations of each task.
  `JudgmentsKept`: one task at a time owns a process; evidence is the observation of a process that is gone or was undercut, retained by the host; a task
  that was cancelled, by its caller or by a hook, ends cancelled; once a hook was called nothing goes on that was not cancelled or has failed by its deadline; a hook
  that succeeds finds no judgment active and no teardown failure of this adapter unreported, also one that was noted beside a
  cancellation long before. It does not say that every
  process is gone, which the finding below refutes. Two tasks are enough for one to overlap the other in each step, two hooks for one
  to arrive while the other waits.
* `judge_cleanup_race` shows the finding below.

Proved (`JudgeSupervisorProofs`), with and without interference, whether or not the host may die, and for any number of cancellations: `TypeOK`,
`ContainedOnReturn`, `VerdictFromTarget`, `CancellationRemains`, `StopVerifiable`. The invariant's main part is `Wire`:
while the parent listens and nobody has ended the supervisor, the number of frames ever written is determined by where the two threads
are, and a `stopping` frame can only be the last one. It rests on the reporting lock, which the reader keeps until the
group is killed. For a supervisor that was struck `Announced` takes its place: a `stopping` frame, written, on the pipe or read, is of a reader
that stands right before the kill or has killed, so that a stop that verifies and a SIGKILL are the kill of the group or `Undercut` (`Taken`). In the same module `ImplementsOwned` proves the refinement `StaysOwned` under the same assumption on the constants: every
step of the parent is a step of the owned process by the invariant (`Verdicts` for how the exchange ended, `Taken` for a
teardown that reports nothing), and every other step is the group's life or death, an undercut or a stutter. So what `CodexJudge` shows rests on a
process whose implementation is proved. `TeardownIsWhole` proves `TeardownNotCut` of the process with the hook beside it;
and `HookIsACaller` that the hook adds nothing a caller could not do: it cancels the task, so that all of the above holds with
the hook as well, wherever calls may be cancelled at all (`MaxCancels # 0`).

Proved (`CodexJudgeProofs`), for any number of tasks, hooks and cancellations: `JudgmentsKept`, by `JudgeInv`, which says of each task which
process it owns and whether a cancellation is on its way (`TaskKept`), and of each hook what it has cancelled and still waits for
(`HookKept`). `ProcessesEnd` is model-checked; `CleanupMeansStopped` is refuted below.

### PluginCapture

`capture_plugin_source` reads a tree through descriptors: it lists a directory, opens and reads its entries one after the other, compares
the metadata of each descriptor before and after, and at the end reopens every entry and compares identity and metadata again. An
action is one system call or a run of them that others cannot tell apart. The tree is `listing` (of each directory the
inode of each name), `bytes` and `meta`; a writer rewrites files and binds, removes and moves names at any moment. A change gives the
inode metadata it never had (`Shows`), or leaves them as they are (`Hides`): two writes of one size within a tick of the file system's clock
have one `st_ctime_ns`. `ties`, a history variable, has the metadata that stood for two states. `moment` remembers
the tree as it stood when the traversal was over.

`CaptureIsSnapshot`: what a completed capture delivers is that tree, but for the entries whose metadata were tied. The documentation
calls the capture no atomic snapshot (docs/api.md:226-228, 270-271 and 1116-1118), and it is none: neither pass sees a tied change. The
property says how far it falls short: such an entry, and it alone, may be of another moment; one file's hidden change does not let
another entry be wrong. Second machine of the run `reviews`: two directories, two files and a special file, two names,
two changes in all, shown or hidden; limits that the tree meets and one more entry exceeds.

Proved (`ReviewsProofs`), for any tree, names, limits, number of changes and ties: `Snapshot`. The property speaks of the final state only, so
that the inductive invariant `CaptureInv` has to say what the capture knows on the way: the paths found form a tree
below the root (`Shape`, `Placed`); each name of a listed directory is still to be visited, being read, or an entry (`Visits`, `Left`); and as
long as an inode has the metadata an entry recorded, and these are not tied, the entry tells its bytes, its names and its place (`Agrees`). `Between`
carries the last part from `moment` through the second pass, since whatever has not changed by the later comparison had not changed
at `moment` either. The modules about plugins below take a capture as one step: what they show, they show of trees in which no two changes
of an inode share metadata.

### ReviewWorker, QualityWorkflow and their gates

`ReviewWorker`: the parent's `pc` follows `execute_content_review`; the worker process writes packets (invoked, an answer, an error) to a socket and may
hang or die before and after each; the startup deadline and the review deadline, which begins when the packet that announces the
invocation is read, pass at any time. `Stop` is terminate, wait, kill, wait. The package may be edited at any time, the caller may cancel. A worker answers at most once.

A package, and the variable `tree`, is what one capture of the skill's directory sees. `_scan_files` reads file after file in a single pass,
so while others write that is a mixture of what the directory held meanwhile, and no more is claimed of it: "the package" of a property is
what a capture saw. `CandidateOf` is the candidate identity, a digest of the accepted files: a link, an unsafe file or a directory that changes
under the pass spoils the package and leaves its candidate as it was (`Linked` in `MCReviews` is such a twin), so that a candidate has at most one
valid package and any number of blocked ones (`ContentAssumption`). The documents of a package are those of the files it accepted.
A directory keeps its name.

`QualityWorkflow` is `check_local_quality`: intake, validation, scenario quality, coverage, scorers and calibration, the content review
(supplied, or observed by `ReviewWorker`), then both directories captured again. A gate (`Intake`, `Scenarios`, `Scorers`,
`ContentReview`) is an operator that returns a receipt, and beside it stands the receipt's contract, translated from the
model's validators and independent of the function that builds it. `Scenarios` has both forms of a release set, `cases` and `groups`. Where the
assessment of the scenarios has no answer (`Raises`), the check ends with the exception (`StageRaises`): a set with sound `cases` passes
`evaluation/quality.py`:408 whatever its `groups` are, which are read first in line 431, so that `groups: {a: null}` raises `TypeError` there and
`groups: {a: [1]}` in line 473; and `re.compile` gives up on some patterns with an `OverflowError` that line 174 does not catch. The separate, hash-bound read of
`evals.yaml` is part of the validation: when the file changed in between, the gate blocks as it does for a candidate that changed.
Texts are taken to be encodable; one with a lone surrogate could not be hashed.

Run `reviews`:

* the first machine is a quality check of one skill over a package that is edited twice and a baseline, with one cancellation. `ChecksEarned`: a review that passes is the
  adapter's own answer, in time, about all captured references and quoted from them; a check that passes is of the requested candidate, which
  is what the last capture saw and has all its stages proved by its documents. `QualityEnds`: the check ends and no worker is left,
  under weak fairness of the parent, of the start of the worker, of the two deadlines and of the kill; the adapter owes nothing.
* `AnswersHonest`: the answer of every check, and each receipt that it retains, is accepted by its contract, and a check that raises does so over
  an evals document with malformed groups or such a pattern (`QualityAnswers`, `EvalsMalformed`); and so is
  what each gate answers alone, over `Subjects`, some seventy packages with one defect each and another package at a later read, where
  a gate that passes is proved by the documents it read (`GatesHonest`).
* the second machine is `PluginCapture`.

Two edits of the package are enough for a change and its undoing, and for different contents at three captures. Scores are 0 to 3 with
one rationale sample in place of three. The deterministic stages are functions that return; their fairness says so.

Proved (`ReviewsProofs`), for any packages, documents, plans, calls and reviewers that satisfy `QualityAssumption` (lists are
sequences, limits are integers or absent, what is named exists), any number of edits at any moment and an adapter that does anything:

* `CoverageProves` and `CalibrationProves`, what a passing gate proves, for every package: the heart of what follows, and independent of
  the machine. The coverage holds although its three reads may see three packages; the calibration takes
  the declaration from a later read, and only of the same candidate.
* `ChecksAreEarned`. `ReviewInv` says of one review that the pipe carries a prefix of what the worker wrote (`Wire`), that the
  documents given are those of the bound candidate (`Given`), and that what was read is what was returned, in time (`Reported`,
  `Accepted`). `WorkflowInv` adds that the stages are those expected, in order, each about the candidate requested and each *the receipt of its gate
  about some package* (`Progress`, `StageTrue`). It cannot say more: an edit after a stage leaves nothing of the tree that the stage read but
  the name of the candidate in the receipt. That name ties the stages together, and the last capture, which passes and so is the package of just these
  files (`ValidCandidate`), ties it to the tree that it saw (`Kept`).
* `AnswersAreHonest`, of every answer, passing or not, and of every check that ends without one. The contracts of the gates hold of every package and every plan (`GatesAreHonest`); those of the
  review need `HonestInv`: whatever the adapter returned was written after the announcement that declared the reviewer and is read
  after it (`Heralded`), so that an answer without a reviewer cannot be returned. The contract of the result relates receipts with each other: the
  calibration with the declared scorer, the review with the captured files, the last captures with the first. They agree because all were made of the
  candidate, captures of one candidate agree, passing ones entirely (`CapturesAgree`), and where the last one was of another, the result says `candidate_changed` and leaves it out of the comparison. The last captures are of the
  directories requested because a directory keeps its name (`SameSource`). `AnswersInv` joins the three
  invariants.

### PluginPackage, PluginPresentation, PluginQuality, PluginNormalization and PluginSafety

`PluginPackage` is the verdict over the two captures a validation makes, `PluginPresentation` that over the images of a plugin, with the
approvals that a person gave. Data of a file is what the parsers of the repository would find in it.

`PluginQuality`: callers acquire one of two slots, submit their work to an executor of two threads, and may be cancelled; the
slot is released by the callback of the future, wherever the caller is by then. A piece of work captures the plugin, checks each
child and the presentation, stops at the first blocker and captures it again, while the plugin is rewritten. The executor may be
shut down. Text that may not be retained in the root's version is data; in what a child, the presentation or the whole result says it is a choice (`Withhold`).

`PluginNormalization`: `at` follows `normalize_standalone_skill_package`: intake, capture, making the destination, writing it entry by
entry, two captures for its validation by name, the source again, the directory through its descriptor, its name again. Every
step may fail. Others edit the source, edit what was created, and bind the destination's name to another directory. The parent of the
destination has no other writer that replaces its components, as docs/api.md:1120 demands, so that `os.mkdir` and the opening of what
it made are one step; the name may be rebound from then on, because the code looks it up again.

`PluginSafety`: an assessment against supplied evidence, over the five captures it makes (two verify the presented validation, one is screened,
two confirm it), with up to two rewrites in between; the clock is read once, at the start.

### Packaging, Registry, Lifecycle and RuntimeEvidence; Release and RuntimeHost

Receipts are records and a digest is the record it is taken of. Each module has the functions that build a receipt and the contract that the
receipt's validators enforce, both translated, so that either can be wrong. A code of a blocker stands for its message too: it is in
`CredentialShaped` when either would be redacted. The id of a package receipt begins with the package's name and a hyphen; a name in `CredentialStems` is
safe by itself and makes an id that is not (`PublicId`: `sk`, and `sk-` and a digest). `Release` is a host that builds, hardens, prepares, plans, adopts
and verifies archives in any order and with whatever receipts it holds. `RuntimeHost` is the adapter that carries plans out (external:
the SDK only plans and checks): it tells the truth about the locks it saw, but it may start from a stale plan, stop half way, report late, and
label an observation with another plan.

Run `distribution`:

* first machine, `Release`: seven sources (two packages, two revisions, three versions, two validation policies), archives spoiled in eight ways, two targets, so
  that the lock holds entries of a package for both. `LockEarned`: an entry of the runtime lock is one package of one revision that was built, passed hardening and was
  prepared under its own version with its own files, although build receipts of different revisions carry the same id. `ArchiveFaithful`: a passing
  archive holds the files of the expected receipt and no other. `AdoptionSettles`: planning again what was adopted changes nothing and
  leaves the entry of the other target alone.
* second, `RuntimeHost`: two releases, two installations. `EvidenceTraced`: an accepted outcome goes back to a completed
  installation of that candidate; an accepted rollback restores the lock from which the installation it names began.
* third, `PluginQuality`: two callers and one slot in place of two, so that a caller finds it taken, a plugin of two skills and two images
  that is rewritten once, and calls that are as they should be but for one thing. `SlotsKept`: a slot is held by exactly the work that was submitted and is not over. `PluginsEarned`: what passes is the plugin of the request
  as captured last.
* fourth, `PluginNormalization`: `PreparedFaithful`: what the created directory held when it was last captured is the wrapping of the
  admitted source, the destination's name still was that directory, and the validated skill is the one that was admitted.
* fifth, `PluginSafety`: `ClearedAsCaptured`: a plugin is cleared only with the files, the findings and the modes it had when it was captured last.

`ContractsHold` has `PluginsEarned` as one part, and says for all of them that what is handed out satisfies its own contract and that planning answers every lawful input:
the contract of a plan refuses what planning built (an exception in place of a blocked plan) only over a text that the lifecycle screens and
the registry does not: a host-shaped name or path, or the receipt id of a package named `sk` (`Stem` in `MCDistribution`), which the registry prepares
and `plan_runtime_install` raises over (`models/lifecycle.py`:104-107 and 164-171). Two of each thing are enough for a mix-up of two receipts, two revisions or two callers; these machines take a
bounded number of steps, except `Release`, whose properties are safety properties.

Proved (`DistributionProofs` and, of plugins, `PluginProofs`):

* `LockEarned` and `AdoptionSettles`, for any sources, requests, policies, targets and number of adoptions. `LockInv` says of the package, the hardening and
  the preparation in hand what each went through, and of the entry of a plan in hand, as of every entry of the lock, that it is earned. The lemma `Proposed` is the
  heart of both: a lock with one entry for each target and package that has been planned upon still has one, holds the
  planned entry and leaves the others; planned again, it is `no_change`. `HardeningBlocks`, `BlockersAreSound` and
  `PlansAreEarned` follow each of the refusals on the way from a built package to a plan.
* `ArchiveFaithful`, for any archives. A verdict is the first refusal of a list; that there is none means
  that no path comes twice (`PathsOnce`), so that the payload and the manifest, which are compared path by path, are the same files.
* `EvidenceTraced`, for any releases and `MaxInstalls \in Nat` (`HostAssumption`). `HostInv` says of the result, the undoing and the
  observation in hand which accepted installation each goes back to; a label that binds to another plan would have to have its digest (`OneIdentity`).
* `SlotsKept`, for any number of callers and any positive number of slots (`SlotAssumption`): the slots acquired are as many as the
  pieces of work that were submitted and are not over, and never more than there are (`SlotInv`), through cancellation, refusal by the executor and shutdown.
* `PreparedFaithful`, for any skills, orders, strangers and bounds. The heart is `SameAdmission`: what an intake says depends on the listing of the files alone, not
  on modes or empty directories, and a listing determines paths and bytes (`SameBytes`); so the source that was captured with the
  files of the intake is what was admitted, although the intake read its files at several moments. `NormInv` carries that through
  the writing, the validation by name and the three captures after it.
* `ClearedAsCaptured`, for any plugins, evidence and signatures. `SafetyInv` keeps that the supplied evidence is valid and that the screening is of some
  files with the supplied listing; the last validation was equal to the supplied one, which makes the two captures of it equal (`VerifiedIsFresh`) and their listing
  the supplied one; and files with one listing are screened alike (`SameFindings`), although they were read at another moment.

* `PluginsEarned` and `PluginAnswers`, two parts of `ContractsHold`, for any trees, calls, callers and rewrites that satisfy `PluginAssumption` (a capture has finitely many files, each below
  directories it captured; the children of a request are a list; the copy of a presentation is there). A job begins with one capture, reviews each child and
  the presentation at moments of their own, and captures again: `Reviewing` says of the evidence in hand what each of these found, and that all of it is about the first
  capture. A last capture that equals the first therefore inherits it. That the presentation, which captures four times itself, is about the same files follows
  from the digest of the modes it is bound to (`PresentedLawful`), and files with one listing have one manifest and one set of settings (`SameSettings`). For the answers, `ValidationsValid` shows that
  every validation keeps its contract, blocked or not, and `ChecksValid` that every check of a presentation does; each blocker then stands for what its stage retained (`Lawful`).
* `NormalizationAnswers` (`NormalizationsAnswer`), for any skills, orders, strangers and bounds: whatever fails, the receipt keeps its contract, and says that a candidate
  was created exactly if this call made the directory. `OrderInv` adds to `NormInv` what a receipt rests on: the order that the intake accepted, the skill that was taken,
  the two captures behind the validation it retains, and whether there is a directory. A prepared one must show the admitted lines, moved below the
  skill's directory, and one manifest that the order determines (`WrapLines`, `PreparedMatches`), although the validation captured them twice.
* `ReceiptsValid` (`ReceiptsKeepContracts`) and `PlanningAnswers` (`PlanningAlwaysAnswers`), for any trees, policies, requests, targets and locks. Each receipt is built by one function and
  judged by another. `ReceiptsInv` adds to `LockInv` that the package, the hardening and the preparation in hand and the entry of each plan keep their contracts;
  it is followed along the functions: a validation that blocks has a first finding (`ValidationsShow`), a build of it a blocker, a hardening counts every file once, and a plan, blocked or
  not, is lawful unless it shows a text that the lifecycle screens (`PlansAnswer`). Findings are flattened from a sequence of sequences by a recursive function; that it exists and drops
  or adds nothing missing is shown with a least counterexample (`JoinsExist`, `FlattenedComplete`), since induction is not available. The proof showed one text that the model's first
  statement had overlooked: the id of the candidate, which a plan shows as well. Of the three receipt ids a plan shows, those of preparations are digests (`PreparedSound`).
* `ContractsHold` (`ContractsAreKept`) itself, for the five machines that the run chooses from: `ContractsInv` is the invariant of the one that was chosen.

The theorems about plugins have hypotheses about the data: the paths of a skill are not empty (`Capturable`), a validation is a record and not `None`
(`Definite`), `None` is no record, no digest and no code (`NoneIsMissing`), times are numbers (`SafetyTimes`), and `None` is not the verdict `clear`. In those about releases two
hypotheses are about the representation and hold in every instance: `NoneIsNone`, the value `None` is no code and no
record, so no digest and no finding; and `ArchivesListed`, the entries of an archive are numbered from one. The contracts of plans and of normalization need two facts about
words: `PlannerWords`, the planner's own codes are texts that may be shown and `None` is none of its operations, and `CodesPresent`, `None` is no code of normalization.

## Findings

1. `provider_race`: the teardown of a provider call may call the adapter's `cleanup` while a stream pull is still draining,
   which call.py:578-579 and docs/api.md:590-591 exclude. The snapshot of pending tasks is taken before a factory that
   swallowed the overall cancellation starts its first pull.
2. `provider_cancel`: a cleanup hook that resolves to something other than None, or raises a `ContractError`, replaces the caller's `CancelledError`; docs/api.md:588
   says cancellation remains cancellation.
3. `judge_cleanup_race`: `cleanup()` cancels an assessment whose teardown runs because of a timeout or a failure, the teardown's wait
   is cut short, and `cleanup()` reports success while the process group is alive; docs/api.md:659-661 excludes that.
4. `selected_case_skip`: one cancellation of an evaluation, arriving between the judge's answer and the first step of the
   task in which its cleanup is called, cancels that task before it runs, and the host's cleanup hook is never called. docs/api.md:818-819 says each
   invoked adapter receives its cleanup, and the test named `test_cancelled_judge_still_cleans_up` covers the
   cancellation during the judge only.

## Plan

What would come next, in this order:

1. The comparison, calibration, feedback and hand-off of matched campaigns, on top of the receipts of `MatchedLane`, and the calibration of
   scorers with live calls (`evaluation/observed_calibration.py`).
2. `AtomicRepair` (approve, publish or refuse, keep the prior bytes), implemented by `EntrypointRepair`.
3. The advisory provider (`providers/fm_advisory.py`), whose child process resembles the judge's.

Theorems to come: the safety behind `EditsNoticed`, and the refinement of `AtomicRepair`. Every invariant that a run checks is proved. Every
module with a state machine is written without `RECURSIVE` operators so that it can be proved about.

What stays with TLC: liveness (`EveryCallEnds`, `CallsEnd`, `ProcessesEnd`, `RunsEnd`, `QualityEnds`, and `EditsNoticed`, a leads-to), which needs fairness and `ENABLED`.
Where a function over data is compared with its contract, the model counts: the size of a set of places needs no induction.

Proving changed the models where they could not be reasoned about, and nowhere what they say: guards of `CASE` arms that overlap, of which
the first was meant, became chains of `IF`; the entries of the lock that match are a set of indices instead of a subsequence;
an observation is an explicit record instead of a merge of two; `Verify` is guarded by the package that it reads; cases, rows and release sets are
counted by their places, the last case of a name is a choice of its place, and the known cases are those at given places (`At`)
instead of folds and selected subsequences; the gates alone are a property over the constant `Subjects` instead of a machine of the run; signals, commands, probes and matching cases are
sets and not sequences, since nothing that is compared depends on their order; the submissions to a scoring are a constant with an assumption; and the
`None` of `SelectedCase` and `BoundedCall` is called `Absent`, which keeps it apart from that of scoring.

## Assumptions and what is not modelled

* Data. Rendering, argument parsing, canonical JSON, hashing, YAML and Markdown parsing, JSON schemas and the validation of single
  record fields are reduced to equality or to membership in a set: a digest is the thing it is taken of, a document is what the parser finds
  in it, a text is a model value or the set of phrases it contains, and the patterns of credentials and host paths are the sets `Private`,
  `CredentialShaped` and `HostShaped`. Tests reach these functions; interleavings do not matter to them.
* Files. An inode is never reused. The modules that take the capture of a plugin as one step assume that two states of
  an inode differ in metadata; `PluginCapture` does not. In `EntrypointRepair` closing and unlocking the lock file
  succeed (`host/entrypoint.py`:398 and 433-439), and the names made of a fresh uuid are known to the call alone, so
  that the comparison and the unlink of `_remove_captured` are one step.
* Processes. `process.start()` of the review worker returns or fails (docs/api.md:320-322), so that `QualityEnds` says
  nothing of one that hangs. The worker pool of plugin quality is replaced after a fork; no model forks. Two provider
  calls that share an adapter are not modelled: the set of pending tasks is per call by design (docs/api.md:589), and
  sharing is left to the adapter's owner.
* Plugins. The image decoder is installed. The order in which selected documents are read for a provider is left out, as are the checks
  that a safety assessment's input is in canonical form.
* Windows is out: the judge and entrypoint maintenance refuse it. What an adapter, a target or a host does inside is external; the
  models allow whatever the interface allows.
* Not modelled: the comparison, calibration, feedback and hand-off of matched campaigns and the live calibration of scorers (functions of finished
  receipts, or loops over calls modelled elsewhere), local review admission, provider profiles (static data), the advisory provider,
  the PR sweep (a check of one JSON ledger), the comparison of runtime copies, the parse cache, the command line, schemas and scripts.
* Types. The modules with the most state have a type invariant, which is proved as a part of the inductive invariant; elsewhere the receipts' contracts,
  which say more than types do, take that place.
* Theorems. The constants are any sets and numbers that satisfy the named assumptions of the modules (`BoundAssumption`,
  `NoneAssumption`, `SupervisorAssumption`, `LaneAssumption`, `SlotAssumption`, `HostAssumption`, `QualityAssumption`, `ContentAssumption`, `PluginAssumption`, `SuppliedAssumption`, `ReleaseAssumption` (the scan of a package lists each path once, in order) and so on, which TLC evaluates on every run). Beyond them
  thirteen theorems have a hypothesis: `CleanupRacesNothing` (`HookSwallows`), `HookIsACaller` (`MaxCancels # 0`), `LockIsEarned`
  (`NoneIsNone`), `PassingArchives` (`NoneIsNone`, `ArchivesListed`), `PreparedIsAdmitted` (`Capturable`, `Definite`),
  `ClearedIsCaptured` (`SafetyTimes`, `None # "clear"`), `PassingPluginsEarned` and `PluginChecksAnswer` (`NoneIsMissing`), `NormalizationsAnswer` (`NoneIsMissing`, `CodesPresent`, `Capturable`),
  `ReceiptsKeepContracts` and `PlanningAlwaysAnswers` (`NoneIsNone`, `PlannerWords`), `ContractsAreKept` (all of these five), and `AnswersAreHonest` (`NoneIsNone` of `ReviewsProofs`: `None` is none of the reasons and stage
  names, and no receipt).

## Running

```
tlc -config EntrypointWriter.cfg MCEntrypointRepair.tla
tlapm EntrypointRepairProofs.tla
tlapm ProviderCallProofs.tla
tlapm LiveEvaluationProofs.tla
tlapm JudgeSupervisorProofs.tla
tlapm CodexJudgeProofs.tla
tlapm ReviewsProofs.tla
tlapm DistributionProofs.tla
tlapm PluginProofs.tla
```

`PROJECT.json` names the module, configuration and properties of each run, the definition that each mutant changes, and the source lines each
definition stands for.
