# A TLA+ model of the aemeath agent runtime

aemeath is a coding agent in Rust: a terminal UI, a runtime that drives runs of
a language model with tools, and the services around it (context, storage,
tasks, hooks, providers). This directory holds TLA+ specifications of the parts
that carry its own logic (the runtime, the storage protocol, the task lists, the
notification of background work), the configurations that model-check them with
TLC, and proofs that TLAPS checks.

All paths below are relative to `src/agent/features/runtime/src/` unless they
start with `src/`.

## 1. The system

| component | state | operations | talks to |
|---|---|---|---|
| Run aggregate (`domain/agent_run/`) | status, intent, steps with tool calls, pending interaction, termination reason, stop-hook count, drain epoch, queued terminal events | transition matrix, drain decisions, begin/complete step, tool calls, interactions, cancellation in three phases, termination, failure | called by the loop engine only |
| Active run registry (`application/run/active_registry.rs`) | per run: cancellation token, step scope with a child token, one control and whether it was delivered; the current main run | activate, register/clear a step, take a control, cancel, terminate, clear | launcher and engine on one side, clients on the other, one mutex |
| Loop engine (`application/loop_engine/`) | locals of `run_loop` and `execute_step`, pending interaction work | the loop: control, interrupt, input, step (compact, prepare, model, response, tools, hook), finalization | Run, registry, ports |
| Interaction coordinator, bridge (`loop_engine/interaction_*`, `application/interaction/`) | pending work of a round, one waiter per request | begin, answer, decline, drain | engine, UI |
| Tool round (`application/tool/coordination.rs`) | results, suspensions, approvals | fuse, policy, approval, execution | engine, tools |
| Session mailbox (`session/ingress.rs`) | channel of the UI, deferred events | next, drain, defer | session driver, input adapter |
| Run input buffer, adapter (`run_input_buffer.rs`, `input_strategy.rs`) | buffered messages, sealed, epoch, continuations | push, drain or seal, wait, withdraw, return the rest | engine, mailbox |
| Session driver, idle gate | which run is next | start conversation, manual run, wake-up run | mailbox, launcher |
| Tool execution supervisor (`application/tool/execution_supervisor.rs`) | per call: the spawned body, its token, the receipt in the session | dispatch, wait, cancel, time out, move to the background, close | tool round, background ledger |
| Background processes (`application/background_process/`) | ledger of records, logs, notified flags, wakeup signals, the saved ledger | register, stop, finish, save, restore, notify | supervisor, reminder pipeline, session driver |
| Reminder pipeline (`src/agent/features/context/`) | queued facts of a run, what was injected last, what is to be persisted | push, inject within a budget, compaction outcome, drain of keys | engine, background processes |
| Atomic datasets (`src/agent/features/storage/`) | directories of generations, shared members, stage, journal, marker | read, commit, promote, quarantine, delete, recover | session repository; one file lock |
| Task store (`src/agent/features/task/`) | tasks, batches, dependencies, counters, revision | create, edit, transition, delete, dependencies, archive, clear, snapshot | task tools, end of a run, resume |
| Stuck guard, sub-runs, model invocation, hooks | counters | | engine |
| Sessions and compaction, workflow, memory, project, config, provider, tools, audit, update, UI | their own | | through ports |

`PROJECT.json` lists all of them with their status and, under `hazards`, what is
hard to test in them and at which line.

What makes this code hard:

* **Two sides of one mutex.** A client cancels a step or terminates the run at
  any moment; the engine learns of it through a token at some places and
  through `take_control` at others. A cancellation must reach the step it was
  meant for and no other, and a termination must win over everything.
* **A state machine with two gates.** Transitions go through a matrix
  restricted by the run's intent, commands through a second table, and some
  commands change the run and the step one after the other.
* **Futures that are dropped.** A wait for input is raced with the answer to a
  question and with cancellation; the loser is dropped together with its local
  variables.
* **One message, many queues.** A message typed by the user may sit in the
  channel, in the mailbox, in a drain in progress, in the run's buffer, in the
  command queue, or in a batch the engine gives back; a run may be sealed,
  cancelled or ended while it is there.
* **Two epoch counters**, the run's and the buffer's, advanced by different
  code and compared at each drain.
* **A tool round with four kinds of calls** (run, blocked, questions,
  approvals), each with its own path to a final status.
* **Files and crashes.** A commit of a dataset is a dozen file operations; the
  process may die, an fsync may fail or a file may rot between any two, and the
  recovery, itself interruptible, has to find out what was meant.
* **Answers after the fact.** A tool that was answered with a placeholder ends
  later, in another task, after the run or the process; its end must reach the
  model once, by one of two routes that are chosen at a moment and used at
  another.
* **Derived state in two places**: dependencies and their inverse, receipts and
  ledger, batches and the current batch.

## 2. The modules

| module | models | proved in |
|---|---|---|
| `AgentRun` | the Run aggregate; `Next` calls its commands in any order | `AgentRunProofs` |
| `ActiveRunRegistry` | the registry; `RegistryNext` lets clients and launchers of several runs interleave | `ActiveRunRegistryProofs` |
| `LoopEngine` | the engine of a main run; EXTENDS `AgentRun`, INSTANCEs `ActiveRunRegistry` for one run | `LoopEngineProofs` |
| `RunInput` | mailbox, buffer, adapter, observer and the part of driver and engine that calls them | `RunInputProofs` |
| `InteractionBridge` | the bridge with the engines that wait there and the client that answers | `InteractionBridgeProofs` |
| `ToolSupervisor` | tool calls in the foreground and the background, receipts, ledger and logs | `BackgroundProofs` |
| `CompletionNotify` | the way of a completion to the model: notifiers, reminder pipeline, session driver | `BackgroundProofs` |
| `DatasetStore` | what a dataset promises: a current and a previous version | with `AtomicDataset` |
| `AtomicDataset` | the files of a dataset; implements `DatasetStore` | `AtomicDatasetProofs` |
| `TaskStore` | the task lists and their snapshot | `TaskStoreProofs` |
| `MC*` | the instances for TLC | |

### AgentRun

One action per command of `Run`. `Matrix(t, to)` is the transition matrix of
`Run::transition`, `IntentAllows` the restriction by intent, `CommandStatusAllowed` the second table; `Moves` is a
transition with its side effects (return status of a reflection, the terminal
event). A rejected command that changes nothing is a stuttering step. A command
that changes something *before* it is rejected has an action for that case
(for example the return status of a reflection is written before the matrix is
consulted). Steps and tool calls are functions from identities to a status,
with `"none"` for what does not exist; timestamps, texts and ids of models are
left out. The count of stop-hook blocks saturates at `MaxCount` (`usize::MAX`) and
knows no other limit: that no block follows the one beyond `MaxBlocks` is the
engine's doing, and stated there. `AgentRun` is also the abstract specification: it promises what a Run
is whatever its caller does, and `LoopEngine` is shown to implement it.

### ActiveRunRegistry

Each method holds the mutex for its whole body, so each is one action. A token
is a Boolean, and the token of a step is cancelled when its own flag or that of
its run is, as with child tokens. Only accepted requests change the state. One
guard comes from the caller: `SetMainActiveStep` is called with no step
registered, because `execute_step` clears its scope before it returns.

### LoopEngine

`pc` names the place in `run_loop_body` / `execute_step` the engine is at. One
step issues one command to the Run, so a client can act between any two of them.
`Try` is a command with its `?`: if the Run refuses it, the engine goes to
`"error"` and the history variable `refused` is set. What the ports return
(input, model, tools, hooks, compaction, fuse, policy) is a nondeterministic
choice, and `PortError` is the error each of them may return. `after` is the
place a cancellation or termination returns to. Bound: the number of steps is
limited by `StepId` (`MoreSteps`).

### RunInput

A message is a model value sent once. `deferred`, `source`, `inflight`,
`buffer`, `pendingInput` and `outcome` are the six places it can be in;
`sent`, `consumed`, `withdrawn`, `discarded` and `disturbances` are history: a
withdrawal gives back the texts of the buffer, and takes from the command queue also
the skill requests, which have no text to give back (`WithdrawAll`); a run that cannot
be created takes its input with it (`LaunchFails`). A drain is split
where the code awaits: `Collect` takes everything out of the mailbox,
`AdmitNext` looks at one event, `BeginQuery` / `FinishQuery` surround the await of
an immediate query. `InteractionAnswered`, `CancelStep` and `Interrupt` drop the
future, with `inflight`. `IdleStartsManualRun` starts a compaction or reflection,
whose batches the engine defers (`EngineDefers`). At the end of a run everything
goes back to the mailbox except queued `/reflect-now` commands: `Retains` picks
what stays, and may drop any of the commands.

### InteractionBridge

The oneshot channel of a request is split into what was sent (`channel`) and
where its receiver is (`receiver`: a local of the engine, the mailbox of the
execution state, or dropped), because the code moves the receiver: `Begin`
registers, `Publish` tells the client, `Store` puts the receiver in the mailbox,
`Select` takes it out for the biased select, and `InputArrives` puts it back.
`Reply` and `Cancel` may come at any moment for any published request, also of a
run that has ended. `queue` counts the calls of the round that wait behind the
current one. One of the runs has the port that refuses every request.

### ToolSupervisor

`stage` is the place of the task of a call, first the wait of the step, then the
detached driver. A body runs on its own and may end (or not) at any time. The
waits of the code (`select!` on result, cancellation, deadline, threshold) are
separate actions without priority, as in the code. Receipts (`ReceiptMay`) and
records (`RecordMay`) move along their own matrices; a write may fail
(`WriteFails`). A tool may also suspend; it then has an end and no output. The
deadline of the run drops the future of the whole round (`RoundDropped`): bodies go
on without anybody who waits for them, and drivers are tasks of their own. A restart loses all tasks and reads the saved ledger. Taking the
snapshot and writing it are two steps, as they are in `persist_snapshot`.

### CompletionNotify

One notifier per process, which chooses its route, peeks, marks, pushes or
signals, each under another lock; the engine of the current run, reduced to the
points where it builds a window, compacts, appends (or fails to, `AppendFails`) or is
cancelled; and the
session driver from the idle wait to the end of a run. Facts are the sets of
completions one peek returned. A window takes the entries of the queue that fit
in its budget (`BudgetUsed`, `Shown`); the others go back in their order
(`DeferInjection`). `told` and `lost` are history.

### AtomicDataset and DatasetStore

`DatasetStore` is the promise: `cur` and `prev`, a commit that moves one to the
other, a promotion that swaps them, and, after an error, a transaction in doubt
(`undo`) that is settled one way or the other. `call` is the operation of the caller
while its own part is executed, and nothing during recovery: a version is replaced
only by a commit or a promotion that was called, and dropped only by a quarantine of
that generation or a deletion. `AtomicDataset` is the adapter:
one step per file operation with its fsync, for every operation and for the
recovery that runs first at each entry. `Crash` drops what is in memory,
`Fails` and `QuarantineStepFails` are failing file operations, `Damage` makes a
content, a journal or a staged file of a transaction left behind unreadable; manifests
stay readable (section 6). The refinement maps `cur` to the version the journal names if
there is one, else to that of the primary: writing the journal is the commit
point, as the header of `dataset_filesystem.rs` says. `Calling` maps the holder of the lock,
from the end of its recovery to its commit point, to `call`.

### TaskStore

One action per command, each one critical section. Every command that stamps a
task reads the wall clock before it takes the lock, so stamps may reach the store out
of order, by a clock that is set back or by two calls that overtake each other (`At`,
`outOfOrder`). `Resume` takes the snapshot,
validates it as `TaskSnapshotData::prepare` does (`ValidSnapshot`,
`ValidTaskTimestamps`) and installs it: deleted tasks vanish and the reverse
index is rebuilt.

## 3. The runs

| run | expected | shows |
|---|---|---|
| `agent_run` | pass | all orders of the commands of a Run with two steps |
| `registry` | pass | two runs, two steps, all orders |
| `engine` | pass | the engine with clients between any two commands; refinement of `AgentRun`; cancellations and terminations complete |
| `input` | pass | three messages (one a skill request), two disturbances of any kind |
| `input_settles` | pass | every message is settled in the end |
| `input_query` | violation | a dropped drain loses messages |
| `dataset` | pass | two clients, crashes, errors and damage between any two file operations; refinement of `DatasetStore` |
| `supervisor` | pass | two calls between threshold, deadline, stop, failing writes and restart |
| `notify` | pass | two completions at any point of any number of runs |
| `notify_lost` | violation | a compaction drops a queued completion |
| `bridge` | pass | four requests of three runs, answered and cancelled at any time |
| `tasks` | pass | all orders of the commands on the task lists, with resumes |

The properties, with the question each one asks (an invariant whose name ends in
`OK` has the module's type invariant as its first part):

* `AtMostOneActiveStep`, `CancellationPhases`, `AbortClosesSteps`: does the run
  agree with its steps, in the middle of a cancellation, a termination or a
  failure?
* `SinglePurposeNeverInvokesModel`, `ReflectionHasReturn`: can a long order of
  legal calls bring a manual run to a model call, or a reflection to its end
  with nowhere to return to?
* `TerminalOnce`: is a terminal status left, or its event pushed twice?
* `RegistryOK` (`CurrentMainRegistered`, `ControlMatchesScope`),
  `TerminateSticks`, `ControlDeliveredOnce`: does a control hit the step it was
  meant for, survive until it is delivered, and get delivered once?
* `RefusedOnlyInToolRound`: which of the engine's many `?` on Run commands can
  fire? Only those at the end of two kinds of tool round (see findings).
* `EngineOK` (`DrainsOnlyWhenIdle`, `ExhaustedFails`), `TerminatedOnlyOnRequest`,
  `ExitIsSettled`: does the engine drain while a step is open, go on after a stop hook
  blocked once too often, end a run as terminated because a *step* was cancelled, or
  return with a terminal event still queued?
* `ImplementsRun`: every engine step is a step of `AgentRun`.
* `ControlsComplete` (`CancelCompletes`, `TerminationCompletes`): is a cancelled
  step left, and does a terminated run end, also while it waits for the user?
* `NeverDuplicated`, `OnlyKnownLosses`, `OrderKept`, `EveryMessageSettled`: is each
  message seen once, in order, or given back, where exactly can one be lost, and is
  any left when the session has shut down? `InputOK` (`SealedMeansEmpty`,
  `EpochsAgree`): is one stranded in a sealed buffer, and do the two epochs agree
  whenever the engine asks?
* `WaitsOnLiveRequest`, `BridgeOK` (`NoStrayRequest`): can a run wait for a request
  nobody can answer any more, or leave one behind while it goes on?
  `ResolvedOnce`, `AcceptedIsTaken`: is a waiter resolved twice, or an answer
  accepted and lost?
* `SomeoneFinishes` (`PlaceholderKept`, `RunningHasTask`): is there always somebody
  who will finish what the model was promised and the ledger shows as running?
  `BooksAgree`: do receipt and ledger tell the same end? `SupervisorOK`
  (`LogHoldsOutputOnce`), `EveryCallCloses`.
* `NotifyOK` (`DroppedOnlyThere`, `NeverForgotten`): where exactly can a completion
  be marked as delivered and be gone, and can one wait between runs without anybody
  having been signalled? `EveryCompletionTold`, `WakeupsStop`: is it told in the
  end, without wakeups for ever?
* `NothingDangling`: can a manifest, now or after any crash, reference a content
  that was collected or never published? `DatasetOK` (`CondemnedNeverServed`): can
  a half-finished quarantine reopen what it condemned? `CommitOnlyOnExpected`: is
  an update lost? `ImplementsStore`: does recovery take a certain transaction
  back, or drop a version nobody asked it to drop? `PendingRecovered`: is a journal left behind for ever?
* `GraphCoherent`, `TaskStoreOK` (`OneActiveBatch`, `SeqUnique`): do the `expect`s of
  the store hold, whatever the tools do? `SnapshotRestores`: can what was stored
  be restored?

Every property of a passing run has a mutant: an operator `BuggyX` next to `X`
that changes it as a plausible mistake would, under which TLC finds the
property violated.

### Bounds

* `agent_run`: two steps are needed for everything that concerns "another step";
  one tool call and one request suffice because the properties speak of their
  presence, not of their number. `MaxBlocks = 0` reaches the limit of the stop
  hook with one block, and `MaxCount = 2` lets the count go beyond it and saturate. The epoch is constant (`EpochModulus = 1`): nothing here
  depends on it, and `input` is about it.
* `registry`: two runs distinguish the current main run from another one, two
  steps a stale cancellation from a current one.
* `engine`: two steps give a cancellation of the first and a continuation by the
  second; two calls give rounds that mix all kinds of calls and queue a second
  question. `MaxBlocks = 1` gives a block that continues and one that fails the
  run, `MaxCount = 3` is out of its reach. The epoch is constant here (`EpochModulus = 1`), it is the business of
  `input`. Symmetry is not used, because the run checks liveness.
* `input`: with three messages one can be given back, one be in the buffer and
  one in the channel; two disturbances combine any two of withdraw, command,
  query, cancel, interrupt and a failing launch. Epochs wrap at 3.
* `bridge`: two runs with two requests each (one run asks again, or has a queue
  of one), and one with the refusing port.
* `supervisor`: a cooperative call with a copied log and another one that writes
  its log itself; two faults give a failed write and a restart, or two restarts.
* `notify`: two processes, a budget of one: two completions peeked together do
  not fit. Runs are not bounded.
* `dataset`: two versions that share a content, two clients, four operations
  besides reads, two faults: enough for a commit, a promotion and a commit of the
  other client around a crash inside a recovery.
* `tasks`: three task ids (cycles through a third task), two batches, eight
  revisions, two clock readings; `MaxTask` and `MaxBatch` are the exhausted ids.
* Symmetry: step and call identities are interchangeable in `AgentRun` (no
  CHOOSE, no order), used in that run only.
* Deadlock is checked where the system cannot stop. A Run and the registry always
  accept some call; the engine and input modules have a stuttering `Done`; a
  dataset can always be read. In `supervisor`, `bridge` and `tasks` all calls may
  be over, all runs ended, all ids used: there it is not checked.

### Fairness

* `FairEngineSpec`: weak fairness of `EngineStep`, everything the engine does
  but an error of a port: it is one tokio task that is polled while it can move,
  and no port has to fail for a run to make progress. Nothing is assumed about
  clients, who may never answer.
* `FairInputSpec`: weak fairness of the engine's part; strong fairness of
  `StepEnds` (a step that is begun again and again is not always cut short: the
  number of disturbances is finite) and of `InteractionAnswered` (a question is
  answered in the end; every message that arrives meanwhile is deferred and the
  engine polls the answer again in each round).
* `input_settles` excludes immediate queries (`input_query` shows why) and manual
  runs (finding in section 5).
* `FairBridgeSpec`: weak fairness of `Wait`: the engine of a waiting run is
  polled. Nobody has to answer, and no input has to come.
* `FairSpec` of `ToolSupervisor`: weak fairness of the task of each call. Its waits
  end because every call has a deadline. Bodies need not end.
* `FairNotifySpec`: weak fairness of notifiers, engine and driver; strong fairness
  of `TakeSignal`, since the `select!` of the idle wait picks among its ready
  branches at random; and users do not cancel every step for ever.
* `FairDatasetSpec`: the holder of the lock goes on, and somebody reads again and
  again: recovery runs at entries only.

## 4. The proofs

Eight modules hold theorems, one per component (the supervisor and the completions
of its processes share one). Each component has an inductive invariant
(`Init => Inv`, `Inv /\ [Next]_vars => Inv'` with a lemma per action or group of
actions, `Inv => ` the properties the runs check); `InputInv` and `DatasetInv`, the
longest, were checked by TLC before they were proved. All results are for every
value of the constants that satisfies the named assumptions of the module.

**`AgentRunProofs`** (`BoundsAssumption`, `NoRequestAssumption`): `TypeOK`,
`AtMostOneActiveStep`, `CancellationPhases`, `SinglePurposeNeverInvokesModel`,
`ReflectionHasReturn`, `AbortClosesSteps`, `UserCancelMeansCancelledStep` are
invariants of `Spec`, and `TerminalOnce` holds of every step. `Inv` has three
parts:

* `TypeOK`, inductive alone (`TypeStep`);
* `StatusInv`: what the status says by itself. Two strengthenings are needed: a
  manual run never has `ApplyingResponse` as the status it returns to after a
  reflection (`ReturnAllowed`), or the return would reach a model call; and no
  terminal event is queued before the run is terminal (`NoEarlyEvents`), or it
  would be pushed twice;
* `StepInv`: the run and its steps. The four invariants are inductive together
  and not separately: that a cancellation leaves one cancelled step rests on
  there being one active step, and that on the phases.

**`ActiveRunRegistryProofs`** (`RegistryAssumption`): `RegistryOK` is an invariant
of `RegistrySpec`; `TerminateSticks` and `ControlDeliveredOnce` hold of every step.
`RegistryInv` is stated entry by entry (`EntryOK`), so a lemma per method says what
it makes of a correct entry and one lemma puts the entry back into the map.

**`LoopEngineProofs`** (also `NoneAssumption`: the marks for "no step" and "no call"
are no steps or calls): `EngineOK`, `RefusedOnlyInToolRound`, `ExitIsSettled` and
`TerminatedOnlyOnRequest` are invariants (`EngineCorrect`), and `EngineSpec`
implements the specification of the aggregate (`EngineImplementsRun`), so what is
proved of a Run in any hands holds of the one the engine drives
(`DrivenRunCorrect`). `EngineInv` says for every point of the engine what the Run,
the active step, the calls of the round and the registry's entry are like there
(`Place(pc)`, in four groups). Without it nothing is inductive: that `?` cannot fire
is a fact about what the commands before it have left. `ExhaustedFails` is
inductive beside it: the run has not failed at the stop hook, so the count is still
within the limit there. A client acts between
any two steps, so each group must also be shown stable under the registry's
actions, which touch the controls and tokens only.

**`RunInputProofs`** (`InputAssumption`): `InputOK`, `NeverDuplicated` and
`OnlyKnownLosses` (`InputCorrect`). The argument is a count: `Total(m)` adds up how
often `m` occurs in the seven queues, every action moves occurrences from one queue
to another, and lemmas about `Occurrences` turn `Append`, `Tail`, `\o` and `Retains`
into sums. Needed besides: which queues are empty at which phase (`Places`, so that
a dropped future holds nothing unless it answers a query), and that the run is one
epoch behind the buffer exactly while a decision is pending (`Epochs`). `Complete`
carries the reason for the first exception of `OnlyKnownLosses`: as long as no query
was sent none is in a queue and the phase `"query"` is not reached. For the second one,
the command queue holds no message but skill requests. What is left at a
shutdown needs `ShutdownOK`: the session gets there only with its channel closed and
every queue of the mailbox empty, so the one occurrence is in `consumed`.

`OrderKept` (`OrderCorrect`) is a fact about order, of which the count says nothing.
`OrderInv` has three parts: `sent` holds each message once, so that a message has a
place there; `OrderPlaces` says which queues are empty where events move past them
(nothing is deferred between a drain and the handling of its decision, and the buffer
is empty while a batch is pending); and, until a run is interrupted, the pipeline is a `Chain`: each of its six queues is in order and each
follows the ones in front of it, except that a skill request may stand late. `Chain`
has the queues as parameters, so one lemma per kind of move (`ChainCollects`,
`ChainHandles`, `ChainDefers`, ...) serves before and after a step alike.

**`InteractionBridgeProofs`** (`BridgeAssumption`): `BridgeOK`, `WaitsOnLiveRequest`
(`BridgeCorrect`), `ResolvedOnce` of every step, and `AcceptedIsHeld`: a command
that was told `Accepted` has its completion where the run will find it. `BridgeInv`
says where the receiver of a request is, phase by phase of its run.

**`BackgroundProofs`** (`CallAssumption`, `FaultAssumption`, `ProcessAssumption`,
`BudgetAssumption`): `SupervisorOK`, `SomeoneFinishes`, `BooksAgree`
(`SupervisorCorrect`). `CallOK(c)` gives receipt, record, answer and log
of a call at every stage of its task, so calls do not interfere; `LedgersOK` says
that a ledger on disk, or about to be written, knows only dispatched calls, which
is what a restart relies on. `NotifyOK` (`CompletionsDroppedOnlyThere`): that a
completion marked as delivered is in one of the books (`InBooks`) is not inductive by
itself. `NotifierOK` says at which stages a notifier holds facts and that its target
is live only while there is a pipeline; `ShownOK` that an entry which is skipped as a
repetition of the last one was told or is about to be; `DrainOK` that between the
drain of the keys and the drop of the pipeline whatever is still queued is in another
book. No induction is needed for the budget: a window splits the fresh entries into
shown and deferred ones, whatever `BudgetUsed` is. `NeverForgotten` then holds because
no run is active between runs, and marks are taken back only before the driver
signals what is stranded.

**`AtomicDatasetProofs`** (`DatasetAssumption`): `DatasetOK`, `NothingDangling`
(`DatasetCorrect`), `CommitOnlyOnExpected` (`NoLostUpdate`), and `DatasetSpec`
implements `StoreSpec` (`DatasetImplementsStore`), action by action. `DatasetInv`
has two halves: `DiskOK` is about the files alone and holds at every step, so a
crash or an error needs no argument; `Place` and `QuarantinePlace` add what the
code has established when it arrives at a step. For the refinement each action is a
`Turn` of the call, the step of the store its call asks for, or, during recovery, a
stutter or `Settle`; `Damaged` is used only once bytes have been damaged.

**`TaskStoreProofs`** (`TaskStoreAssumption`): `TaskStoreOK`, `GraphCoherent`,
`SnapshotRestores`. The graph, the books (`BooksOK`: ids below the counters, a
number at most the id of its task) and, as long as stamps reach the store in order,
the timestamps are inductive together. That `next_seq` has a largest number to start
from is a minimum of a well-founded order (`WFMin`).

What the proofs changed in the model:

* `DatasetStore!Settle` kept the alternatives of a doubtful commit until it was
  settled. On more versions than the run has, the staged previous generation can be
  removed while the journal cannot be set aside; the promise now allows both, and
  TLC finds the old form violated on a larger instance.
* The `CASE` of `MemberFault` had overlapping guards, of which TLC takes the first
  and TLA+ any.
* `drain_remaining_events` drops each queued `/reflect-now` on its own (`Retains`),
  not all commands or none.
* `None` differs from every version and client, and messages from the controls:
  assumptions that instances with model values satisfy without saying so.
* The window of `CompletionNotify` was a fold over the queue; it is now stated by what
  is shown and what is deferred, with the same reachable states.

Only model-checked:

* liveness (`ControlsComplete`, `EveryMessageSettled`, `EveryCallCloses`,
  `AcceptedIsTaken`, `PendingRecovered`, `EveryCompletionTold`, `WakeupsStop`):
  fairness and `ENABLED` are beyond the prover.

Every invariant and every action property of a passing run is a theorem.

## 5. Findings

With a run that shows them (quoted in `PROJECT.json`):

1. **A dropped drain loses messages** (`input_query`, `input_strategy.rs:289`).
2. **A compaction drops queued completions** (`notify_lost`,
   `src/agent/features/context/src/domain/reminder.rs:392`): they stay marked as
   delivered, and the rollback that is to prevent a silent loss does not see them.

Met while modelling, and stated by the exact form of a passing property or in
the model's choices:

* A manual run that receives a message never ends (`phases.rs:46`, against the
  comment at 23-26): it defers the batch to the queue it drains from. Therefore
  `input_settles` has no manual runs.
* `run_loop` returns `AwaitUser` (`engine.rs:341`, against `launcher.rs:9`) by a
  command that arrives while the run is parked, or by the continuation that the
  answer to an earlier question of the round scheduled; `launch` reports it as
  terminal. `ExitIsSettled` allows it.
* A blocked call that the policy lets run stays `Ready`, its success is refused
  and the run fails (`step_driver.rs:681` against `contracts.rs:211-214`): part of
  `RefusedOnlyInToolRound`.
* FIFO order is not kept by a run that is interrupted after it deferred
  something (`input_strategy.rs:165`, against `ingress.rs:15-17`), nor for a
  skill request that arrives while the model answers
  (`main_run_port.rs:602`): the two exceptions of `OrderKept`.
* A round with both questions and approvals drops the approvals
  (`tool/coordination.rs:395` against 445-448); its step cannot be completed:
  the first case of `RefusedOnlyInToolRound`. A blocked call that is approved
  is the second.
* A user's termination that lands between `take_control` and the check of the
  token is reported as `SessionShutdown` (`control_driver.rs:201-220`), and so is
  the cancellation of a manual reflection; a manual compaction terminated by the
  session is reported as `UserExit`.
* The comment at `input_strategy.rs:507` says that an event which is no user
  message does not end the wait; line 606 ends it.
* A cancellation accepted after the step's last check is discarded with the
  scope (`ClearMainActiveStep`): the step simply completes.
* A request stays at the bridge when its run ends without an answer: `drain_run`
  and `cleanup_run` are not called on a cancellation, against
  `interaction/coordinator.rs:13-15`. `NoStrayRequest` allows it for ended runs.
* A commit whose journal was written and whose fsync then failed returns an error
  and may be rolled forward later (`dataset_filesystem.rs:1173`, against
  `atomic_dataset_port.rs:49`, "`Err` means not committed"): `DoubtfulCommit`.
* A promotion without a primary writes a journal that recovery refuses, since it
  looks for the old generation (`dataset_filesystem.rs:555`, against the header's
  "recovery only rolls forward"): such a transaction is in doubt in the model too.
* A failed receipt at the promotion of a call leaves its record waiting in the
  ledger for ever (`execution_supervisor.rs:135`), and so does the deadline of the
  run when it drops the round there (`phases.rs:349`): the exceptions of
  `RunningHasTask`.
* A withdrawal loses a skill request that arrived while the model answered
  (`chat/input_gate.rs:218`, against its comment at 213-217 and
  `src/packages/sdk/src/chat.rs:171`, which says that skill requests do not enter the
  command queue): it waits in the command queue (`main_run_port.rs:602`), is drained
  with it and has no text that could go back. An exception of `OnlyKnownLosses`;
  `NeverLost` fails with two messages and one withdrawal, without any query.
* A run that cannot be prepared or created is logged and its input is gone
  (`run_launch.rs:691` and `:704`): an exception of `OnlyKnownLosses`.
* An append that fails loses the reminders injected since the last one, whose
  completions stay marked as delivered
  (`src/agent/features/context/src/application/service.rs:516`): one of the four
  places of `DroppedOnlyThere`.
* Stamps that reach the store out of order (a wall clock that is set back, or two
  calls that read it and take the lock in opposite orders) make the session
  unresumable (`snapshot.rs:352`): the exception of `SnapshotRestores`.
* The end of a run archives the batch it saw as completed without looking at it again
  (`chat/finalize.rs:32`): a task created in between is archived with it. No property
  excludes it.
* `delete_with_progress` of a deleted task advances the revision
  (`state.rs:885`, against 77-79), and `clear` keeps the next task id (against
  132). After a resume the number of a deleted task may be given again.
* Two processes that end together write their snapshots of the ledger in any
  order (`session_runtime.rs:505`); a restart then closes the record again.

## 6. Not modelled

The streaming tool round (all of its calls report success); an unreadable
`manifest.json`, for which recovery returns an error at each entry and leaves the
journal where it is (`dataset_filesystem.rs:531`, `:1531`), so that `PendingRecovered`
speaks of datasets whose manifests can be read; activities, logs and
texts; the fixed input adapter and the sink of derived runs, and tool calls of
derived runs, which have no ledger; the counters of the stuck guard and the fuse,
the retries of the model port and the decisions of the stop hook (choices in
`LoopEngine`); reminders of other kinds than completions; single blobs and the
dataset layout of older releases; the commands of the task store that nothing
calls. Sessions, generations, memory, projects, configuration and workflow keep
mostly data and are left out, as are parsing, formatting, HTTP and rendering.

## 7. Plan

Done, in this order: `AgentRun`, `ActiveRunRegistry`, `LoopEngine`, `RunInput`,
`AtomicDataset` with `DatasetStore`, `ToolSupervisor`, `CompletionNotify`,
`InteractionBridge`, `TaskStore`, and the proofs of all of them. Next:

1. `ToolFuse`: the counters of the stuck guard, as functions checked against a
   reference definition.
2. A derived run beside its parent's tool call.
3. The state kernel of workflows.

Each new module gets one passing run and, where the code and its documentation
disagree, a violation run.
