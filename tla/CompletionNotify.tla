-------------------------- MODULE CompletionNotify --------------------------
(***************************************************************************)
(* How the completion of a background process reaches the model: as a      *)
(* reminder of the main run that is active, or through a wakeup signal and *)
(* a run started for it.                                                   *)
(*                                                                         *)
(* Actors: the notifier of every process (the tail of its detached driver, *)
(* BackgroundProcessRuntime::notify_terminal), the engine of the current   *)
(* main run, which builds windows from the run's reminder pipeline, and    *)
(* the session driver, which starts and closes runs.  A step is one        *)
(* critical section of the process ledger, of the reminder state, of the   *)
(* set of signalled ids or of the run registry.                            *)
(*                                                                         *)
(* A notifier knows a run by its id only to find its pipeline, so a target *)
(* is "live" or "gone" instead of an id.  Left out: reminders of other     *)
(* kinds, which share the budget; the log files and the saved ledger       *)
(* (module ToolSupervisor); what one step does beyond its windows.         *)
(***************************************************************************)
EXTENDS Naturals, FiniteSets, Sequences, SequencesExt

CONSTANTS
    Process,    \* the background processes of the session
    Budget      \* completions that fit in one window (REMINDER_INJECTION_TOKEN_BUDGET)

ASSUME ProcessAssumption == IsFiniteSet(Process)
ASSUME BudgetAssumption == Budget \in Nat

VARIABLES
    notifier,   \* where the notifier of a process is
    notified,   \* records marked as delivered to a notification channel
    held,       \* completions a notifier has peeked
    target,     \* the run a notifier pushes to
    phase,      \* where the session driver and the engine are
    retried,    \* compacted_after_context_too_long of the step
    active,     \* ActiveRunRegistry has a current main run
    pipeline,   \* the reminder pipeline of the current run exists
    queue,      \* its entries: sets of completions, oldest first
    lastShown,  \* last_injected: the entry injected last
    pending,    \* pending_persist: injected, not yet in the history
    keys,       \* completions the session driver holds: peeked at a start, drained at an end
    signals,    \* wakeup signals in the channel
    signaled,   \* signaled_stranded_ids
    told,       \* history: completions that are in the session's history
    lost        \* history: completions dropped although marked as delivered

noteVars == <<notifier, held, target>>
pipeVars == <<queue, lastShown, pending>>
runVars == <<phase, retried, active, pipeline, keys>>
wakeVars == <<signals, signaled>>
notifyVars == <<noteVars, notified, pipeVars, runVars, wakeVars, told, lost>>

NotifierStages == {"running", "record", "route", "peek", "mark", "push", "wakeup", "done"}
RunPhases == {"step", "decide", "compact", "check", "rebuild", "model"}
SessionPhases ==
    {"idle", "start", "startMark", "setup", "clear", "drain", "unmark", "drop", "signal"}

Completed(p) == notifier[p] # "running"

(* peek_unnotified_terminal_items *)
Unnotified == {p \in Process : Completed(p) /\ p \notin notified}

Queued == UNION Range(queue)

NotifierGoes(p, next) == notifier' = [notifier EXCEPT ![p] = next]

---------------------------------------------------------------------------
(* BackgroundProcessRuntime::notify_terminal, from the change of the        *)
(* record on; a repeated end is not announced.                              *)

Completes(p) ==
    /\ notifier[p] = "running" /\ NotifierGoes(p, "record")
    /\ UNCHANGED <<held, target, notified, pipeVars, runVars, wakeVars, told, lost>>

(* The route is asked for twice: first to remember that this completion     *)
(* has had its signal, then to act on it.                                   *)
RecordRoute(p) ==
    /\ notifier[p] = "record" /\ NotifierGoes(p, "route")
    /\ signaled' = IF active THEN signaled ELSE signaled \cup {p}
    /\ UNCHANGED <<held, target, notified, pipeVars, runVars, signals, told, lost>>

NotifyRoute(p) ==
    /\ notifier[p] = "route"
    /\ NotifierGoes(p, IF active THEN "peek" ELSE "wakeup")
    /\ target' = [target EXCEPT ![p] = IF active THEN "live" ELSE "none"]
    /\ UNCHANGED <<held, notified, pipeVars, runVars, wakeVars, told, lost>>

(* BackgroundProcessReminderSource::fact: peek and mark are two critical    *)
(* sections, and whatever else has completed is taken along.                *)
PeekFact(p) ==
    /\ notifier[p] = "peek"
    /\ held' = [held EXCEPT ![p] = Unnotified]
    /\ NotifierGoes(p, IF Unnotified = {} THEN "done" ELSE "mark")
    /\ target' = [target EXCEPT ![p] = IF Unnotified = {} THEN "none" ELSE @]
    /\ UNCHANGED <<notified, pipeVars, runVars, wakeVars, told, lost>>

MarkFact(p) ==
    /\ notifier[p] = "mark" /\ NotifierGoes(p, "push")
    /\ notified' = notified \cup held[p]
    /\ UNCHANGED <<held, target, pipeVars, runVars, wakeVars, told, lost>>

Lose(processes) == lost' = lost \cup (processes \ told)

(* push_reminder_fact: an event entry of its own, or a warning when the     *)
(* pipeline of that run is no longer there.  Once the keys of the run are   *)
(* drained nothing takes the entry out of the pipeline again.               *)
PushFact(p) ==
    /\ notifier[p] = "push" /\ NotifierGoes(p, "done")
    /\ queue' = IF target[p] = "live" THEN Append(queue, held[p]) ELSE queue
    /\ IF target[p] = "gone" \/ phase \in {"unmark", "drop"}
       THEN Lose(held[p]) ELSE UNCHANGED lost
    /\ held' = [held EXCEPT ![p] = {}]
    /\ target' = [target EXCEPT ![p] = "none"]
    /\ UNCHANGED <<notified, lastShown, pending, runVars, wakeVars, told>>

SignalWakeup(p) ==
    /\ notifier[p] = "wakeup" /\ NotifierGoes(p, "done")
    /\ signals' = signals + 1
    /\ UNCHANGED <<held, target, notified, pipeVars, runVars, signaled, told, lost>>

---------------------------------------------------------------------------
(* The reminder pipeline of the run *)

(* begin_injection: an entry equal to the one injected last is skipped. *)
Fresh == {n \in DOMAIN queue : queue[n] # lastShown}

(* budget_used after the first n entries. *)
BudgetUsed[n \in 0 .. Len(queue)] ==
    IF n = 0 THEN 0
    ELSE LET used == BudgetUsed[n - 1]
             with == used + Cardinality(queue[n])
         IN  IF n \in Fresh /\ with <= Budget THEN with ELSE used

(* What does not fit waits for the next window, and a smaller entry behind  *)
(* it may still go.                                                         *)
Shown == {n \in Fresh : BudgetUsed[n - 1] + Cardinality(queue[n]) <= Budget}
Deferred == Fresh \ Shown

(* defer_injection: the deferred entries go back in the order of their seq. *)
DeferInjection ==
    \E f \in [1 .. Cardinality(Deferred) -> Deferred] :
        /\ Range(f) = Deferred
        /\ \A i, j \in DOMAIN f : i < j => f[i] < f[j]
        /\ queue' = [i \in DOMAIN f |-> queue[f[i]]]

(* confirm_injection, entry by entry: the last one stays in last_injected.  *)
ConfirmInjection ==
    /\ \/ Shown = {} /\ UNCHANGED lastShown
       \/ \E n \in Shown : (\A m \in Shown : m <= n) /\ lastShown' = queue[n]
    /\ pending' = pending \cup UNION {queue[n] : n \in Shown}

(* build_candidate with inject_into_window: every window that is built      *)
(* takes entries out of the queue, also one that is only measured.          *)
Inject == ConfirmInjection /\ DeferInjection

EngineStep(from, to) ==
    /\ phase = from /\ phase' = to
    /\ UNCHANGED <<noteVars, notified, active, pipeline, keys, wakeVars>>

(* CompactionPort::needs_compaction: the window of the step, and a second   *)
(* one for the decision.                                                    *)
BuildWindow ==
    /\ EngineStep("step", "decide") /\ Inject
    /\ retried' = FALSE
    /\ UNCHANGED <<told, lost>>

DecideCompaction ==
    /\ \E next \in {"compact", "model"} : EngineStep("decide", next)
    /\ Inject
    /\ UNCHANGED <<retried, told, lost>>

(* compact, committed: compact_committed removes what is queued of a kind   *)
(* with CompactBehavior::Rebuild.  Completions are of such a kind but not   *)
(* in the store that the queue is rebuilt from.                             *)
CompactCommitted ==
    /\ EngineStep("compact", "check")
    /\ queue' = <<>>
    /\ lastShown' = IF queue = <<>> THEN lastShown ELSE {}
    /\ Lose(Queued)
    /\ UNCHANGED <<pending, retried, told>>

CompactSkipped ==
    /\ EngineStep("compact", "model")
    /\ UNCHANGED <<pipeVars, retried, told, lost>>

(* post_compaction_usage_check builds a window to measure it. *)
CheckUsage ==
    /\ EngineStep("check", "rebuild") /\ Inject
    /\ UNCHANGED <<retried, told, lost>>

RebuildWindow ==
    /\ EngineStep("rebuild", "model") /\ Inject
    /\ UNCHANGED <<retried, told, lost>>

(* The model answers and append_and_persist puts what was injected before   *)
(* the messages of the step.                                                *)
StepCompletes ==
    /\ EngineStep("model", "step")
    /\ told' = told \cup pending /\ pending' = {}
    /\ UNCHANGED <<queue, lastShown, retried, lost>>

ContextTooLong ==
    /\ ~retried /\ EngineStep("model", "compact") /\ retried' = TRUE
    /\ UNCHANGED <<pipeVars, told, lost>>

(* The step is cancelled; what it had finished is appended, if anything.    *)
StepCancelled ==
    /\ phase \in RunPhases \ {"step"} /\ EngineStep(phase, "step")
    /\ \/ told' = told \cup pending /\ pending' = {}
       \/ UNCHANGED <<told, pending>>
    /\ UNCHANGED <<queue, lastShown, retried, lost>>

(* append_and_persist takes what was injected before it writes: when the    *)
(* append of a step, or of its cancellation or termination, fails the run   *)
(* ends with the error and no later append has the reminders again.         *)
AppendFails ==
    /\ phase \in RunPhases \ {"step"} /\ EngineStep(phase, "clear")
    /\ pending' = {} /\ Lose(pending)
    /\ UNCHANGED <<queue, lastShown, retried, told>>

---------------------------------------------------------------------------
(* The session driver *)

Session(from, to) ==
    /\ phase = from /\ phase' = to
    /\ UNCHANGED <<notifier, held, retried, told>>

UserInput ==
    /\ Session("idle", "start")
    /\ UNCHANGED <<notified, target, pipeVars, active, pipeline, keys, wakeVars, lost>>

(* idle: one signal is taken; it starts a run only if there is something to *)
(* tell.                                                                    *)
TakeSignal ==
    /\ signals > 0 /\ signals' = signals - 1
    /\ Session("idle", IF Unnotified = {} THEN "idle" ELSE "start")
    /\ UNCHANGED <<notified, target, pipeVars, active, pipeline, keys, signaled, lost>>

(* The facts of the start are taken before the run has a pipeline. *)
StartPeek ==
    /\ Session("start", "startMark")
    /\ keys' = Unnotified
    /\ UNCHANGED <<notified, target, pipeVars, active, pipeline, wakeVars, lost>>

StartMark ==
    /\ Session("startMark", "setup")
    /\ notified' = notified \cup keys
    /\ UNCHANGED <<target, pipeVars, active, pipeline, keys, wakeVars, lost>>

(* create_reminder_pipeline with the facts of the start, then launch with   *)
(* activate_main: a pipeline is found only through the active run.          *)
Launch ==
    /\ Session("setup", "step")
    /\ pipeline' = TRUE /\ active' = TRUE
    /\ queue' = IF keys = {} THEN <<>> ELSE <<keys>>
    /\ keys' = {}
    /\ UNCHANGED <<notified, target, lastShown, pending, wakeVars, lost>>

(* The loop returns, completed, failed, cancelled or timed out, from any    *)
(* point of a step.                                                         *)
RunReturns ==
    /\ phase \in RunPhases /\ Session(phase, "clear")
    /\ UNCHANGED <<notified, target, pipeVars, active, pipeline, keys, wakeVars, lost>>

ClearActive ==
    /\ Session("clear", "drain") /\ active' = FALSE
    /\ UNCHANGED <<notified, target, pipeVars, pipeline, keys, wakeVars, lost>>

(* drain_uninjected_oneshot_keys reads the keys and leaves the entries.     *)
DrainKeys ==
    /\ Session("drain", "unmark") /\ keys' = Queued
    /\ UNCHANGED <<notified, target, pipeVars, active, pipeline, wakeVars, lost>>

(* Mutant: the delivered marks are not taken back. *)
BuggyMarkUnnotified ==
    /\ Session("unmark", "drop")
    /\ keys' = {}
    /\ UNCHANGED <<notified, target, pipeVars, active, pipeline, wakeVars, lost>>

MarkUnnotified ==
    /\ Session("unmark", "drop")
    /\ notified' = notified \ keys /\ keys' = {}
    /\ UNCHANGED <<target, pipeVars, active, pipeline, wakeVars, lost>>

(* What was injected but never appended goes with the pipeline. *)
DropPipeline ==
    /\ Session("drop", "signal")
    /\ pipeline' = FALSE
    /\ queue' = <<>> /\ lastShown' = {} /\ pending' = {}
    /\ target' = [p \in Process |-> IF target[p] = "live" THEN "gone" ELSE target[p]]
    /\ Lose(pending)
    /\ UNCHANGED <<notified, active, keys, wakeVars>>

(* Mutant: a signal for whatever is left, signalled before or not. *)
BuggySignalStranded ==
    /\ Session("signal", "idle")
    /\ signals' = IF Unnotified = {} \/ signals > 0 THEN signals ELSE signals + 1
    /\ UNCHANGED <<notified, target, pipeVars, active, pipeline, keys, signaled, lost>>

(* Mutant: a run that ends leaves what it did not tell to the next input. *)
BuggyNoSignalStranded ==
    /\ Session("signal", "idle")
    /\ UNCHANGED <<notified, target, pipeVars, active, pipeline, keys, wakeVars, lost>>

(* signal_wakeup_for_stranded_facts: one signal for a batch that holds      *)
(* something not signalled before.                                          *)
SignalStranded ==
    /\ Session("signal", "idle")
    /\ IF Unnotified \subseteq signaled
       THEN UNCHANGED wakeVars
       ELSE signaled' = signaled \cup Unnotified /\ signals' = signals + 1
    /\ UNCHANGED <<notified, target, pipeVars, active, pipeline, keys, lost>>

---------------------------------------------------------------------------
NotifyInit ==
    /\ notifier = [p \in Process |-> "running"]
    /\ notified = {}
    /\ held = [p \in Process |-> {}]
    /\ target = [p \in Process |-> "none"]
    /\ phase = "idle" /\ retried = FALSE /\ active = FALSE /\ pipeline = FALSE
    /\ queue = <<>> /\ lastShown = {} /\ pending = {} /\ keys = {}
    /\ signals = 0 /\ signaled = {}
    /\ told = {} /\ lost = {}

Notify(p) ==
    \/ RecordRoute(p) \/ NotifyRoute(p) \/ PeekFact(p) \/ MarkFact(p) \/ PushFact(p)
    \/ SignalWakeup(p)

Engine ==
    \/ BuildWindow \/ DecideCompaction \/ CompactCommitted \/ CompactSkipped \/ CheckUsage
    \/ RebuildWindow \/ StepCompletes \/ ContextTooLong

Driver ==
    \/ StartPeek \/ StartMark \/ Launch
    \/ ClearActive \/ DrainKeys \/ MarkUnnotified \/ DropPipeline \/ SignalStranded

NotifyNext ==
    \/ \E p \in Process : Completes(p) \/ Notify(p)
    \/ Engine \/ StepCancelled \/ AppendFails \/ Driver
    \/ UserInput \/ TakeSignal \/ RunReturns

NotifySpec == NotifyInit /\ [][NotifyNext]_notifyVars

(* The notifiers, the engine and the driver are tasks that go on when they  *)
(* can.  The select of the idle wait is not biased: a signal that is there  *)
(* at every wait is taken at some wait.  And users do not cancel every step *)
(* for ever.                                                                *)
NotifyFairness ==
    /\ \A p \in Process : WF_notifyVars(Notify(p))
    /\ WF_notifyVars(Engine) /\ WF_notifyVars(Driver)
    /\ SF_notifyVars(TakeSignal)
    /\ <>[][~StepCancelled]_notifyVars

FairNotifySpec == NotifySpec /\ NotifyFairness

---------------------------------------------------------------------------
(* Properties *)

(* The variables have their types, and the entries of a pipeline are gone   *)
(* with it.                                                                 *)
NotifyTypeOK ==
    /\ notifier \in [Process -> NotifierStages]
    /\ {notified, pending, keys, signaled, told, lost} \subseteq SUBSET Process
    /\ held \in [Process -> SUBSET Process]
    /\ target \in [Process -> {"none", "live", "gone"}]
    /\ phase \in RunPhases \cup SessionPhases
    /\ {retried, active, pipeline} \subseteq BOOLEAN
    /\ queue \in Seq((SUBSET Process) \ {{}})
    /\ signals \in Nat
    /\ ~pipeline => queue = <<>> /\ pending = {}
    /\ active => pipeline

(* A completion that is not in the history yet and may still get there.     *)
OnItsWay(p) ==
    \/ p \in Queued \cup pending \cup keys
    \/ \E q \in Process : p \in held[q]

(* Nothing is marked as delivered and dropped except where the code drops   *)
(* it: a compaction that is committed with the entry queued, an entry that  *)
(* arrives after the keys of the run were drained, a run that ends between  *)
(* a window and its append, and an append that fails.                       *)
DroppedOnlyThere ==
    \A p \in notified : p \in told \cup lost \/ OnItsWay(p)

(* The rollback at the end of a run is there so that a completion is not    *)
(* silently lost (run_launch.rs): a record marked as delivered is on its    *)
(* way or told.                                                             *)
CompletionsKept ==
    \A p \in notified : p \in told \/ OnItsWay(p)

(* An entry larger than the budget is deferred again and again.             *)
Oversized(p) == \E i \in DOMAIN queue : p \in queue[i] /\ Cardinality(queue[i]) > Budget

(* Its one signal was used up by a run that did not tell it: it waits for   *)
(* the next run (signal_wakeup_for_stranded_facts).                         *)
Stranded(p) == p \in Unnotified \cap signaled /\ signals = 0 /\ phase = "idle"

(* Every completion is told to the model, unless it is dropped, larger than *)
(* the budget, or stranded after its one wakeup.                            *)
EveryCompletionTold ==
    \A p \in Process :
        Completed(p) ~> (p \in told \cup lost \/ Oversized(p) \/ Stranded(p))

(* No wakeup storm: from some time on no signal is sent, however many runs  *)
(* end without telling a completion.                                        *)
WakeupsStop == <>[][signals' <= signals]_signals

(* Between runs nobody looks at the ledger unless a signal says so: a       *)
(* completion that waits there has had its signal, or its notifier is about *)
(* to see that no run is active.                                            *)
NeverForgotten ==
    phase \in {"idle", "start", "startMark", "setup"} =>
        \A p \in Unnotified : p \in signaled \/ notifier[p] = "record"

(* The state is well typed, completions are dropped only where the code     *)
(* drops them, and none waits between runs without having been signalled.   *)
NotifyOK == NotifyTypeOK /\ DroppedOnlyThere /\ NeverForgotten

=============================================================================
