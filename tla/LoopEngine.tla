----------------------------- MODULE LoopEngine -----------------------------
(***************************************************************************)
(* The loop engine of a main run (application/loop_engine/engine): it      *)
(* drives the Run aggregate (AgentRun) from Created to the moment the      *)
(* launcher clears the run from the registry (ActiveRunRegistry), while    *)
(* clients cancel the step, terminate the run and answer its questions at  *)
(* any time.                                                               *)
(*                                                                         *)
(* One engine step issues one command to the Run, the granularity at which *)
(* a client can get in between.  A command the Run refuses is an error the *)
(* engine passes up with `?`: the run is then failed by the launcher.      *)
(* What the ports return (input, model, tools, hooks, compaction) is a     *)
(* nondeterministic choice; the buffering behind the input port is modelled*)
(* by RunInput.                                                            *)
(***************************************************************************)
EXTENDS AgentRun

CONSTANTS NoStep, NoCall    \* Option::None
ASSUME NoneAssumption == NoStep \notin StepId /\ NoCall \notin CallId

VARIABLES
    pc,             \* where the engine is
    after,          \* where it goes when a cancellation or termination is through
    cur,            \* the step of execute_step, kept until the next one
    cont,           \* an internal continuation is scheduled at the input port
    retried,        \* compacted_after_context_too_long
    reflected,      \* execution.interval_reflection_started()
    soft,           \* calls of the round that the guard blocked
    bypassed,       \* those of them that the policy let run
    fuseFail,       \* fail_reason of the round is set
    asks,           \* PendingInteractionWork: calls that wait for the user
    kind,           \* what for: the continuation of their requests
    current,        \* the call the pending interaction is about
    unasked,        \* calls of the round that need approval and are dropped
    reply,          \* completion channel of the pending interaction
    refused,        \* the Run refused a command of the engine
    active, currentMain \* the registry

Main == "main"
Registry == INSTANCE ActiveRunRegistry WITH RunId <- {Main}, NoRun <- "none"

registryVars == <<active, currentMain>>
roundVars == <<soft, bypassed, fuseFail, asks, kind, current, unasked>>
localVars == <<cur, cont, retried, reflected, roundVars, reply>>
engineVars == <<pc, after, localVars, refused>>
vars == <<runVars, engineVars, registryVars>>

InScope == active[Main].present /\ active[Main].step # NoStep
RootCancelled == Registry!RootCancelled(Main)
StepTokenCancelled == Registry!StepCancelled(Main)
HasControl == Registry!HasControl(Main)

(* A step that ends early returns through execute_step, anything else to    *)
(* the launcher.                                                            *)
Leave == IF InScope THEN "stepEnd" ELSE "exit"

(* bound: a step begins only while an unused step id is left *)
MoreSteps == \E s \in StepId : steps[s] = "none"

Suspended == status = "AwaitingUser" /\ pendingInteraction # NoRequest

EngineInit ==
    /\ Init
    /\ pc = "created" /\ after = "exit" /\ cur = NoStep
    /\ cont = FALSE /\ retried = FALSE /\ reflected = FALSE
    /\ soft = {} /\ bypassed = {} /\ fuseFail = FALSE
    /\ asks = {} /\ kind = "CompleteToolCall" /\ current = NoCall /\ unasked = {}
    /\ reply = "idle" /\ refused = FALSE
    /\ active = [r \in {Main} |-> Registry!Fresh(intent)]   \* activate_main
    /\ currentMain = Main
-----------------------------------------------------------------------------
(* Building blocks. *)
Goto(p) == pc' = p /\ UNCHANGED <<after, refused>>

(* A command with its `?`: command is issued when the Run accepts it. *)
Try(accepts, command, next) ==
    /\ IF accepts
       THEN command /\ pc' = next /\ UNCHANGED refused
       ELSE pc' = "error" /\ refused' = TRUE /\ UNCHANGED runVars
    /\ UNCHANGED <<after, registryVars>>

Move(t, next) == Try(Legal(t), Transition(t), next) /\ UNCHANGED localVars

(* Mutant: the status is set, nothing is closed and nobody is told. *)
BuggyFailRun ==
    /\ status' = "Failed" /\ pc' = "emit" /\ after' = Leave
    /\ UNCHANGED <<intent, reflectionReturn, termination, pendingInteraction,
                   nextDrainEpoch, stopHookBlockCount, userCancelledStep,
                   stepVars, events, localVars, refused, registryVars>>

(* fail_run, timeout_run: fail unless the run is terminal, then emit. *)
FailRun ==
    /\ IF IsTerminal(status) THEN UNCHANGED runVars ELSE Fail
    /\ pc' = "emit" /\ after' = Leave
    /\ UNCHANGED <<localVars, refused, registryVars>>

(* terminate_interrupted_run, up to the finalization of the step; a run that *)
(* is terminal stays as it is.                                              *)
TerminateRun(reason) ==
    /\ IF CanRequestTermination
       THEN RequestTermination(reason) /\ pc' = "terminating"
       ELSE UNCHANGED runVars
            /\ pc' = IF IsTerminal(status) THEN "emit" ELSE "terminating"
    /\ after' = Leave
    /\ UNCHANGED <<localVars, refused>>

(* handle_pending_control when there is a control: it is taken and its      *)
(* request is put to the Run at once.  A cancellation of a step that is not *)
(* the active one is an error.                                              *)
ControlledBy(next) ==
    LET control == active[Main].control IN
    /\ Registry!TakeControl(Main)
    /\ IF control.kind = "Terminate"
       THEN TerminateRun(control.reason)
       ELSE /\ IF IsActive(control.step) /\ CanRequestStepCancellation(control.step)
               THEN /\ RequestStepCancellation(control.step)
                    /\ pc' = "cancelling" /\ after' = next /\ UNCHANGED refused
               ELSE /\ pc' = "error" /\ refused' = TRUE
                    /\ UNCHANGED <<runVars, after>>
            /\ UNCHANGED localVars

Shutdown == TerminateRun("SessionShutdown") /\ UNCHANGED registryVars

(* handle_step_control: the token of the step is cancelled. *)
(* Mutant: ends the run without looking for the control that says why. *)
BuggyHandleStepControl == StepTokenCancelled /\ Shutdown

HandleStepControl ==
    /\ StepTokenCancelled
    /\ IF HasControl THEN ControlledBy("stepEnd") ELSE Shutdown

(* handle_interrupt, then next. *)
InterruptOr(next) ==
    \/ RootCancelled /\ Shutdown
    \/ ~RootCancelled /\ FailRun     \* has_timed_out, or terminal already
    \/ /\ ~RootCancelled /\ ~IsTerminal(status)
       /\ Goto(next) /\ UNCHANGED <<runVars, localVars, registryVars>>
-----------------------------------------------------------------------------
(* run_loop_body, before the loop. *)
Start ==
    /\ pc = "created"
    /\ Try(Legal("StartDraining"), StartDraining,
           IF intent = "ManualCompaction" THEN "beginCompact"
           ELSE IF intent = "ManualReflection" THEN "beginReflect" ELSE "control")
    /\ UNCHANGED localVars

(* execute_manual_compaction; a cancellation here counts as the user's. *)
ManualCompaction ==
    \/ /\ pc = "beginCompact"
       /\ Try(Legal("BeginCompaction"), BeginManualCompaction, "manualCompact")
       /\ UNCHANGED localVars
    \/ pc = "manualCompact" /\ RootCancelled
          /\ TerminateRun("UserExit") /\ UNCHANGED registryVars
    \/ pc = "manualCompact" /\ ~RootCancelled
          /\ \/ Move("CompactionCompleted", "control")
             \/ FailRun                                     \* TimedOut

(* execute_manual_reflection: the dispatch is not interruptible; when the   *)
(* port fails, the state machine returns before the error is passed up.     *)
ManualReflection ==
    \/ /\ pc = "beginReflect"
       /\ Try(Legal("BeginReflection"), BeginManualReflection, "manualReflect")
       /\ UNCHANGED localVars
    \/ pc = "manualReflect"
          /\ \E next \in {"control", "error"} : Move("ReflectionCompleted", next)
-----------------------------------------------------------------------------
(* The loop: control, interrupt, input. *)
LoopTop ==
    /\ pc = "control"
    /\ IF HasControl THEN ControlledBy("control")
       ELSE Goto("interrupt") /\ UNCHANGED <<runVars, localVars, registryVars>>

(* Mutant: forgets that the run waits for an interaction. *)
BuggyLoopInterrupt == pc = "interrupt" /\ InterruptOr("drain")

LoopInterrupt ==
    pc = "interrupt" /\ InterruptOr(IF Suspended THEN "await" ELSE "drain")

(* Mutant: the wait for the user ignores the token of the run. *)
BuggyInputCancelled ==
    /\ pc = "drain" /\ RootCancelled
    /\ IF HasControl THEN ControlledBy("exit") ELSE Shutdown

(* Both input phases are abandoned when the token of the run is cancelled;  *)
(* a control that says why is looked for once more.                         *)
InputCancelled ==
    /\ pc \in {"drain", "await"} /\ RootCancelled
    /\ pc = "await" => reply \in {"idle", "open"}   \* biased: completion first
    /\ IF HasControl THEN ControlledBy("exit") ELSE Shutdown

InputTimedOut == pc \in {"drain", "await"} /\ ~RootCancelled /\ FailRun

Drained(next) ==
    /\ pc = "drain" /\ ~RootCancelled
    /\ AdvanceDrainEpoch
    /\ Goto(next)
    /\ UNCHANGED registryVars

(* Ready: a manual run defers the batch and drains again. *)
DrainReady ==
    /\ ~cont /\ MoreSteps
    /\ Drained(IF intent \in ManualIntents THEN "control" ELSE "applyInputs")
    /\ UNCHANGED localVars

DrainContinuation ==
    /\ cont /\ Drained("applyContinuation") /\ cont' = FALSE
    /\ UNCHANGED <<cur, retried, reflected, roundVars, reply>>

DrainSealed == ~cont /\ Drained("applySealed") /\ UNCHANGED localVars

Decision == [applyInputs |-> "DrainInputs", applySealed |-> "DrainEmptyAndSealed",
             applyContinuation |-> "DrainInternalContinuation"]

ApplyDecision ==
    /\ pc \in DOMAIN Decision
    /\ LET d == Decision[pc] IN
       IF Legal(d)
       THEN /\ ApplyDrainDecision(d)
            /\ pc' = IF d = "DrainEmptyAndSealed" THEN "emit" ELSE "register"
            /\ after' = "exit" /\ UNCHANGED refused
       ELSE pc' = "error" /\ refused' = TRUE /\ UNCHANGED <<runVars, after>>
    /\ UNCHANGED <<localVars, registryVars>>

(* await_run_ingress while an interaction is pending.  Messages are deferred *)
(* and the engine waits on; any other outcome of await_user_input ends      *)
(* run_loop with AwaitUser.                                                 *)
AwaitInput ==
    /\ pc = "await" /\ ~RootCancelled /\ reply = "open"
    /\ AdvanceDrainEpoch
    /\ Goto("control")
    /\ cont' = FALSE
    /\ UNCHANGED <<cur, retried, reflected, roundVars, reply, registryVars>>

AwaitUser ==
    /\ pc = "await" /\ ~RootCancelled /\ reply = "open"
    /\ IF cont THEN AdvanceDrainEpoch ELSE UNCHANGED runVars
    /\ Goto("exit")
    /\ cont' = FALSE
    /\ UNCHANGED <<cur, retried, reflected, roundVars, reply, registryVars>>
-----------------------------------------------------------------------------
(* execute_step and execute_step_with_scope. *)
RegisterStep ==
    /\ pc = "register"
    /\ \E s \in StepId :
          /\ steps[s] = "none"
          /\ Registry!SetMainActiveStep(Main, s)
          /\ cur' = s
    /\ retried' = FALSE
    /\ soft' = {} /\ bypassed' = {} /\ fuseFail' = FALSE
    /\ asks' = {} /\ current' = NoCall /\ unasked' = {}
    /\ Goto("begin")
    /\ UNCHANGED <<runVars, cont, reflected, kind, reply>>

(* run_step_input_phase; FailRun: the input is rejected. *)
BeginStep ==
    /\ pc = "begin"
    /\ \/ Try(CanBeginStep, BeginStepWithId(cur), "compactCheck")
          /\ UNCHANGED localVars
       \/ FailRun

CompactionCheck ==
    /\ pc = "compactCheck"
    /\ \/ HandleStepControl
       \/ /\ ~StepTokenCancelled
          /\ \/ Move("BeginCompaction", "compact")
             \/ Goto("prepareInterrupt")
                /\ UNCHANGED <<runVars, localVars, registryVars>>
             \/ FailRun                                     \* TimedOut

Compact ==
    /\ pc = "compact"
    /\ \/ HandleStepControl
       \/ /\ ~StepTokenCancelled
          /\ \/ Goto("compacted") /\ UNCHANGED <<runVars, localVars, registryVars>>
             \/ AllowsAutoReflection /\ Move("BeginReflection", "preReflect")
             \/ FailRun                                     \* TimedOut

(* run_pre_compact_reflection_phase_if_staged *)
PreCompactReflection ==
    /\ pc = "preReflect"
    /\ \E next \in {"compacted", "error"} : Move("ReflectionCompleted", next)

Compacted ==
    /\ pc = "compacted"
    /\ Move("CompactionCompleted", IF retried THEN "prepare" ELSE "prepareInterrupt")

PrepareInterrupt == pc = "prepareInterrupt" /\ InterruptOr("prepare")

Prepare == pc = "prepare" /\ Move("ContextPrepared", "model")

(* The model phase.  The port watches the token itself, so an answer may    *)
(* still win over a cancellation.                                           *)
InvokeModel ==
    /\ pc = "model"
    /\ \/ HandleStepControl
       \/ Goto("responseInterrupt") /\ UNCHANGED <<runVars, localVars, registryVars>>
       \/ /\ ~retried                                       \* NeedsCompaction
          /\ Try(Legal("ModelContextExceeded"), Transition("ModelContextExceeded"),
                 "compact")
          /\ retried' = TRUE
          /\ UNCHANGED <<cur, cont, reflected, roundVars, reply>>
       \/ FailRun      \* Failed, TimedOut, NeedsCompaction once more

ResponseInterrupt == pc = "responseInterrupt" /\ InterruptOr("record")

RecordInvocation ==
    /\ pc = "record"
    /\ Try(CanRecordInvocation(cur), RecordModelInvocation(cur), "invoked")
    /\ UNCHANGED localVars

ModelInvoked == pc = "invoked" /\ Move("ModelInvoked", "response")

(* ModelStep::Complete, with the interval reflection at most once in a run. *)
RespondComplete ==
    /\ pc = "response"
    /\ \/ Goto("stopHook") /\ UNCHANGED <<runVars, localVars, registryVars>>
       \/ /\ AllowsAutoReflection /\ ~reflected
          /\ Try(Legal("BeginReflection"), Transition("BeginReflection"), "reflect")
          /\ reflected' = TRUE
          /\ UNCHANGED <<cur, cont, retried, roundVars, reply>>

Reflect ==
    /\ pc = "reflect"
    /\ \E next \in {"stopHook", "error"} : Move("ReflectionCompleted", next)

(* coordinate_stop_hook and the text stall check that follows Proceed.  A   *)
(* block schedules the hook's feedback as the next input.                   *)
StopHook ==
    /\ pc = "stopHook"
    /\ \/ HandleStepControl
       \/ /\ \E next \in {"continue", "fail"} : Goto(next)   \* stall: Allow, Fail
          /\ UNCHANGED <<runVars, localVars, registryVars>>
       \/ /\ RecordStopHookBlock
          /\ MoreSteps \/ RetryExhausted(stopHookBlockCount')
          /\ Goto(IF RetryExhausted(stopHookBlockCount') THEN "fail" ELSE "continue")
          /\ cont' = TRUE
          /\ UNCHANGED <<cur, retried, reflected, roundVars, reply, registryVars>>

Continue == pc = "continue" /\ Move("ContinueAfterResponse", "completeStep")

FailStep == pc \in {"fail", "failing"} /\ FailRun

(* complete_step and the finalization; a tool round moves on after it. *)
CompleteTheStep ==
    /\ pc = "completeStep"
    /\ Try(CanCompleteStep(cur), CompleteStep(cur),
           IF status = "ExecutingTools" THEN "toolsCompleted" ELSE "stepEnd")
    /\ UNCHANGED localVars

StepEnd ==
    /\ pc = "stepEnd"
    /\ Registry!ClearMainActiveStep(Main, cur)
    /\ Goto("control")
    /\ UNCHANGED <<runVars, localVars>>
-----------------------------------------------------------------------------
(* ModelStep::Tools. *)
RespondTools ==
    /\ pc = "response" /\ MoreSteps
    /\ Move("ResponseWithTools", "addCalls")

(* One call is added and judged by the guard: allowed, blocked, or blocked  *)
(* and the run to fail after the round; then all later ones are blocked.    *)
AddCall ==
    /\ pc = "addCalls"
    /\ \E c \in CallId, d \in {"Allow", "SoftBlock", "Fail"} :
          /\ calls[cur][c] = "none"
          /\ fuseFail => d = "SoftBlock"
          /\ Try(CanAddToolCall(cur), AddToolCall(cur, c), "addCalls")
          /\ soft' = IF d = "Allow" THEN soft ELSE soft \cup {c}
          /\ fuseFail' = (fuseFail \/ d = "Fail")
    /\ UNCHANGED <<cur, cont, retried, reflected, bypassed, asks, kind, current,
                   unasked, reply>>

(* Mutant: the calls are run before they are ready. *)
BuggyCallsAdded ==
    /\ pc = "addCalls" /\ \E c \in CallId : calls[cur][c] # "none"
    /\ Goto("tools") /\ UNCHANGED <<runVars, localVars, registryVars>>

CallsAdded ==
    /\ pc = "addCalls" /\ \E c \in CallId : calls[cur][c] # "none"
    /\ Goto("ready") /\ UNCHANGED <<runVars, localVars, registryVars>>

(* Advances one of the calls S by the status `to`, or goes on when none is left. *)
AdvanceCalls(S, to, andThen) ==
    IF S = {} THEN andThen
    ELSE /\ \E c \in S : Try(CanAdvanceToolCall(cur, c, to),
                             AdvanceToolCall(cur, c, to), pc)
         /\ UNCHANGED localVars

ReadyCalls ==
    /\ pc = "ready"
    /\ AdvanceCalls({c \in CallId : calls[cur][c] = "Pending"}, "Ready",
                    Move("ToolsApproved", "start"))

StartCalls ==
    /\ pc = "start"
    /\ AdvanceCalls({c \in CallId \ soft : calls[cur][c] = "Ready"}, "Running",
                    Goto("tools") /\ UNCHANGED <<runVars, localVars, registryVars>>)

(* The tool round: which calls suspend on a question, which the policy      *)
(* holds for approval, which blocked calls it lets run.                     *)
RunTools ==
    /\ pc = "tools"
    /\ \/ HandleStepControl
       \/ FailRun                                           \* Failed, TimedOut
       \/ /\ ~StepTokenCancelled
          /\ \E questions, approvals, lifted \in SUBSET {c \in CallId : calls[cur][c] # "none"} :
                /\ questions \cap (soft \cup approvals) = {}
                /\ lifted \subseteq soft \ approvals
                /\ bypassed' = lifted
                /\ asks' = IF questions # {} THEN questions ELSE approvals
                /\ kind' = IF questions # {} THEN "CompleteToolCall"
                           ELSE "ContinueToolApproval"
                /\ unasked' = IF questions # {} THEN approvals ELSE {}
          /\ Goto("toolsInterrupt")
          /\ UNCHANGED <<runVars, cur, cont, retried, reflected, soft, fuseFail,
                         current, reply, registryVars>>

ToolsInterrupt ==
    /\ pc = "toolsInterrupt"
    /\ \/ RootCancelled /\ Shutdown
       \/ ~RootCancelled /\ FailRun
       \/ /\ ~RootCancelled
          /\ Goto("finishCalls")
          /\ cont' = (cont \/ asks = {})      \* ToolRoundContinuation::ToolResults
          /\ UNCHANGED <<runVars, cur, retried, reflected, roundVars, reply, registryVars>>

Unfinished == {c \in CallId \ (asks \cup unasked) :
                  calls[cur][c] \notin FinishedCall \cup {"none"}}

(* The calls that need no user get their result. *)
FinishCalls ==
    /\ pc = "finishCalls"
    /\ \/ /\ Unfinished # {}
          /\ \E c \in Unfinished :
                LET to == IF c \notin soft \/ c \in bypassed
                          THEN "Success" ELSE "Cancelled"
                IN Try(CanAdvanceToolCall(cur, c, to), AdvanceToolCall(cur, c, to), pc)
          /\ UNCHANGED localVars
       \/ /\ Unfinished = {}
          /\ Goto(IF asks = {} THEN "completeStep" ELSE "ask")
          /\ UNCHANGED <<runVars, localVars, registryVars>>

(* ToolsCompleted; after the fuse gave up, the run fails. *)
ToolsCompleted ==
    /\ pc = "toolsCompleted"
    /\ Move("ToolsCompleted", IF ~InScope THEN "control"
                              ELSE IF fuseFail THEN "fail" ELSE "stepEnd")

(* handle_suspensions, handle_tool_approvals and the queued request of      *)
(* handle_interaction_outcome: the request is registered and the run waits. *)
Ask ==
    /\ pc = "ask"
    /\ \E c \in asks, q \in RequestId :
          /\ Try(CanBeginInteraction(kind), BeginInteraction(q, kind),
                 IF ~InScope THEN "control" ELSE IF fuseFail THEN "fail" ELSE "stepEnd")
          /\ current' = c /\ asks' = asks \ {c}
    /\ reply' = "open"
    /\ UNCHANGED <<cur, cont, retried, reflected, soft, bypassed, fuseFail, kind, unasked>>

(* handle_interaction_completion: the run resumes, then the call gets its   *)
(* result; an answer schedules the tool results as the next input.          *)
TakeReply ==
    /\ pc = "await" /\ reply \notin {"idle", "open"}
    /\ Try(status = "AwaitingUser", SettleInteraction(pendingInteraction), "resolve")
    /\ UNCHANGED localVars

Resolve ==
    /\ pc = "resolve"
    /\ \E to \in IF reply = "declined" THEN {"Cancelled"}
               ELSE {"Success"} \cup {x \in {"Error"} : kind = "ContinueToolApproval"} :
          Try(CanAdvanceToolCall(cur, current, to), AdvanceToolCall(cur, current, to),
              IF asks = {} THEN "completeStep" ELSE "ask")
    /\ cont' = (cont \/ reply = "answered")
    /\ reply' = "idle" /\ current' = NoCall
    /\ UNCHANGED <<cur, retried, reflected, soft, bypassed, fuseFail, asks, kind, unasked>>
-----------------------------------------------------------------------------
(* finish_cancelled_step after the request. *)
FinishCancellation ==
    \/ /\ pc = "cancelling"
       /\ BeginStepFinalization(cur) /\ Goto("finalizing")
       /\ UNCHANGED <<localVars, registryVars>>
    \/ /\ pc = "finalizing"
       /\ \E final \in {"Cancelled", "CancellationUnconfirmed"} :
             FinishStepCancellation(cur, final)
       /\ Goto(after)
       /\ UNCHANGED <<localVars, registryVars>>

FinishTheTermination ==
    /\ pc = "terminating"
    /\ Try(termination # "none" /\ status = "Terminating", FinishTermination, "emit")
    /\ UNCHANGED localVars

(* Mutant: a run that ends outside a step leaves its event in the queue. *)
BuggyEmit ==
    /\ pc = "emit"
    /\ IF events = <<>> \/ ~InScope THEN UNCHANGED runVars ELSE DrainEvents
    /\ Goto(after)
    /\ UNCHANGED <<localVars, registryVars>>

(* The terminal event reaches the sink, which queues it without waiting. *)
Emit ==
    /\ pc = "emit"
    /\ IF events = <<>> THEN UNCHANGED runVars ELSE DrainEvents
    /\ Goto(after)
    /\ UNCHANGED <<localVars, registryVars>>

(* The phases that call a port, whose error is passed up. *)
FalliblePoints ==
    {"manualCompact", "drain", "await", "compactCheck", "compact", "stopHook",
     "ask", "completeStep", "cancelling", "finalizing", "terminating"}

PortError ==
    /\ pc \in FalliblePoints
    /\ Goto("error") /\ UNCHANGED <<runVars, localVars, registryVars>>

(* An error leaves execute_step, which clears the scope; launch fails the run. *)
Error ==
    /\ pc = "error"
    /\ IF InScope THEN Registry!ClearMainActiveStep(Main, cur) ELSE UNCHANGED registryVars
    /\ Goto("failing") /\ UNCHANGED <<runVars, localVars>>

(* The end of launch. *)
Exit ==
    /\ pc = "exit"
    /\ Registry!Clear(Main)
    /\ Goto("done") /\ UNCHANGED <<runVars, localVars>>

Done == pc = "done" /\ UNCHANGED vars
-----------------------------------------------------------------------------
(* Clients, at any time. *)
Client ==
    /\ \/ Registry!CancelCurrentMain
       \/ Registry!CancelStep(Main)
       \/ \E r \in Reasons : Registry!Terminate(Main, r)
    /\ UNCHANGED <<runVars, engineVars>>

(* The first answer to the open request; the bridge turns away the others. *)
Reply ==
    /\ reply = "open" /\ Suspended
    /\ reply' \in {"answered", "declined"}
    /\ UNCHANGED <<runVars, pc, after, cur, cont, retried, reflected, roundVars,
                   refused, registryVars>>

EngineStep ==
    \/ Start \/ ManualCompaction \/ ManualReflection
    \/ LoopTop \/ LoopInterrupt
    \/ InputCancelled \/ InputTimedOut
    \/ DrainReady \/ DrainContinuation \/ DrainSealed \/ ApplyDecision
    \/ AwaitInput \/ AwaitUser
    \/ RegisterStep \/ BeginStep \/ CompactionCheck \/ Compact
    \/ PreCompactReflection \/ Compacted \/ PrepareInterrupt \/ Prepare
    \/ InvokeModel \/ ResponseInterrupt \/ RecordInvocation \/ ModelInvoked
    \/ RespondComplete \/ Reflect \/ StopHook \/ Continue \/ FailStep
    \/ CompleteTheStep \/ StepEnd
    \/ RespondTools \/ AddCall \/ CallsAdded \/ ReadyCalls \/ StartCalls
    \/ RunTools \/ ToolsInterrupt \/ FinishCalls \/ ToolsCompleted
    \/ Ask \/ TakeReply \/ Resolve
    \/ FinishCancellation \/ FinishTheTermination \/ Emit
    \/ Error \/ Exit

EngineNext == EngineStep \/ PortError \/ Client \/ Reply \/ Done

EngineSpec == EngineInit /\ [][EngineNext]_vars

(* The engine's task is polled as long as it can move; no port has to fail. *)
FairEngineSpec == EngineSpec /\ WF_vars(EngineStep)
-----------------------------------------------------------------------------
Points ==
    {"created", "beginCompact", "manualCompact", "beginReflect", "manualReflect",
     "control", "interrupt", "drain", "await", "applyInputs", "applySealed",
     "applyContinuation", "register", "begin", "compactCheck", "compact",
     "preReflect", "compacted", "prepareInterrupt", "prepare", "model",
     "responseInterrupt", "record", "invoked", "response", "reflect", "stopHook",
     "continue", "fail", "completeStep", "stepEnd", "addCalls", "ready", "start",
     "tools", "toolsInterrupt", "finishCalls", "toolsCompleted", "ask", "resolve",
     "cancelling", "finalizing", "terminating", "emit", "error", "failing",
     "exit", "done"}

(* The Run, its registry entry and the engine's own variables are well       *)
(* typed; a blocked call only is let run.                                    *)
EngineTypeOK ==
    /\ TypeOK
    /\ Registry!RegistryTypeOK
    /\ pc \in Points /\ after \in {"control", "stepEnd", "exit"}
    /\ cur \in StepId \cup {NoStep} /\ current \in CallId \cup {NoCall}
    /\ {cont, retried, reflected, fuseFail, refused} \subseteq BOOLEAN
    /\ soft \subseteq CallId /\ bypassed \subseteq soft
    /\ kind \in Continuations /\ asks \subseteq CallId /\ unasked \subseteq CallId
    /\ reply \in {"idle", "open", "answered", "declined"}

(* The Run refuses a command of the engine only in two kinds of tool round:  *)
(* one that drops approvals, and one in which a call the guard blocked was    *)
(* never started and is to succeed.  Every other `?` on a Run command, and    *)
(* the check that a cancellation names the active step, is there for a case   *)
(* that does not happen, whatever the clients do in between.                  *)
RefusedOnlyInToolRound ==
    refused => unasked # {} \/ \E c \in soft : calls[cur][c] = "Ready"

(* launch returns with the run in a terminal status and its terminal event    *)
(* delivered, or with a run that still waits for an answer.                   *)
ExitIsSettled ==
    pc = "done" => (IsTerminal(status) /\ events = <<>>) \/ Suspended

(* The engine drains input only between steps, and waits for the user only   *)
(* while the step that asks is active: the branches of the loop that resume  *)
(* an AwaitingUser run without an interaction are dead code.  When the engine *)
(* registers a request, no earlier one is left in the mailbox of the run,     *)
(* which module InteractionBridge relies on.                                  *)
DrainsOnlyWhenIdle ==
    /\ pc = "ask" => reply = "idle"
    /\ pc = "drain" => status = "DrainingInput" /\ ~SomeActiveStep
    /\ pc = "await" => Suspended /\ IsActive(cur) /\ ~InScope

(* Only a termination of the run, or the cancellation of a manual reflection *)
(* (which has no step to cancel), ends the run as Terminated: cancelling a   *)
(* step never does.                                                          *)
TerminatedOnlyOnRequest ==
    status \in {"Terminating", "Terminated"} /\ pc # "done" =>
        \/ Registry!Terminating(Main)
        \/ RootCancelled /\ intent = "ManualReflection"

(* What the engine does to the Run are steps of the aggregate, so whatever   *)
(* holds of AgentRun holds of a run the engine drives.  (Spec of AgentRun,    *)
(* with the stuttering step written first, which TLC evaluates faster.)       *)
ImplementsRun == Init /\ [][UNCHANGED runVars \/ Next]_runVars

(* A step that a client cancels is left: the engine reacts at the next point *)
(* where it watches the token, or the step ends by itself.                   *)
CancelCompletes ==
    (InScope /\ active[Main].stepCancelled) ~> ~InScope

(* An accepted termination ends the run, also one that waits for the user.   *)
TerminationCompletes == Registry!Terminating(Main) ~> pc = "done"

(* The Run counts on past the limit of the stop hook as long as it is asked *)
(* to.  The engine never asks again: the first block beyond the limit fails *)
(* the run, whatever the clients request at that moment.                    *)
ExhaustedFails ==
    RetryExhausted(stopHookBlockCount) =>
        stopHookBlockCount = MaxBlocks + 1 /\ (pc = "fail" \/ status = "Failed")

(* The engine is well typed, and where it drains, waits and asks, the Run   *)
(* is in the status and the step in the phase this place is written for; a  *)
(* stop hook that blocks once too often ends the run in Failed.             *)
EngineOK == EngineTypeOK /\ DrainsOnlyWhenIdle /\ ExhaustedFails

(* A control that was accepted takes effect: the cancelled step is left and *)
(* the terminated run ends, however the request falls between the points    *)
(* where the engine looks.                                                  *)
ControlsComplete == CancelCompletes /\ TerminationCompletes

=============================================================================
