------------------------------ MODULE AgentRun ------------------------------
(***************************************************************************)
(* The Run aggregate of the runtime (domain/agent_run): one execution of   *)
(* the agent, its status machine, its steps with their tool calls, the     *)
(* interaction it is suspended on and the control commands that cancel a   *)
(* step or terminate the run.                                              *)
(*                                                                         *)
(* Two ways of changing the status exist and both are kept apart here as   *)
(* in the code: the transition matrix (Transition) and the command gate    *)
(* (CommandStatusAllowed).  A rejected command that changes nothing is a   *)
(* stuttering step and needs no action; the commands that change part of   *)
(* the state BEFORE they are rejected have an action for that case.        *)
(*                                                                         *)
(* Next lets the methods be called in any order: what is proved here does  *)
(* not depend on the loop engine's discipline.                             *)
(***************************************************************************)
EXTENDS Naturals, Sequences

CONSTANTS
    StepId,         \* identities of run steps (UUIDs in the code)
    CallId,         \* identities of the tool calls of a step
    RequestId,      \* identities of interaction requests
    MaxBlocks,      \* StopHookPolicy.max_blocks
    MaxCount,       \* usize::MAX, where stop_hook_block_count saturates
    EpochModulus    \* next_drain_epoch counts modulo this (2^64 in the code)

ASSUME BoundsAssumption ==
    /\ MaxCount \in Nat /\ MaxBlocks \in 0 .. MaxCount
    /\ EpochModulus \in Nat \ {0}

CONSTANT NoRequest \* "no interaction is pending" (Option::None)
ASSUME NoRequestAssumption == NoRequest \notin RequestId

Intents == {"Conversation", "ManualCompaction", "ManualReflection",
            "BackgroundProcessWakeup"}
ManualIntents == {"ManualCompaction", "ManualReflection"}

(* Which of the termination reasons the sdk lists matters only in that the *)
(* user's exits are told apart from the shutdown of the session.           *)
Reasons == {"UserExit", "SessionShutdown"}

TerminalStatus == {"Completed", "Failed", "Terminated"}
RunStatus ==
    {"Created", "DrainingInput", "PreparingContext", "InvokingModel",
     "ApplyingResponse", "AwaitingToolApproval", "ExecutingTools",
     "AwaitingUser", "Compacting", "Reflecting", "CancellingStep",
     "FinalizingStep", "Terminating"} \cup TerminalStatus

InactiveStep == {"Done", "Failed", "Cancelled", "CancellationUnconfirmed"}
ActiveStep == {"Invoking", "Applying", "ToolPhase", "Cancelling", "Finalizing"}

FinishedCall == {"Success", "Error", "Cancelled"}
CallStatus == {"Pending", "Ready", "Running"} \cup FinishedCall

RunTransition ==
    {"StartDraining", "DrainInputs", "DrainInternalContinuation",
     "DrainEmptyAndSealed", "BeginCompaction", "CompactionCompleted",
     "BeginReflection", "ReflectionCompleted", "ContextPrepared",
     "RetryModel", "ModelContextExceeded", "ModelInvoked",
     "ResponseWithTools", "ContinueAfterResponse", "ToolsApproved",
     "AwaitUser", "UserResumed", "ToolsCompleted", "StepCancelled",
     "TerminationFinished"}

Continuations == {"CompleteToolCall", "ContinueToolApproval"}

VARIABLES
    intent,                 \* spec.intent(): fixed when the run is created
    status,                 \* Run.status
    reflectionReturn,       \* Run.reflection_return_status ("none": None)
    termination,            \* reason of Run.termination ("none": None)
    pendingInteraction,     \* request id of Run.pending_interaction
    nextDrainEpoch,         \* Run.next_drain_epoch
    stopHookBlockCount,     \* Run.stop_hook_block_count
    userCancelledStep,      \* Run.user_cancelled_step
    steps,                  \* [StepId -> status]; "none": not begun
    invoked,                \* steps whose invocation is recorded
    calls,                  \* [StepId -> [CallId -> status]]; "none": not added
    events                  \* terminal events pushed and not drained yet

runVars == <<intent, status, reflectionReturn, termination, pendingInteraction,
             nextDrainEpoch, stopHookBlockCount, userCancelledStep, steps,
             invoked, calls, events>>
stepVars == <<steps, invoked, calls>>

IsTerminal(s) == s \in TerminalStatus
IsActive(s) == steps[s] \in ActiveStep
SomeActiveStep == \E s \in StepId : IsActive(s)

(* RunStep::is_complete *)
IsComplete(s) ==
    /\ s \in invoked
    /\ \A c \in CallId : calls[s][c] \in FinishedCall \cup {"none"}

(* ToolCallStatus::can_transition_to *)
CanTransitionTo(from, to) ==
    \/ from = "Pending" /\ to \in {"Ready", "Cancelled"}
    \/ from = "Ready" /\ to \in {"Running", "Cancelled"}
    \/ from = "Running" /\ to \in FinishedCall

RejectsControlledWork ==
    status \in {"CancellingStep", "FinalizingStep", "Terminating"} \cup TerminalStatus

(* RunIntent::allows_auto_reflection *)
AllowsAutoReflection == intent = "Conversation"

-----------------------------------------------------------------------------
(* The command gate: statuses a command may set without the matrix. *)
(* Mutant: the terminal statuses are not checked first. *)
BuggyCommandStatusAllowed(from, to) ==
    to \in {"Terminating", "Failed", "CancellingStep", "FinalizingStep"}

CommandStatusAllowed(from, to) ==
    /\ ~IsTerminal(from)
    /\ \/ to \in {"Terminating", "Failed", "CancellingStep"}
       \/ to = "FinalizingStep" /\ from = "CancellingStep"
       \/ /\ to = "AwaitingUser"
          /\ from \in {"InvokingModel", "ApplyingResponse",
                       "AwaitingToolApproval", "ExecutingTools", "DrainingInput"}
       \/ /\ to \in {"ExecutingTools", "PreparingContext", "ApplyingResponse",
                     "AwaitingToolApproval", "DrainingInput"}
          /\ from = "AwaitingUser"

(* The intent gates that Run::transition checks before the matrix. *)
(* Mutant: the gate of ContextPrepared is missing. *)
BuggyIntentAllows(t) ==
    t = "BeginReflection" =>
        \/ status = "DrainingInput" /\ intent = "ManualReflection"
        \/ status \in {"ApplyingResponse", "Compacting"} /\ AllowsAutoReflection

IntentAllows(t) ==
    /\ t = "BeginCompaction" /\ status = "DrainingInput" =>
           intent = "ManualCompaction"
    /\ t = "ContextPrepared" => intent \notin ManualIntents
    /\ t = "BeginReflection" =>
           \/ status = "DrainingInput" /\ intent = "ManualReflection"
           \/ status \in {"ApplyingResponse", "Compacting"} /\ AllowsAutoReflection
    /\ t = "ModelInvoked" /\ status = "InvokingModel" =>
           \E s \in StepId : IsActive(s) /\ s \in invoked

(* The transition matrix: the pairs (transition, target) that are legal in  *)
(* the current status.                                                      *)
Matrix(t, to) ==
    \/ t = "StartDraining" /\ status = "Created" /\ to = "DrainingInput"
    \/ /\ t \in {"DrainInputs", "DrainInternalContinuation"}
       /\ status = "DrainingInput" /\ to = "PreparingContext"
    \/ t = "DrainEmptyAndSealed" /\ status = "DrainingInput" /\ to = "Completed"
    \/ /\ t = "BeginCompaction" /\ status \in {"PreparingContext", "DrainingInput"}
       /\ to = "Compacting"
    \/ /\ t = "CompactionCompleted" /\ status = "Compacting"
       /\ to = IF SomeActiveStep THEN "PreparingContext" ELSE "DrainingInput"
    \/ /\ t = "BeginReflection"
       /\ status \in {"DrainingInput", "ApplyingResponse", "Compacting"}
       /\ to = "Reflecting"
    \/ /\ t = "ReflectionCompleted" /\ status = "Reflecting"
       /\ reflectionReturn # "none" /\ to = reflectionReturn
    \/ t = "ContextPrepared" /\ status = "PreparingContext" /\ to = "InvokingModel"
    \/ t = "RetryModel" /\ status = "InvokingModel" /\ to = "InvokingModel"
    \/ t = "ModelContextExceeded" /\ status = "InvokingModel" /\ to = "Compacting"
    \/ t = "ModelInvoked" /\ status = "InvokingModel" /\ to = "ApplyingResponse"
    \/ /\ t = "ResponseWithTools" /\ status = "ApplyingResponse"
       /\ to = "AwaitingToolApproval"
    \/ /\ t = "ContinueAfterResponse" /\ status = "ApplyingResponse"
       /\ to = "DrainingInput"
    \/ /\ t = "ToolsApproved" /\ status = "AwaitingToolApproval"
       /\ to = "ExecutingTools"
    \/ /\ t = "AwaitUser" /\ status \in {"AwaitingToolApproval", "ExecutingTools"}
       /\ to = "AwaitingUser"
    \/ t = "UserResumed" /\ status = "AwaitingUser" /\ to = "DrainingInput"
    \/ t = "ToolsCompleted" /\ status = "ExecutingTools" /\ to = "DrainingInput"
    \/ t = "StepCancelled" /\ status = "FinalizingStep" /\ to = "DrainingInput"
    \/ t = "TerminationFinished" /\ status = "Terminating" /\ to = "Terminated"

Legal(t) == IntentAllows(t) /\ \E to \in RunStatus : Matrix(t, to)

(* Effect of Run::transition on the fields it owns. *)
(* Mutant: BeginReflection does not note where to return to. *)
BuggyMoves(t) ==
    /\ IntentAllows(t)
    /\ \E to \in RunStatus : Matrix(t, to) /\ status' = to
    /\ reflectionReturn' = IF t = "ReflectionCompleted" THEN "none"
                           ELSE reflectionReturn

Moves(t) ==
    /\ IntentAllows(t)
    /\ \E to \in RunStatus : Matrix(t, to) /\ status' = to
    /\ reflectionReturn' = IF t = "BeginReflection" THEN status
                           ELSE IF t = "ReflectionCompleted" THEN "none"
                           ELSE reflectionReturn

SetStatusByCommand(to) == CommandStatusAllowed(status, to) /\ status' = to

-----------------------------------------------------------------------------
Init ==
    /\ intent \in Intents
    /\ status = "Created"
    /\ reflectionReturn = "none"
    /\ termination = "none"
    /\ pendingInteraction = NoRequest
    /\ nextDrainEpoch = 0
    /\ stopHookBlockCount = 0
    /\ userCancelledStep = FALSE
    /\ steps = [s \in StepId |-> "none"]
    /\ invoked = {}
    /\ calls = [s \in StepId |-> [c \in CallId |-> "none"]]
    /\ events = <<>>

(* Run::transition for the transitions the engine issues directly.  The    *)
(* four others are wrapped by StartDraining, ApplyDrainDecision,           *)
(* FinishStepCancellation and FinishTermination.                           *)
DirectTransitions ==
    RunTransition \ {"StartDraining", "DrainInputs", "DrainInternalContinuation",
                     "DrainEmptyAndSealed", "StepCancelled", "TerminationFinished"}

Transition(t) ==
    /\ Moves(t)
    /\ UNCHANGED <<intent, termination, pendingInteraction, nextDrainEpoch,
                   stopHookBlockCount, userCancelledStep, stepVars, events>>

StartDraining == Transition("StartDraining")

(* begin_manual_compaction, begin_manual_reflection: the transition, from   *)
(* DrainingInput and for the one intent only.                               *)
BeginManualCompaction ==
    /\ intent = "ManualCompaction" /\ status = "DrainingInput"
    /\ Transition("BeginCompaction")

BeginManualReflection ==
    /\ intent = "ManualReflection" /\ status = "DrainingInput"
    /\ Transition("BeginReflection")

CompletedEvent ==
    IF userCancelledStep THEN "CompletedUserCancelled" ELSE "Completed"

(* apply_drain_decision: d is the transition the decision stands for. *)
ApplyDrainDecision(d) ==
    /\ d \in {"DrainInputs", "DrainInternalContinuation", "DrainEmptyAndSealed"}
    /\ Moves(d)
    /\ events' = IF d = "DrainEmptyAndSealed" THEN Append(events, CompletedEvent)
                 ELSE events
    /\ UNCHANGED <<intent, termination, pendingInteraction, nextDrainEpoch,
                   stopHookBlockCount, userCancelledStep, stepVars>>

NextEpoch(e) == (e + 1) % EpochModulus

AdvanceDrainEpoch ==
    /\ nextDrainEpoch' = NextEpoch(nextDrainEpoch)
    /\ UNCHANGED <<intent, status, reflectionReturn, termination,
                   pendingInteraction, stopHookBlockCount, userCancelledStep,
                   stepVars, events>>

(* record_stop_hook_block counts with saturating_add, whatever the limit;   *)
(* it answers RetryExhausted when the count exceeds MaxBlocks.              *)
RetryExhausted(count) == count > MaxBlocks

(* Mutant: the count is not saturated. *)
BuggyRecordStopHookBlock ==
    /\ stopHookBlockCount' = stopHookBlockCount + 1
    /\ UNCHANGED <<intent, status, reflectionReturn, termination,
                   pendingInteraction, nextDrainEpoch, userCancelledStep,
                   stepVars, events>>

RecordStopHookBlock ==
    /\ stopHookBlockCount' = IF stopHookBlockCount < MaxCount
                             THEN stopHookBlockCount + 1 ELSE MaxCount
    /\ UNCHANGED <<intent, status, reflectionReturn, termination,
                   pendingInteraction, nextDrainEpoch, userCancelledStep,
                   stepVars, events>>
-----------------------------------------------------------------------------
(* Steps and their tool calls. *)
(* Mutant: forgets that only one step may be active. *)
BuggyCanBeginStep == status \in {"PreparingContext", "InvokingModel"}

CanBeginStep == /\ status \in {"PreparingContext", "InvokingModel"}
                /\ ~SomeActiveStep

BeginStepWithId(s) ==
    /\ CanBeginStep
    /\ steps[s] = "none"            \* step ids are fresh UUIDs
    /\ steps' = [steps EXCEPT ![s] = "Invoking"]
    /\ UNCHANGED <<intent, status, reflectionReturn, termination,
                   pendingInteraction, nextDrainEpoch, stopHookBlockCount,
                   userCancelledStep, invoked, calls, events>>

CanRecordInvocation(s) == ~RejectsControlledWork /\ IsActive(s) /\ s \notin invoked

RecordModelInvocation(s) ==
    /\ CanRecordInvocation(s)
    /\ invoked' = invoked \cup {s}
    /\ steps' = [steps EXCEPT ![s] = "Applying"]
    /\ UNCHANGED <<intent, status, reflectionReturn, termination,
                   pendingInteraction, nextDrainEpoch, stopHookBlockCount,
                   userCancelledStep, calls, events>>

CanAddToolCall(s) == ~RejectsControlledWork /\ IsActive(s)

AddToolCall(s, c) ==
    /\ CanAddToolCall(s)
    /\ calls[s][c] = "none"
    /\ calls' = [calls EXCEPT ![s][c] = "Pending"]
    /\ steps' = [steps EXCEPT ![s] = "ToolPhase"]
    /\ UNCHANGED <<intent, status, reflectionReturn, termination,
                   pendingInteraction, nextDrainEpoch, stopHookBlockCount,
                   userCancelledStep, invoked, events>>

CanAdvanceToolCall(s, c, to) ==
    /\ ~RejectsControlledWork /\ IsActive(s)
    /\ CanTransitionTo(calls[s][c], to)

AdvanceToolCall(s, c, to) ==
    /\ CanAdvanceToolCall(s, c, to)
    /\ calls' = [calls EXCEPT ![s][c] = to]
    /\ UNCHANGED <<intent, status, reflectionReturn, termination,
                   pendingInteraction, nextDrainEpoch, stopHookBlockCount,
                   userCancelledStep, steps, invoked, events>>

CanCompleteStep(s) == ~RejectsControlledWork /\ IsActive(s) /\ IsComplete(s)

CompleteStep(s) ==
    /\ CanCompleteStep(s)
    /\ steps' = [steps EXCEPT ![s] = "Done"]
    /\ UNCHANGED <<intent, status, reflectionReturn, termination,
                   pendingInteraction, nextDrainEpoch, stopHookBlockCount,
                   userCancelledStep, invoked, calls, events>>
-----------------------------------------------------------------------------
(* Interactions: the run is suspended on one request at a time. *)
CanBeginInteraction(k) ==
    /\ ~RejectsControlledWork
    /\ pendingInteraction = NoRequest
    /\ \/ status = "ExecutingTools"
       \/ k = "ContinueToolApproval" /\ status = "AwaitingToolApproval"

BeginInteraction(q, k) ==
    /\ CanBeginInteraction(k)
    /\ pendingInteraction' = q
    /\ SetStatusByCommand("AwaitingUser")
    /\ UNCHANGED <<intent, reflectionReturn, termination, nextDrainEpoch,
                   stopHookBlockCount, userCancelledStep, stepVars, events>>

(* complete_interaction and cancel_interaction: the request is taken first; *)
(* the gate then lets the run resume only from AwaitingUser, so a call in   *)
(* another status loses the request and reports an error.                   *)
SettleInteraction(q) ==
    /\ pendingInteraction = q /\ q # NoRequest
    /\ pendingInteraction' = NoRequest
    /\ status' = IF CommandStatusAllowed(status, "ExecutingTools")
                 THEN "ExecutingTools" ELSE status
    /\ UNCHANGED <<intent, reflectionReturn, termination, nextDrainEpoch,
                   stopHookBlockCount, userCancelledStep, stepVars, events>>

CompleteInteraction(q) == SettleInteraction(q)
CancelInteraction(q) == SettleInteraction(q)
-----------------------------------------------------------------------------
(* Control commands. *)
CanRequestStepCancellation(s) ==
    /\ ~IsTerminal(status) /\ status # "Terminating"
    /\ steps[s] \in ActiveStep \ {"Cancelling", "Finalizing"}

(* Mutant: the status of the run is set, that of the step is not. *)
BuggyRequestStepCancellation(s) ==
    /\ CanRequestStepCancellation(s)
    /\ pendingInteraction' = NoRequest
    /\ SetStatusByCommand("CancellingStep")
    /\ UNCHANGED <<intent, reflectionReturn, termination, nextDrainEpoch,
                   stopHookBlockCount, userCancelledStep, stepVars, events>>

RequestStepCancellation(s) ==
    /\ CanRequestStepCancellation(s)
    /\ pendingInteraction' = NoRequest
    /\ steps' = [steps EXCEPT ![s] = "Cancelling"]
    /\ SetStatusByCommand("CancellingStep")
    /\ UNCHANGED <<intent, reflectionReturn, termination, nextDrainEpoch,
                   stopHookBlockCount, userCancelledStep, invoked, calls, events>>

(* begin_step_finalization: the step moves to Finalizing even when the gate *)
(* then refuses the run's status (a termination got in between).            *)
BeginStepFinalization(s) ==
    /\ steps[s] = "Cancelling"
    /\ steps' = [steps EXCEPT ![s] = "Finalizing"]
    /\ status' = IF CommandStatusAllowed(status, "FinalizingStep")
                 THEN "FinalizingStep" ELSE status
    /\ UNCHANGED <<intent, reflectionReturn, termination, pendingInteraction,
                   nextDrainEpoch, stopHookBlockCount, userCancelledStep,
                   invoked, calls, events>>

(* finish_step_cancellation: step status and user_cancelled_step are set    *)
(* before the StepCancelled transition, which may still be refused.         *)
FinishStepCancellation(s, final) ==
    /\ final \in {"Cancelled", "CancellationUnconfirmed"}
    /\ steps[s] = "Finalizing"
    /\ steps' = [steps EXCEPT ![s] = final]
    /\ userCancelledStep' = (userCancelledStep \/ final = "Cancelled")
    /\ status' = IF Legal("StepCancelled") THEN "DrainingInput" ELSE status
    /\ UNCHANGED <<intent, reflectionReturn, termination, pendingInteraction,
                   nextDrainEpoch, stopHookBlockCount, invoked, calls, events>>

CanRequestTermination == ~IsTerminal(status) /\ status # "Terminating"

RequestTermination(r) ==
    /\ CanRequestTermination
    /\ termination' = r
    /\ pendingInteraction' = NoRequest
    /\ SetStatusByCommand("Terminating")
    /\ UNCHANGED <<intent, reflectionReturn, nextDrainEpoch, stopHookBlockCount,
                   userCancelledStep, stepVars, events>>

(* Mutant: a step that is being cancelled is not closed. *)
BuggyCloseActiveSteps(final) ==
    steps' = [s \in StepId |-> IF steps[s] \in {"Invoking", "Applying", "ToolPhase"}
                               THEN final ELSE steps[s]]

CloseActiveSteps(final) ==
    steps' = [s \in StepId |-> IF IsActive(s) THEN final ELSE steps[s]]

FinishTermination ==
    /\ termination # "none"
    /\ Moves("TerminationFinished")
    /\ CloseActiveSteps("CancellationUnconfirmed")
    /\ events' = Append(events, "Terminated")
    /\ UNCHANGED <<intent, termination, pendingInteraction, nextDrainEpoch,
                   stopHookBlockCount, userCancelledStep, invoked, calls>>

(* fail: allowed in every status that is not terminal; note that the        *)
(* pending interaction is left as it is.                                    *)
Fail ==
    /\ SetStatusByCommand("Failed")
    /\ CloseActiveSteps("Failed")
    /\ events' = Append(events, "Failed")
    /\ UNCHANGED <<intent, reflectionReturn, termination, pendingInteraction,
                   nextDrainEpoch, stopHookBlockCount, userCancelledStep,
                   invoked, calls>>

(* drain_events, when the sink accepts them; after a refusal restore_events *)
(* puts them back in front, which leaves the queue as it was.               *)
DrainEvents ==
    /\ events # <<>>
    /\ events' = <<>>
    /\ UNCHANGED <<intent, status, reflectionReturn, termination,
                   pendingInteraction, nextDrainEpoch, stopHookBlockCount,
                   userCancelledStep, stepVars>>
-----------------------------------------------------------------------------
StepCommand(s) ==
    \/ BeginStepWithId(s)
    \/ RecordModelInvocation(s)
    \/ \E c \in CallId : AddToolCall(s, c)
    \/ \E c \in CallId, to \in CallStatus : AdvanceToolCall(s, c, to)
    \/ CompleteStep(s)
    \/ RequestStepCancellation(s)
    \/ BeginStepFinalization(s)
    \/ \E final \in InactiveStep : FinishStepCancellation(s, final)

Next ==
    \/ StartDraining
    \/ BeginManualCompaction
    \/ BeginManualReflection
    \/ \E t \in DirectTransitions : Transition(t)
    \/ \E d \in RunTransition : ApplyDrainDecision(d)
    \/ AdvanceDrainEpoch
    \/ RecordStopHookBlock
    \/ \E s \in StepId : StepCommand(s)
    \/ \E q \in RequestId, k \in Continuations : BeginInteraction(q, k)
    \/ \E q \in RequestId : CompleteInteraction(q)
    \/ \E q \in RequestId : CancelInteraction(q)
    \/ \E r \in Reasons : RequestTermination(r)
    \/ FinishTermination
    \/ Fail
    \/ DrainEvents

Spec == Init /\ [][Next]_runVars
-----------------------------------------------------------------------------
(* The Run is well typed: no command, in whatever order the commands come,  *)
(* takes a field out of its type or the block count out of usize.           *)
TypeOK ==
    /\ intent \in Intents
    /\ status \in RunStatus
    /\ reflectionReturn \in {"none", "DrainingInput", "ApplyingResponse", "Compacting"}
    /\ termination \in Reasons \cup {"none"}
    /\ pendingInteraction \in RequestId \cup {NoRequest}
    /\ nextDrainEpoch \in 0 .. (EpochModulus - 1)
    /\ stopHookBlockCount \in 0 .. MaxCount
    /\ userCancelledStep \in BOOLEAN
    /\ steps \in [StepId -> ActiveStep \cup InactiveStep \cup {"none"}]
    /\ invoked \subseteq StepId
    /\ calls \in [StepId -> [CallId -> CallStatus \cup {"none"}]]
    /\ events \in Seq({"Completed", "CompletedUserCancelled", "Failed", "Terminated"})

(* At most one step is active: begin_step_with_id refuses a second one and  *)
(* no other command reactivates a step (Run::active_step_id takes the first *)
(* it finds).                                                               *)
AtMostOneActiveStep ==
    \A s1, s2 \in StepId : IsActive(s1) /\ IsActive(s2) => s1 = s2

(* The run and the step it cancels stay together through the two phases of  *)
(* a cancellation, even when a termination or a failure gets in between.    *)
CancellationPhases ==
    /\ status = "CancellingStep" => \E s \in StepId : steps[s] = "Cancelling"
    /\ status = "FinalizingStep" => \E s \in StepId : steps[s] = "Finalizing"
    /\ \A s \in StepId :
          /\ steps[s] = "Cancelling" => status \in {"CancellingStep", "Terminating"}
          /\ steps[s] = "Finalizing" => status \in {"FinalizingStep", "Terminating"}

(* A manual compaction or reflection run NEVER calls the model (intent.rs), *)
(* nor reaches any status that follows a model call, whatever the order of  *)
(* the calls and also when a reflection returns to the status it came from. *)
SinglePurposeNeverInvokesModel ==
    intent \in ManualIntents =>
        status \notin {"InvokingModel", "ApplyingResponse",
                       "AwaitingToolApproval", "ExecutingTools", "AwaitingUser"}

(* The branch "reflection without a return status" of Run::transition is    *)
(* unreachable, as its comment claims, also after a reflection that was cut *)
(* short by a cancellation and left its return status behind.               *)
ReflectionHasReturn ==
    status = "Reflecting" => reflectionReturn # "none"

(* The run reports a user cancellation exactly when a step of it was        *)
(* cancelled with confirmed cleanup.                                        *)
UserCancelMeansCancelledStep ==
    userCancelledStep <=> \E s \in StepId : steps[s] = "Cancelled"

(* Failed and Terminated leave no step active. *)
AbortClosesSteps ==
    status \in {"Failed", "Terminated"} => ~SomeActiveStep

(* A terminal status is final, and the run entered it with exactly one      *)
(* terminal event queued: before it there is none, after it none is added.  *)
TerminalOnce ==
    [][ /\ IsTerminal(status) => status' = status /\ Len(events') <= Len(events)
        /\ ~IsTerminal(status) /\ IsTerminal(status') =>
               events = <<>> /\ Len(events') = 1
        /\ ~IsTerminal(status) /\ ~IsTerminal(status') => events' = events ]_runVars
=============================================================================
