-------------------------- MODULE LoopEngineProofs --------------------------
(***************************************************************************)
(* The engine of a main run, for every set of steps, tool calls and        *)
(* interaction requests: it drives the Run by commands of the aggregate    *)
(* only, none of which is refused outside a tool round, it ends with a     *)
(* settled run, and it is where it believes to be, whatever the clients do *)
(* in between.                                                             *)
(*                                                                         *)
(* The inductive invariant says for every point of the engine what the Run,*)
(* the active step, the calls of the round and the registry are like there.*)
(***************************************************************************)
EXTENDS LoopEngine, AgentRunProofs

Entry == active[Main]
Idle == ~InScope /\ ~SomeActiveStep /\ reply = "idle" /\ pendingInteraction = NoRequest
Stepping(ss) == /\ cur \in StepId /\ steps[cur] \in ss /\ intent \notin ManualIntents
                /\ reply = "idle" /\ pendingInteraction = NoRequest
InStep(ss) == InScope /\ Stepping(ss)

(* A call that waits for the user, and one that waits no more. *)
Held(c) == calls[cur][c] = IF c \in soft THEN "Ready" ELSE "Running"
Settled(c) == calls[cur][c] \in FinishedCall \cup {"none"}

(* The round between two requests, and while one is open or answered. *)
RoundAsks ==
    \A c \in CallId : /\ c \in asks => Held(c)
                      /\ c \notin asks \cup unasked => Settled(c)
RoundWaits ==
    /\ current \in CallId \ asks /\ Held(current)
    /\ \A c \in CallId : /\ c \in asks => Held(c)
                         /\ c \notin asks \cup unasked \cup {current} => Settled(c)

Waiting == /\ Suspended /\ reply # "idle" /\ cur \in StepId /\ steps[cur] = "ToolPhase"
           /\ RoundWaits

(* Between two steps, before the scope of the last one is cleared and after. *)
Between ==
    \/ /\ status = "DrainingInput" /\ ~SomeActiveStep
       /\ reply = "idle" /\ pendingInteraction = NoRequest
    \/ Waiting
    \/ IsTerminal(status)

Returns == after = Leave

(* What holds where the engine is. *)
IdlePlaces(p) ==
    /\ p = "created" => Idle /\ status = "Created"
    /\ p = "beginCompact" => Idle /\ status = "DrainingInput" /\ intent = "ManualCompaction"
    /\ p = "beginReflect" => Idle /\ status = "DrainingInput" /\ intent = "ManualReflection"
    /\ p = "manualCompact" => Idle /\ status = "Compacting"
    /\ p = "manualReflect" => Idle /\ status = "Reflecting" /\ reflectionReturn = "DrainingInput"
    /\ p \in {"control", "interrupt"} => ~InScope /\ Between
    /\ p \in {"drain", "applySealed", "applyInputs", "applyContinuation"} =>
          Idle /\ status = "DrainingInput"
    /\ p \in {"applyInputs", "applyContinuation"} => intent \notin ManualIntents
    /\ p = "register" => Idle /\ status = "PreparingContext" /\ intent \notin ManualIntents

ModelPlaces(p) ==
    /\ p = "begin" => InStep({"none"}) /\ status = "PreparingContext" /\ ~SomeActiveStep
    /\ p \in {"compactCheck", "prepareInterrupt", "prepare"} =>
          InStep({"Invoking"}) /\ status = "PreparingContext"
    /\ p \in {"compact", "compacted"} => InStep({"Invoking"}) /\ status = "Compacting"
    /\ p = "preReflect" => /\ InStep({"Invoking"}) /\ status = "Reflecting"
                           /\ reflectionReturn = "Compacting"
    /\ p \in {"model", "responseInterrupt", "record"} =>
          InStep({"Invoking"}) /\ status = "InvokingModel"
    /\ p = "invoked" => InStep({"Applying"}) /\ status = "InvokingModel"
    /\ p \in {"response", "stopHook", "continue"} =>
          InStep({"Applying"}) /\ status = "ApplyingResponse"
    /\ p = "reflect" => /\ InStep({"Applying"}) /\ status = "Reflecting"
                        /\ reflectionReturn = "ApplyingResponse"

ToolPlaces(p) ==
    /\ p = "addCalls" =>
          /\ InStep({"Applying", "ToolPhase"}) /\ status = "AwaitingToolApproval"
          /\ \A c \in CallId : calls[cur][c] \in {"none", "Pending"}
    /\ p = "ready" =>
          /\ InStep({"ToolPhase"}) /\ status = "AwaitingToolApproval"
          /\ \A c \in CallId : calls[cur][c] \in {"none", "Pending", "Ready"}
    /\ p \in {"start", "tools", "toolsInterrupt", "finishCalls"} =>
          InStep({"ToolPhase"}) /\ status = "ExecutingTools"
    /\ p = "start" =>
          \A c \in CallId : /\ calls[cur][c] \in {"none", "Ready", "Running"}
                            /\ c \in soft => calls[cur][c] # "Running"
    /\ p \in {"tools", "toolsInterrupt"} => \A c \in CallId : calls[cur][c] = "none" \/ Held(c)
    /\ p = "toolsInterrupt" =>
          \A c \in asks : c \notin unasked /\ calls[cur][c] # "none"
    /\ p = "finishCalls" =>
          \A c \in CallId : IF c \in asks THEN Held(c) ELSE Held(c) \/ Settled(c)
    /\ p = "ask" => Stepping({"ToolPhase"}) /\ status = "ExecutingTools" /\ RoundAsks
    /\ p = "await" => ~InScope /\ Waiting
    /\ p = "resolve" =>
          /\ ~InScope /\ status = "ExecutingTools" /\ pendingInteraction = NoRequest
          /\ reply \in {"answered", "declined"}
          /\ cur \in StepId /\ steps[cur] = "ToolPhase" /\ RoundWaits
    /\ p = "completeStep" =>
          \/ InStep({"Applying"}) /\ status = "DrainingInput"
          \/ /\ Stepping({"ToolPhase"}) /\ status = "ExecutingTools"
             /\ asks = {} /\ RoundAsks
    /\ p = "toolsCompleted" => /\ status = "ExecutingTools" /\ ~SomeActiveStep
                               /\ reply = "idle" /\ pendingInteraction = NoRequest

EndPlaces(p) ==
    /\ p = "stepEnd" => InScope /\ Between
    /\ p \in {"cancelling", "finalizing"} => InScope /\ reply = "idle" /\ after = "stepEnd"
                                             /\ pendingInteraction = NoRequest
    /\ p = "cancelling" => status = "CancellingStep" /\ steps[cur] = "Cancelling"
    /\ p = "finalizing" => status = "FinalizingStep" /\ steps[cur] = "Finalizing"
    /\ p = "terminating" => status = "Terminating" /\ termination # "none" /\ Returns
    /\ p = "emit" => IsTerminal(status) /\ Returns
    /\ p \in {"fail", "error", "failing"} => ~IsTerminal(status)
    /\ p = "fail" => InScope
    /\ p \in {"failing", "exit"} => ~InScope
    /\ p \in {"exit", "done"} => IsTerminal(status) \/ Suspended

Place(p) == IdlePlaces(p) /\ ModelPlaces(p) /\ ToolPlaces(p) /\ EndPlaces(p)

(* Only the step of the engine is active; what a step has recorded follows  *)
(* its phase.                                                               *)
StepsOK ==
    \A s \in StepId :
        /\ IsActive(s) => s = cur
        /\ steps[s] \in {"none", "Invoking"} => s \notin invoked
        /\ steps[s] \in {"Applying", "ToolPhase"} => s \in invoked
        /\ steps[s] \in {"none", "Invoking", "Applying"} =>
              \A c \in CallId : calls[s][c] = "none"

(* The entry of the run: a cancellation names the step of the engine and,   *)
(* once delivered, is being carried out; a cancelled token has its reason.  *)
EntryOK ==
    /\ Entry.present <=> pc # "done"
    /\ currentMain = IF pc = "done" THEN "none" ELSE Main
    /\ pc # "done" =>
          /\ Entry.intent = intent
          /\ Entry.step \in {NoStep, cur}
          /\ Entry.cancelled => Entry.control.kind = "Terminate" \/ intent = "ManualReflection"
          /\ Entry.control.kind = "Terminate" => Entry.cancelled
          /\ Entry.control.kind = "CancelStep" =>
                /\ Entry.step # NoStep /\ Entry.control.step = Entry.step
                /\ Entry.delivered => pc \in {"cancelling", "finalizing", "stepEnd", "error"}
          /\ Entry.stepCancelled => Entry.step # NoStep /\ Entry.control.kind # "none"

EventsOK == pc # "emit" => events = <<>>
ContOK == cont => intent \notin ManualIntents

RefusedOK ==
    refused => /\ pc \in {"error", "failing", "emit", "exit", "done"}
               /\ pc = "emit" => after = "exit"
               /\ RefusedOnlyInToolRound

EngineInv ==
    /\ EngineTypeOK /\ StatusInv /\ StepsOK /\ EntryOK /\ Place(pc) /\ EventsOK /\ ContOK
    /\ RefusedOK /\ TerminatedOnlyOnRequest
-----------------------------------------------------------------------------
(* The entry of the run in the registry *)

LEMMA EntryTyped ==
  ASSUME Registry!RegistryTypeOK
  PROVE  /\ Entry.present => Entry \in Registry!Entry
         /\ ~Entry.present => Entry = Registry!NoEntry
  <1>1. Entry \in Registry!Entry \cup {Registry!NoEntry}
    BY DEF Entry, Registry!RegistryTypeOK
  <1>2. Entry \in Registry!Entry => Entry.present = TRUE
    BY DEF Registry!Entry
  <1>3. Entry = Registry!NoEntry => Entry.present = FALSE
    BY DEF Registry!NoEntry
  <1>4. QED BY <1>1, <1>2, <1>3

(* The three kinds of control. *)
LEMMA Controls ==
  ASSUME NEW k \in Registry!Control
  PROVE  \/ k = Registry!NoControl /\ k.kind = "none"
         \/ k.kind = "CancelStep" /\ k.step \in StepId /\ k = Registry!CancelControl(k.step)
         \/ k.kind = "Terminate" /\ k.reason \in Reasons
  BY DEF Registry!Control, Registry!NoControl, Registry!CancelControl,
     Registry!TerminateControl

LEMMA ControlsTyped ==
  /\ Registry!NoControl \in Registry!Control /\ Registry!NoControl.kind = "none"
  /\ \A s \in StepId : /\ Registry!CancelControl(s) \in Registry!Control
                       /\ Registry!CancelControl(s).kind = "CancelStep"
                       /\ Registry!CancelControl(s).step = s
  /\ \A r \in Reasons : /\ Registry!TerminateControl(r) \in Registry!Control
                        /\ Registry!TerminateControl(r).kind = "Terminate"
  BY DEF Registry!Control, Registry!NoControl, Registry!CancelControl,
     Registry!TerminateControl

(* Putting a new entry into the map. *)
LEMMA PutEntry ==
  ASSUME Registry!RegistryTypeOK, NEW e \in Registry!Entry, active' = [active EXCEPT ![Main] = e],
         UNCHANGED currentMain
  PROVE  Registry!RegistryTypeOK' /\ Entry' = e
  BY DEF Registry!RegistryTypeOK, Entry

(* The methods of the registry on that entry. *)
LEMMA Taken ==
  ASSUME Registry!RegistryTypeOK, Registry!TakeControl(Main)
  PROVE  /\ Registry!RegistryTypeOK' /\ UNCHANGED currentMain
         /\ Entry.present /\ Entry' = [Entry EXCEPT !.delivered = TRUE]
         /\ Entry.control.kind # "none" /\ ~Entry.delivered
  <1>1. Entry \in Registry!Entry
    BY EntryTyped DEF Registry!TakeControl, Registry!HasControl, Registry!Present, Entry
  <1>2. [Entry EXCEPT !.delivered = TRUE] \in Registry!Entry
    BY <1>1 DEF Registry!Entry
  <1>3. active' = [active EXCEPT ![Main] = [Entry EXCEPT !.delivered = TRUE]]
    BY DEF Registry!TakeControl, Entry
  <1>4. Entry.control.kind # "none"
    <2>1. Entry.control \in Registry!Control BY <1>1 DEF Registry!Entry
    <2>2. Entry.control # Registry!NoControl
      BY DEF Registry!TakeControl, Registry!HasControl, Entry
    <2>3. QED BY <2>1, <2>2, Controls
  <1>5. QED
    BY <1>2, <1>3, <1>4, PutEntry DEF Registry!TakeControl, Registry!HasControl,
       Registry!Present,
       Entry

LEMMA Scoped ==
  ASSUME Registry!RegistryTypeOK, NEW s \in StepId, Registry!SetMainActiveStep(Main, s),
         Entry.present, currentMain = Main
  PROVE  /\ Registry!RegistryTypeOK' /\ UNCHANGED currentMain
         /\ Entry' = [Entry EXCEPT !.step = s, !.stepCancelled = FALSE]
  <1> DEFINE e == [Entry EXCEPT !.step = s, !.stepCancelled = FALSE]
  <1>1. e \in Registry!Entry
    BY EntryTyped DEF Registry!Entry
  <1>2. active' = [active EXCEPT ![Main] = e]
    BY DEF Registry!SetMainActiveStep, Registry!Present, Entry
  <1>3. QED BY <1>1, <1>2, PutEntry DEF Registry!SetMainActiveStep

LEMMA Unscoped ==
  ASSUME Registry!RegistryTypeOK, NEW s \in StepId, Registry!ClearMainActiveStep(Main, s),
         Entry.present, Entry.step = s
  PROVE  /\ Registry!RegistryTypeOK' /\ UNCHANGED currentMain
         /\ Entry'.present /\ Entry'.step = NoStep /\ ~Entry'.stepCancelled
         /\ Entry'.intent = Entry.intent /\ Entry'.cancelled = Entry.cancelled
         /\ IF Entry.control = Registry!CancelControl(s) THEN Entry'.control.kind = "none"
            ELSE Entry'.control = Entry.control
  <1> DEFINE e == [Entry EXCEPT !.step = NoStep, !.stepCancelled = FALSE,
                     !.control = IF @ = Registry!CancelControl(s)
                                 THEN Registry!NoControl ELSE @,
                     !.delivered = @ /\ Entry.control # Registry!CancelControl(s)]
  <1>1. Entry \in Registry!Entry BY EntryTyped
  <1>2. e \in Registry!Entry
    <2>1. (Entry.delivered /\ Entry.control # Registry!CancelControl(s)) \in BOOLEAN OBVIOUS
    <2>2. (IF Entry.control = Registry!CancelControl(s) THEN Registry!NoControl
           ELSE Entry.control) \in Registry!Control
      BY <1>1, ControlsTyped DEF Registry!Entry
    <2>3. QED BY <1>1, <2>1, <2>2 DEF Registry!Entry
  <1>3. active' = [active EXCEPT ![Main] = e]
    BY DEF Registry!ClearMainActiveStep, Registry!Present, Entry
  <1>4. Registry!RegistryTypeOK' /\ Entry' = e
    BY <1>2, <1>3, PutEntry DEF Registry!ClearMainActiveStep
  <1>5. /\ e.present = Entry.present /\ e.step = NoStep /\ e.stepCancelled = FALSE
        /\ e.intent = Entry.intent /\ e.cancelled = Entry.cancelled
        /\ e.control = IF Entry.control = Registry!CancelControl(s) THEN Registry!NoControl
                       ELSE Entry.control
    BY <1>1 DEF Registry!Entry
  <1> HIDE DEF e
  <1>6. QED BY <1>4, <1>5, ControlsTyped DEF Registry!ClearMainActiveStep

LEMMA Cleared ==
  ASSUME Registry!RegistryTypeOK, Registry!Clear(Main), currentMain = Main
  PROVE  Registry!RegistryTypeOK' /\ ~Entry'.present /\ currentMain' = "none"
  <1>1. active' = [active EXCEPT ![Main] = Registry!NoEntry] /\ currentMain' = "none"
    BY DEF Registry!Clear
  <1>2. Registry!RegistryTypeOK' /\ Entry' = Registry!NoEntry
    BY <1>1 DEF Registry!RegistryTypeOK, Entry
  <1>3. QED BY <1>1, <1>2 DEF Registry!NoEntry

(* What a client's request does: it cancels the registered step, the token  *)
(* of a manual reflection, or terminates the run.                           *)
Requested ==
    /\ UNCHANGED currentMain
    /\ Entry'.present /\ Entry'.step = Entry.step /\ Entry'.intent = Entry.intent
    /\ \/ /\ Entry.step # NoStep /\ Entry'.control = Registry!CancelControl(Entry.step)
          /\ ~Entry'.delivered /\ Entry.control.kind = "none"
          /\ Entry'.cancelled = Entry.cancelled
       \/ /\ Entry.intent = "ManualReflection" /\ Entry'.control = Entry.control
          /\ Entry'.delivered = Entry.delivered /\ Entry'.stepCancelled = Entry.stepCancelled
          /\ Entry.control.kind = "none" /\ Entry'.cancelled
       \/ /\ Entry'.control.kind = "Terminate" /\ Entry'.cancelled
          /\ Entry'.stepCancelled => Entry.stepCancelled \/ Entry.step # NoStep

LEMMA CancelRequested ==
  ASSUME Registry!RegistryTypeOK, Entry.present, Entry.control = Registry!NoControl,
         Entry.step # NoStep, Registry!SetCancelControl(Main), UNCHANGED currentMain
  PROVE  Registry!RegistryTypeOK' /\ Requested
  <1> DEFINE e == [Entry EXCEPT !.stepCancelled = TRUE, !.delivered = FALSE,
                                !.control = Registry!CancelControl(Entry.step)]
  <1>1. Entry \in Registry!Entry BY EntryTyped
  <1>2. Registry!CancelControl(Entry.step) \in Registry!Control
    BY <1>1, ControlsTyped DEF Registry!Entry
  <1>3. e \in Registry!Entry BY <1>1, <1>2 DEF Registry!Entry
  <1>4. active' = [active EXCEPT ![Main] = e]
    BY <1>1 DEF Registry!SetCancelControl, Entry, Registry!Entry
  <1>5. Registry!RegistryTypeOK' /\ Entry' = e BY <1>3, <1>4, PutEntry
  <1>6. /\ e.present = Entry.present /\ e.step = Entry.step /\ e.intent = Entry.intent
        /\ e.cancelled = Entry.cancelled /\ e.delivered = FALSE
        /\ e.control = Registry!CancelControl(Entry.step)
    BY <1>1 DEF Registry!Entry
  <1> HIDE DEF e
  <1>7. QED BY <1>5, <1>6, ControlsTyped DEF Requested

LEMMA ClientRequests ==
  ASSUME Registry!RegistryTypeOK, currentMain \in {"none", Main}, Client
  PROVE  Registry!RegistryTypeOK' /\ Requested /\ Entry.present
  <1>0. Main # "none" BY DEF Main
  <1>1. CASE Registry!CancelStep(Main)
    BY <1>1, CancelRequested DEF Registry!CancelStep, Registry!Present, Entry
  <1>2. CASE Registry!CancelCurrentMain
    <2>1. currentMain = Main /\ Entry.present /\ Entry.control = Registry!NoControl
      BY <1>2 DEF Registry!CancelCurrentMain, Registry!Present, Entry
    <2>2. CASE Entry.step # NoStep /\ Registry!SetCancelControl(Main)
      BY <1>2, <2>1, <2>2, CancelRequested DEF Registry!CancelCurrentMain
    <2>3. CASE /\ Entry.intent = "ManualReflection"
               /\ active' = [active EXCEPT ![Main].cancelled = TRUE]
      <3> DEFINE e == [Entry EXCEPT !.cancelled = TRUE]
      <3>1. Entry \in Registry!Entry BY <2>1, EntryTyped
      <3>2. e \in Registry!Entry BY <3>1 DEF Registry!Entry
      <3>3. active' = [active EXCEPT ![Main] = e] BY <2>3 DEF Entry
      <3>4. UNCHANGED currentMain BY <1>2 DEF Registry!CancelCurrentMain
      <3>5. Registry!RegistryTypeOK' /\ Entry' = e BY <3>2, <3>3, <3>4, PutEntry
      <3>6. /\ e.present = Entry.present /\ e.step = Entry.step /\ e.intent = Entry.intent
            /\ e.control = Entry.control /\ e.delivered = Entry.delivered
            /\ e.stepCancelled = Entry.stepCancelled /\ e.cancelled = TRUE
        BY <3>1 DEF Registry!Entry
      <3> HIDE DEF e
      <3>7. QED BY <2>1, <2>3, <3>4, <3>5, <3>6, ControlsTyped DEF Requested
    <2>4. QED BY <1>2, <2>1, <2>2, <2>3 DEF Registry!CancelCurrentMain, Entry
  <1>3. ASSUME NEW r \in Reasons, Registry!Terminate(Main, r)
        PROVE  Registry!RegistryTypeOK' /\ Requested /\ Entry.present
    <2> DEFINE e == [Entry EXCEPT !.cancelled = TRUE,
                       !.stepCancelled = (@ \/ Entry.step # NoStep),
                       !.control = Registry!TerminateControl(r), !.delivered = FALSE]
    <2>1. Entry.present BY <1>3 DEF Registry!Terminate, Registry!Present, Entry
    <2>2. Entry \in Registry!Entry BY <2>1, EntryTyped
    <2>3. e \in Registry!Entry
      <3>1. (Entry.stepCancelled \/ Entry.step # NoStep) \in BOOLEAN OBVIOUS
      <3>2. QED BY <2>2, <3>1, ControlsTyped DEF Registry!Entry
    <2>4. active' = [active EXCEPT ![Main] = e] /\ UNCHANGED currentMain
      BY <1>3 DEF Registry!Terminate, Entry
    <2>5. Registry!RegistryTypeOK' /\ Entry' = e BY <2>3, <2>4, PutEntry
    <2>6. /\ e.present = Entry.present /\ e.step = Entry.step /\ e.intent = Entry.intent
          /\ e.control = Registry!TerminateControl(r) /\ e.cancelled = TRUE
          /\ e.stepCancelled = (Entry.stepCancelled \/ Entry.step # NoStep)
      BY <2>2 DEF Registry!Entry
    <2> HIDE DEF e
    <2>7. QED BY <2>1, <2>4, <2>5, <2>6, ControlsTyped DEF Requested
  <1>4. QED BY <1>1, <1>2, <1>3 DEF Client
-----------------------------------------------------------------------------
(* Every step of the engine is a step of the aggregate. *)
RunStep == Next \/ UNCHANGED runVars

LEMMA MoveRuns ==
  ASSUME NEW t \in DirectTransitions, NEW accepts, NEW next, Try(accepts, Transition(t), next)
  PROVE  RunStep
  BY DEF Try, RunStep, Next

LEMMA FailRuns == ASSUME FailRun PROVE RunStep
  BY DEF FailRun, RunStep, Next

LEMMA TerminateRuns == ASSUME NEW r \in Reasons, TerminateRun(r) PROVE RunStep
  BY DEF TerminateRun, RunStep, Next

LEMMA ShutdownRuns == ASSUME Shutdown PROVE RunStep
  <1>1. "SessionShutdown" \in Reasons BY DEF Reasons
  <1>2. QED BY <1>1, TerminateRuns DEF Shutdown

LEMMA ControlRuns == ASSUME EngineInv, NEW next, ControlledBy(next) PROVE RunStep
  <1>1. Entry.present /\ Entry.control.kind # "none"
    BY Taken DEF ControlledBy, EngineInv, EngineTypeOK
  <1>2. Entry.control \in Registry!Control
    BY <1>1, EntryTyped DEF EngineInv, EngineTypeOK, Registry!Entry
  <1>3. CASE Entry.control.kind = "Terminate"
    BY <1>2, <1>3, Controls, TerminateRuns DEF ControlledBy, Entry
  <1>4. CASE Entry.control.kind # "Terminate"
    <2>1. Entry.control.step \in StepId BY <1>1, <1>2, <1>4, Controls
    <2>2. RequestStepCancellation(Entry.control.step) \/ UNCHANGED runVars
      BY <1>4 DEF ControlledBy, Entry
    <2>3. QED BY <2>1, <2>2 DEF RunStep, Next, StepCommand
  <1>5. QED BY <1>3, <1>4

LEMMA StepControlRuns == ASSUME EngineInv, HandleStepControl PROVE RunStep
  BY ControlRuns, ShutdownRuns DEF HandleStepControl

LEMMA InterruptRuns == ASSUME NEW next, InterruptOr(next) PROVE RunStep
  BY ShutdownRuns, FailRuns DEF InterruptOr, RunStep

LEMMA AdvanceRuns ==
  ASSUME NEW accepts, NEW next, NEW c \in CallId, NEW to \in CallStatus, cur \in StepId,
         Try(accepts, AdvanceToolCall(cur, c, to), next)
  PROVE  RunStep
  BY DEF Try, RunStep, Next, StepCommand

LEMMA EngineRuns == ASSUME EngineInv, EngineNext PROVE RunStep
  <1> USE DEF DirectTransitions, RunTransition
  <1>1. CASE Start \/ ManualCompaction \/ ManualReflection
    <2>1. "UserExit" \in Reasons BY DEF Reasons
    <2>2. QED
      BY <1>1, <2>1, MoveRuns, FailRuns, TerminateRuns
         DEF Start, ManualCompaction, ManualReflection, Move, Try, RunStep, Next
  <1>2. CASE LoopTop \/ LoopInterrupt \/ InputCancelled \/ InputTimedOut
    BY <1>2, ControlRuns, ShutdownRuns, InterruptRuns, FailRuns
       DEF LoopTop, LoopInterrupt, InputCancelled, InputTimedOut, RunStep
  <1>3. CASE DrainReady \/ DrainContinuation \/ DrainSealed \/ AwaitInput \/ AwaitUser
    BY <1>3 DEF DrainReady, DrainContinuation, DrainSealed, AwaitInput, AwaitUser, Drained,
       RunStep, Next
  <1>4. CASE ApplyDecision
    <2>1. \A p \in DOMAIN Decision : Decision[p] \in RunTransition BY DEF Decision
    <2>2. QED BY <1>4, <2>1 DEF ApplyDecision, RunStep, Next
  <1>5. CASE RegisterStep \/ StepEnd \/ Error \/ Exit \/ Done \/ PortError \/ Client \/ Reply
             \/ CallsAdded
    BY <1>5 DEF RegisterStep, StepEnd, Error, Exit, Done, PortError, Client, Reply,
       CallsAdded,
       RunStep, vars
  <1>6. CASE BeginStep
    <2>1. cur \in StepId
      BY <1>6 DEF BeginStep, EngineInv, Place, ModelPlaces, InStep, Stepping
    <2>2. QED BY <1>6, <2>1, FailRuns DEF BeginStep, Try, RunStep, Next, StepCommand
  <1>7. CASE CompactionCheck \/ Compact
    BY <1>7, StepControlRuns, MoveRuns, FailRuns DEF CompactionCheck, Compact, Move, RunStep
  <1>8. CASE PreCompactReflection \/ Compacted \/ Prepare \/ ModelInvoked \/ Reflect
             \/ Continue \/ RespondTools \/ ToolsCompleted
    BY <1>8, MoveRuns DEF PreCompactReflection, Compacted, Prepare, ModelInvoked, Reflect,
       Continue, RespondTools, ToolsCompleted, Move
  <1>9. CASE PrepareInterrupt \/ ResponseInterrupt \/ FailStep
    BY <1>9, InterruptRuns, FailRuns DEF PrepareInterrupt, ResponseInterrupt, FailStep
  <1>10. CASE InvokeModel \/ RespondComplete \/ StopHook
    BY <1>10, StepControlRuns, MoveRuns, FailRuns
       DEF InvokeModel, RespondComplete, StopHook, RunStep, Next
  <1>11. CASE RecordInvocation
    <2>1. cur \in StepId
      BY <1>11 DEF RecordInvocation, EngineInv, Place, ModelPlaces, InStep, Stepping
    <2>2. QED BY <1>11, <2>1 DEF RecordInvocation, Try, RunStep, Next, StepCommand
  <1>12. CASE CompleteTheStep
    <2>1. cur \in StepId
      BY <1>12 DEF CompleteTheStep, EngineInv, Place, ToolPlaces, InStep, Stepping
    <2>2. QED BY <1>12, <2>1 DEF CompleteTheStep, Try, RunStep, Next, StepCommand
  <1>13. CASE AddCall
    <2>1. cur \in StepId
      BY <1>13 DEF AddCall, EngineInv, Place, ToolPlaces, InStep, Stepping
    <2>2. QED BY <1>13, <2>1 DEF AddCall, Try, RunStep, Next, StepCommand
  <1>14. CASE ReadyCalls \/ StartCalls
    <2>1. cur \in StepId
      BY <1>14 DEF ReadyCalls, StartCalls, EngineInv, Place, ToolPlaces, InStep, Stepping
    <2>2. "Ready" \in CallStatus /\ "Running" \in CallStatus BY DEF CallStatus
    <2>3. QED
      BY <1>14, <2>1, <2>2, AdvanceRuns, MoveRuns
         DEF ReadyCalls, StartCalls, AdvanceCalls, Move, RunStep
  <1>15. CASE RunTools \/ ToolsInterrupt
    BY <1>15, StepControlRuns, ShutdownRuns, FailRuns DEF RunTools, ToolsInterrupt, RunStep
  <1>16. CASE FinishCalls
    <2>1. cur \in StepId
      BY <1>16 DEF FinishCalls, EngineInv, Place, ToolPlaces, InStep, Stepping
    <2>2. "Success" \in CallStatus /\ "Cancelled" \in CallStatus
      BY DEF CallStatus, FinishedCall
    <2>3. \A c \in Unfinished : c \in CallId BY DEF Unfinished
    <2>4. QED BY <1>16, <2>1, <2>2, <2>3, AdvanceRuns DEF FinishCalls, RunStep
  <1>17. CASE Ask
    <2>1. asks \subseteq CallId /\ kind \in Continuations BY DEF EngineInv, EngineTypeOK
    <2>2. QED BY <1>17, <2>1 DEF Ask, Try, RunStep, Next
  <1>18. CASE TakeReply
    <2>1. pendingInteraction \in RequestId
      BY <1>18 DEF TakeReply, EngineInv, Place, ToolPlaces, Waiting, Suspended,
         EngineTypeOK,
         TypeOK
    <2>2. QED BY <1>18, <2>1 DEF TakeReply, Try, RunStep, Next, CompleteInteraction
  <1>19. CASE Resolve
    <2>1. cur \in StepId /\ current \in CallId
      BY <1>19 DEF Resolve, EngineInv, Place, ToolPlaces, RoundWaits
    <2>2. {"Success", "Cancelled", "Error"} \subseteq CallStatus
      BY DEF CallStatus, FinishedCall
    <2>3. QED BY <1>19, <2>1, <2>2, AdvanceRuns DEF Resolve
  <1>20. CASE FinishCancellation
    <2>1. cur \in StepId
      BY <1>20 DEF FinishCancellation, EngineInv, Place, EndPlaces, InScope, EntryOK, Entry,
         EngineTypeOK
    <2>2. QED BY <1>20, <2>1 DEF FinishCancellation, RunStep, Next, StepCommand,
       InactiveStep
  <1>21. CASE FinishTheTermination \/ Emit
    BY <1>21 DEF FinishTheTermination, Emit, Try, RunStep, Next
  <1>22. QED
    BY <1>1, <1>2, <1>3, <1>4, <1>5, <1>6, <1>7, <1>8, <1>9, <1>10, <1>11, <1>12, <1>13,
       <1>14,
       <1>15, <1>16, <1>17, <1>18, <1>19, <1>20, <1>21 DEF EngineNext, EngineStep
-----------------------------------------------------------------------------
(* What most steps leave alone *)

LocalTypes ==
    /\ pc \in Points /\ after \in {"control", "stepEnd", "exit"}
    /\ cur \in StepId \cup {NoStep} /\ current \in CallId \cup {NoCall}
    /\ {cont, retried, reflected, fuseFail, refused} \subseteq BOOLEAN
    /\ soft \subseteq CallId /\ bypassed \subseteq soft
    /\ kind \in Continuations /\ asks \subseteq CallId /\ unasked \subseteq CallId
    /\ reply \in {"idle", "open", "answered", "declined"}

LEMMA TypesSplit == EngineTypeOK <=> TypeOK /\ Registry!RegistryTypeOK /\ LocalTypes
  BY DEF EngineTypeOK, LocalTypes

LEMMA LocalTypesSame ==
  ASSUME EngineInv, UNCHANGED <<localVars, refused>>, pc' \in Points,
         after' \in {"control", "stepEnd", "exit"}
  PROVE  LocalTypes'
  BY TypesSplit DEF EngineInv, LocalTypes, localVars, roundVars

LEMMA IntentFixed == ASSUME RunStep PROVE UNCHANGED intent
  <1> USE DEF RunStep, Next, runVars
  <1>1. ASSUME NEW s \in StepId, StepCommand(s) PROVE UNCHANGED intent
    BY <1>1 DEF StepCommand, BeginStepWithId, RecordModelInvocation, AddToolCall,
       AdvanceToolCall, CompleteStep, RequestStepCancellation, BeginStepFinalization,
       FinishStepCancellation
  <1>2. ASSUME NEW t, Transition(t) PROVE UNCHANGED intent
    BY <1>2 DEF Transition
  <1>3. QED
    BY <1>1, <1>2 DEF StartDraining, BeginManualCompaction, BeginManualReflection,
       ApplyDrainDecision, AdvanceDrainEpoch, RecordStopHookBlock, BeginInteraction,
       CompleteInteraction, CancelInteraction, SettleInteraction, RequestTermination,
       FinishTermination, Fail, DrainEvents

LEMMA StepsSame == ASSUME StepsOK, UNCHANGED <<stepVars, cur>> PROVE StepsOK'
  BY DEF StepsOK, stepVars, IsActive

(* Points where a delivered cancellation is carried out, and where the Run  *)
(* may have refused a command.                                              *)
Carried == {"cancelling", "finalizing", "stepEnd", "error"}
RefusedAt == {"error", "failing", "emit", "exit", "done"}

LEMMA EntrySame ==
  ASSUME EntryOK, UNCHANGED <<registryVars, cur, intent>>, pc # "done", pc' # "done",
         pc \in Carried => pc' \in Carried
  PROVE  EntryOK'
  BY DEF EntryOK, Entry, registryVars, Carried

LEMMA RequestStays ==
  ASSUME TerminatedOnlyOnRequest, UNCHANGED <<registryVars, intent>>, pc # "done",
         status' \in {"Terminating", "Terminated"} => status' = status \/ Registry!Terminating(Main)
             \/ (RootCancelled /\ intent = "ManualReflection")
  PROVE  TerminatedOnlyOnRequest'
  BY DEF TerminatedOnlyOnRequest, registryVars, RootCancelled, Registry!RootCancelled,
     Registry!Terminating, Registry!Present

LEMMA RunKeeps == ASSUME EngineInv, RunStep PROVE TypeOK' /\ StatusInv'
  <1>1. TypeOK /\ StatusInv BY TypesSplit DEF EngineInv
  <1>2. [Next]_runVars BY DEF RunStep
  <1>3. QED BY <1>1, <1>2, TypeStep, StatusStep

(* A step of the engine within the loop that does not touch the registry. *)
LEMMA Quiet ==
  ASSUME EngineInv, RunStep, pc \notin RefusedAt, pc \in Carried => pc' \in Carried,
         pc' \notin {"done", "emit"},
         UNCHANGED <<registryVars, cur, refused, events>>,
         status' \in {"Terminating", "Terminated"} => status' = status,
         LocalTypes', StepsOK', ContOK', Place(pc)'
  PROVE  EngineInv'
  <1>1. EngineTypeOK' /\ StatusInv'
    BY RunKeeps, TypesSplit DEF EngineInv, EngineTypeOK, LocalTypes,
       Registry!RegistryTypeOK,
       registryVars
  <1>2. EntryOK'
    BY EntrySame, IntentFixed DEF EngineInv, RefusedAt
  <1>3. EventsOK' BY DEF EngineInv, EventsOK, RefusedAt
  <1>4. RefusedOK' BY DEF EngineInv, RefusedOK, RefusedAt
  <1>5. TerminatedOnlyOnRequest'
    BY IntentFixed, RequestStays DEF EngineInv, RefusedAt
  <1>6. QED BY <1>1, <1>2, <1>3, <1>4, <1>5 DEF EngineInv

(* The Run refuses a command: the error is passed up. *)
LEMMA Refusal ==
  ASSUME EngineInv, pc \notin Carried \cup RefusedAt, pc' = "error", refused' = TRUE,
         UNCHANGED <<runVars, registryVars, cur, after>>, ~IsTerminal(status),
         LocalTypes', ContOK', RefusedOnlyInToolRound'
  PROVE  EngineInv'
  <1>0. UNCHANGED <<intent, status, stepVars, events>> BY DEF runVars, stepVars
  <1>1. EngineTypeOK' /\ StatusInv'
    BY RunKeeps, TypesSplit DEF RunStep, EngineInv, EngineTypeOK, LocalTypes,
       Registry!RegistryTypeOK, registryVars
  <1>2. EntryOK'
    BY <1>0, EntrySame DEF EngineInv, RefusedAt
  <1>3. EventsOK' BY <1>0 DEF EngineInv, EventsOK, RefusedAt
  <1>4. RefusedOK' BY DEF RefusedOK
  <1>5. TerminatedOnlyOnRequest'
    BY <1>0, RequestStays DEF EngineInv, RefusedAt
  <1>6. StepsOK' BY <1>0, StepsSame DEF EngineInv
  <1>7. Place(pc)'
    BY <1>0 DEF Place, IdlePlaces, ModelPlaces, ToolPlaces, EndPlaces, IsTerminal
  <1>8. QED BY <1>1, <1>2, <1>3, <1>4, <1>5, <1>6, <1>7 DEF EngineInv
-----------------------------------------------------------------------------
(* The ways out of a step *)

LEMMA CloseKeeps ==
  ASSUME StepsOK, NEW final \in InactiveStep, CloseActiveSteps(final),
         UNCHANGED <<invoked, calls, cur>>
  PROVE  StepsOK'
  BY DEF StepsOK, CloseActiveSteps, IsActive, InactiveStep, ActiveStep

LEMMA FailRunKeeps ==
  ASSUME EngineInv, FailRun, pc \notin Carried, pc \notin {"emit", "exit", "done"}
  PROVE  EngineInv'
  <1> USE DEF FailRun
  <1>0. /\ RunStep /\ UNCHANGED <<intent, localVars, cur, invoked, calls, registryVars>>
        /\ pc' = "emit" /\ after' = Leave
    BY FailRuns, IntentFixed DEF Fail, runVars, localVars
  <1>1. IsTerminal(status') /\ (status' = status \/ status' = "Failed")
    BY DEF Fail, SetStatusByCommand, IsTerminal, TerminalStatus, runVars
  <1>2. EngineTypeOK' /\ StatusInv'
    <2>1. LocalTypes' BY <1>0, LocalTypesSame DEF Leave, Points
    <2>2. Registry!RegistryTypeOK'
      BY <1>0, TypesSplit DEF EngineInv, Registry!RegistryTypeOK, registryVars
    <2>3. QED BY <1>0, <2>1, <2>2, RunKeeps DEF EngineTypeOK, LocalTypes
  <1>3. EntryOK' BY <1>0, EntrySame DEF EngineInv
  <1>4. EventsOK' BY <1>0 DEF EventsOK
  <1>5. ContOK' BY <1>0 DEF EngineInv, ContOK, localVars
  <1>6. RefusedOK'
    <2>1. refused => pc = "failing" BY DEF EngineInv, RefusedOK, Carried
    <2>2. refused => after' = "exit"
      BY <1>0, <2>1 DEF EngineInv, Place, EndPlaces, Leave
    <2>3. QED
      BY <1>0, <2>2 DEF EngineInv, RefusedOK, RefusedOnlyInToolRound, localVars, roundVars
  <1>7. TerminatedOnlyOnRequest'
    BY <1>0, <1>1, RequestStays DEF EngineInv
  <1>8. StepsOK'
    BY <1>0, CloseKeeps, StepsSame DEF EngineInv, Fail, InactiveStep, runVars, stepVars
  <1>9. Place(pc)'
    BY <1>0, <1>1 DEF Place, IdlePlaces, ModelPlaces, ToolPlaces, EndPlaces, Returns, Leave,
       InScope, registryVars
  <1>10. QED BY <1>2, <1>3, <1>4, <1>5, <1>6, <1>7, <1>8, <1>9 DEF EngineInv

(* Whoever terminates the run was asked to, and a status that ends the      *)
(* engine or asks for the end follows.                                      *)
LEMMA TerminateEffect ==
  ASSUME EngineInv, NEW r \in Reasons, TerminateRun(r), status # "Terminating"
  PROVE  /\ after' = Leave /\ pc' \in {"emit", "terminating"}
         /\ pc' = "emit" => IsTerminal(status')
         /\ pc' = "terminating" => status' = "Terminating" /\ termination' # "none"
         /\ status' = status \/ status' = "Terminating"
         /\ UNCHANGED <<intent, stepVars, events, localVars, cur, refused>>
  <1>1. CASE CanRequestTermination
    BY <1>1 DEF TerminateRun, RequestTermination, SetStatusByCommand, Reasons, localVars,
       stepVars
  <1>2. CASE ~CanRequestTermination
    BY <1>2 DEF TerminateRun, CanRequestTermination, runVars, localVars, stepVars
  <1>3. QED BY <1>1, <1>2

TerminationAsked ==
    Entry.control.kind = "Terminate" \/ (Entry.cancelled /\ intent = "ManualReflection")

LEMMA TerminateKeeps ==
  ASSUME EngineInv, NEW r \in Reasons, TerminateRun(r), status # "Terminating",
         TerminationAsked, pc \notin Carried \cup RefusedAt,
         UNCHANGED registryVars \/ Registry!TakeControl(Main),
         Entry.control.kind = "CancelStep" => UNCHANGED registryVars
  PROVE  EngineInv'
  <1>1. /\ after' = Leave /\ pc' \in {"emit", "terminating"}
        /\ pc' = "emit" => IsTerminal(status')
        /\ pc' = "terminating" => status' = "Terminating" /\ termination' # "none"
        /\ UNCHANGED <<intent, stepVars, events, localVars, cur, refused>>
    BY TerminateEffect
  <1>2. RunStep BY TerminateRuns
  <1>3. Registry!RegistryTypeOK BY TypesSplit DEF EngineInv
  <1>4. Entry.present /\ Entry \in Registry!Entry
    BY <1>3, EntryTyped DEF EngineInv, EntryOK, RefusedAt
  <1>5. /\ Registry!RegistryTypeOK' /\ UNCHANGED currentMain /\ Entry'.present
        /\ Entry'.intent = Entry.intent /\ Entry'.step = Entry.step
        /\ Entry'.cancelled = Entry.cancelled /\ Entry'.control = Entry.control
        /\ Entry'.stepCancelled = Entry.stepCancelled
        /\ Entry'.delivered = Entry.delivered \/ Entry.control.kind # "CancelStep"
    <2>1. CASE UNCHANGED registryVars
      BY <1>3, <1>4, <2>1 DEF registryVars, Entry, Registry!RegistryTypeOK
    <2>2. CASE Registry!TakeControl(Main) /\ Entry.control.kind # "CancelStep"
      BY <1>3, <1>4, <2>2, Taken DEF Registry!Entry
    <2>3. QED BY <2>1, <2>2
  <1>6. EngineTypeOK' /\ StatusInv'
    <2>1. LocalTypes' BY <1>1, LocalTypesSame DEF Leave, Points
    <2>2. QED BY <1>2, <1>5, <2>1, RunKeeps DEF EngineTypeOK, LocalTypes
  <1>7. EntryOK'
    BY <1>1, <1>5 DEF EngineInv, EntryOK, Carried, RefusedAt
  <1>8. EventsOK' BY <1>1 DEF EngineInv, EventsOK, RefusedAt
  <1>9. ContOK' BY <1>1 DEF EngineInv, ContOK, localVars
  <1>10. RefusedOK' BY <1>1 DEF EngineInv, RefusedOK, RefusedAt
  <1>11. TerminatedOnlyOnRequest'
    BY <1>1, <1>5 DEF TerminatedOnlyOnRequest, TerminationAsked, RootCancelled,
       Registry!RootCancelled, Registry!Terminating, Registry!Present, Entry
  <1>12. StepsOK' BY <1>1, StepsSame DEF EngineInv
  <1>13. InScope' <=> InScope BY <1>4, <1>5 DEF InScope, Entry
  <1>14. Place(pc)'
    BY <1>1, <1>13 DEF Place, IdlePlaces, ModelPlaces, ToolPlaces, EndPlaces, Returns, Leave
  <1>15. QED
    BY <1>6, <1>7, <1>8, <1>9, <1>10, <1>11, <1>12, <1>14 DEF EngineInv

LEMMA ShutdownKeeps ==
  ASSUME EngineInv, Shutdown, status # "Terminating", TerminationAsked,
         pc \notin Carried \cup RefusedAt
  PROVE  EngineInv'
  <1>1. "SessionShutdown" \in Reasons BY DEF Reasons
  <1>2. QED BY <1>1, TerminateKeeps DEF Shutdown

(* A cancelled token of the run always has its reason. *)
LEMMA RootAsked ==
  ASSUME EngineInv, RootCancelled PROVE TerminationAsked
  BY DEF EngineInv, EntryOK, RootCancelled, Registry!RootCancelled, Registry!Present, Entry,
     TerminationAsked

LEMMA InterruptKeeps ==
  ASSUME EngineInv, NEW next, InterruptOr(next), status # "Terminating",
         pc \notin Carried \cup RefusedAt, next \in Points \ {"done", "emit"},
         ~IsTerminal(status) /\ UNCHANGED <<runVars, localVars, registryVars>> =>
            (pc' = next => Place(pc)')
  PROVE  EngineInv'
  <1>1. CASE RootCancelled /\ Shutdown BY <1>1, RootAsked, ShutdownKeeps
  <1>2. CASE FailRun BY <1>2, FailRunKeeps DEF RefusedAt
  <1>3. CASE /\ ~IsTerminal(status) /\ Goto(next)
             /\ UNCHANGED <<runVars, localVars, registryVars>>
    <2>1. UNCHANGED <<cur, cont, intent, status, stepVars, events>> /\ RunStep
      BY <1>3 DEF localVars, runVars, stepVars, RunStep
    <2>2. pc' = next /\ UNCHANGED <<after, refused>> BY <1>3 DEF Goto
    <2>3. LocalTypes' BY <1>3, <2>2, LocalTypesSame DEF EngineInv, EngineTypeOK
    <2>4. ContOK' BY <2>1 DEF EngineInv, ContOK
    <2>5. StepsOK' BY <2>1, StepsSame DEF EngineInv
    <2>6. QED BY <1>3, <2>1, <2>2, <2>3, <2>4, <2>5, Quiet
  <1>4. QED BY <1>1, <1>2, <1>3 DEF InterruptOr

(* A control is taken.  A cancellation is there only within the step it     *)
(* names, which the Run then has active.                                    *)
Working == InScope => cur \in StepId /\ steps[cur] \in {"Invoking", "Applying", "ToolPhase"}

LEMMA ControlKeeps ==
  ASSUME EngineInv, NEW next, ControlledBy(next), status # "Terminating",
         pc \notin Carried \cup RefusedAt, Working,
         InScope => /\ next = "stepEnd" /\ reply = "idle" /\ ~IsTerminal(status)
  PROVE  EngineInv'
  <1>1. Registry!RegistryTypeOK BY TypesSplit DEF EngineInv
  <1>2. /\ Registry!TakeControl(Main) /\ Registry!RegistryTypeOK' /\ UNCHANGED currentMain
        /\ Entry.present /\ Entry' = [Entry EXCEPT !.delivered = TRUE]
        /\ Entry.control.kind # "none" /\ ~Entry.delivered
    BY <1>1, Taken DEF ControlledBy
  <1>3. Entry \in Registry!Entry /\ Entry.control \in Registry!Control
    BY <1>1, <1>2, EntryTyped DEF Registry!Entry
  <1>4. CASE Entry.control.kind = "Terminate"
    <2>1. Entry.control.reason \in Reasons BY <1>3, <1>4, Controls
    <2>2. TerminateRun(Entry.control.reason) BY <1>4 DEF ControlledBy, Entry
    <2>3. TerminationAsked BY <1>4 DEF TerminationAsked
    <2>4. QED BY <1>2, <1>4, <2>1, <2>2, <2>3, TerminateKeeps
  <1>5. CASE Entry.control.kind # "Terminate"
    <2>1. Entry.control.kind = "CancelStep" BY <1>2, <1>3, <1>5, Controls
    <2>2. InScope /\ Entry.control.step = cur /\ Entry.step = cur
      BY <1>2, <2>1 DEF EngineInv, EntryOK, InScope, Entry, RefusedAt
    <2>3. IsActive(cur) /\ CanRequestStepCancellation(cur) /\ cur \in StepId
      BY <2>2 DEF Working, IsActive, CanRequestStepCancellation, ActiveStep
    <2>4. /\ RequestStepCancellation(cur)
          /\ pc' = "cancelling" /\ after' = "stepEnd" /\ UNCHANGED <<refused, localVars>>
      BY <1>5, <2>2, <2>3 DEF ControlledBy, Entry
    <2>5. /\ RunStep /\ pendingInteraction' = NoRequest /\ status' = "CancellingStep"
          /\ steps' = [steps EXCEPT ![cur] = "Cancelling"]
          /\ UNCHANGED <<intent, invoked, calls, events, cur, cont, reply>>
      BY <2>3, <2>4 DEF RequestStepCancellation, SetStatusByCommand, RunStep, Next,
         StepCommand,
         localVars
    <2>6. TypeOK /\ cur' = cur BY <2>5, TypesSplit DEF EngineInv
    <2>7. /\ steps'[cur] = "Cancelling"
          /\ \A s \in StepId : s # cur => steps'[s] = steps[s]
      BY <2>3, <2>5, <2>6 DEF TypeOK
    <2>8. /\ Entry'.present /\ Entry'.intent = Entry.intent /\ Entry'.step = Entry.step
          /\ Entry'.cancelled = Entry.cancelled /\ Entry'.control = Entry.control
          /\ Entry'.stepCancelled = Entry.stepCancelled
      BY <1>2, <1>3 DEF Registry!Entry
    <2>9. EngineTypeOK' /\ StatusInv'
      <3>1. LocalTypes' BY <2>4, LocalTypesSame DEF Points
      <3>2. QED BY <1>2, <2>5, <3>1, RunKeeps DEF EngineTypeOK, LocalTypes
    <2>10. EntryOK'
      BY <1>2, <2>4, <2>5, <2>8 DEF EngineInv, EntryOK, RefusedAt
    <2>11. StepsOK'
      BY <2>5, <2>6, <2>7 DEF EngineInv, StepsOK, IsActive, ActiveStep
    <2>12. InScope' BY <2>2, <2>8 DEF InScope, Entry
    <2>13. Place(pc)'
      BY <2>2, <2>4, <2>5, <2>7, <2>12 DEF Place, IdlePlaces, ModelPlaces, ToolPlaces,
         EndPlaces
    <2>14. EventsOK' /\ ContOK' /\ RefusedOK' /\ TerminatedOnlyOnRequest'
      BY <2>4, <2>5 DEF EngineInv, EventsOK, ContOK, RefusedOK, RefusedAt,
         TerminatedOnlyOnRequest
    <2>15. QED BY <2>9, <2>10, <2>11, <2>13, <2>14 DEF EngineInv
  <1>6. QED BY <1>4, <1>5

(* The token of the step is cancelled: either the control is there to say   *)
(* why, or the run is to end.                                               *)
LEMMA StepControlKeeps ==
  ASSUME EngineInv, HandleStepControl, NEW ss, ss \subseteq {"Invoking", "Applying", "ToolPhase"},
         InStep(ss), status # "Terminating", ~IsTerminal(status), pc \notin Carried \cup RefusedAt
  PROVE  EngineInv'
  <1>0. Working BY DEF Working, InStep, Stepping
  <1>1. CASE HasControl
    BY <1>0, <1>1, ControlKeeps DEF HandleStepControl, InStep, Stepping
  <1>2. CASE ~HasControl
    <2>1. Entry.present /\ (Entry.cancelled \/ Entry.stepCancelled)
      BY DEF HandleStepControl, StepTokenCancelled, Registry!StepCancelled,
         Registry!Present,
         Entry
    <2>2. Entry.control \in Registry!Control
      BY <2>1, EntryTyped, TypesSplit DEF EngineInv, Registry!Entry
    <2>3. Entry.delivered \/ Entry.control = Registry!NoControl
      BY <1>2, <2>1 DEF HasControl, Registry!HasControl, Registry!Present, Entry
    <2>4. TerminationAsked
      <3>1. Entry.control.kind \in {"none", "CancelStep", "Terminate"}
        BY <2>2, Controls
      <3>2. Entry.control.kind = "none" \/ Entry.delivered
        BY <2>3, ControlsTyped
      <3>3. QED
        BY <2>1, <3>1, <3>2 DEF EngineInv, EntryOK, Carried, RefusedAt, TerminationAsked
    <2>5. QED BY <1>2, <2>4, ShutdownKeeps DEF HandleStepControl
  <1>3. QED BY <1>1, <1>2
-----------------------------------------------------------------------------
(* The transitions the engine asks for are legal where it asks for them. *)

(* A step that goes on without a command to the Run. *)
LEMMA GoKeeps ==
  ASSUME EngineInv, NEW next \in Points \ {"done", "emit"}, Goto(next),
         UNCHANGED <<runVars, localVars, registryVars>>,
         pc \notin Carried \cup RefusedAt, Place(pc)'
  PROVE  EngineInv'
  <1>1. UNCHANGED <<cur, cont, intent, status, stepVars, events>> /\ RunStep
    BY DEF localVars, runVars, stepVars, RunStep
  <1>2. pc' = next /\ UNCHANGED <<after, refused>> BY DEF Goto
  <1>3. LocalTypes' BY <1>2, LocalTypesSame DEF EngineInv, EngineTypeOK
  <1>4. ContOK' BY <1>1 DEF EngineInv, ContOK
  <1>5. StepsOK' BY <1>1, StepsSame DEF EngineInv
  <1>6. QED BY <1>1, <1>2, <1>3, <1>4, <1>5, Quiet

Leads(t, to) == IntentAllows(t) /\ \A x \in RunStatus : Matrix(t, x) <=> x = to

(* What a legal transition changes. *)
LEMMA TransitionEffect ==
  ASSUME NEW t, NEW to \in RunStatus, Leads(t, to), NEW next,
         Try(Legal(t), Transition(t), next)
  PROVE  /\ status' = to /\ pc' = next
         /\ reflectionReturn' = IF t = "BeginReflection" THEN status
                                ELSE IF t = "ReflectionCompleted" THEN "none"
                                ELSE reflectionReturn
         /\ UNCHANGED <<after, refused, registryVars, intent, termination, pendingInteraction,
                        steps, invoked, calls, events>>
  <1>1. Legal(t) BY DEF Leads, Legal
  <1>2. Transition(t) /\ pc' = next /\ UNCHANGED <<after, refused, registryVars>>
    BY <1>1 DEF Try
  <1>3. status' = to BY <1>2 DEF Transition, Moves, Leads
  <1>4. QED BY <1>2, <1>3 DEF Transition, Moves, stepVars

LEMMA MoveKeeps ==
  ASSUME EngineInv, RunStep, NEW t, NEW to \in RunStatus, Leads(t, to),
         NEW next \in Points \ {"done", "emit"}, Try(Legal(t), Transition(t), next),
         to \notin {"Terminating", "Terminated"},
         pc \notin Carried \cup RefusedAt, LocalTypes', ContOK', UNCHANGED cur, Place(pc)'
  PROVE  EngineInv'
  <1>1. /\ status' = to /\ pc' = next
        /\ UNCHANGED <<refused, registryVars, events>> /\ UNCHANGED stepVars
    BY TransitionEffect DEF stepVars
  <1>2. StepsOK' BY <1>1, StepsSame DEF EngineInv
  <1>3. QED BY <1>1, <1>2, Quiet

LEMMA MoveOnKeeps ==
  ASSUME EngineInv, RunStep, NEW t, NEW to \in RunStatus, Leads(t, to),
         NEW next \in Points \ {"done", "emit"}, Try(Legal(t), Transition(t), next),
         to \notin {"Terminating", "Terminated"}, UNCHANGED localVars,
         pc \notin Carried \cup RefusedAt, Place(pc)'
  PROVE  EngineInv'
  <1>1. pc' = next /\ UNCHANGED <<after, refused, intent>> BY TransitionEffect
  <1>2. LocalTypes' BY <1>1, LocalTypesSame DEF EngineInv, EngineTypeOK
  <1>3. ContOK' /\ UNCHANGED cur BY <1>1 DEF EngineInv, ContOK, localVars
  <1>4. QED BY <1>2, <1>3, MoveKeeps

(* Idle and stepping are about variables that a transition leaves alone. *)
LEMMA Still ==
  ASSUME UNCHANGED <<steps, cur, reply, pendingInteraction, intent, registryVars>>
  PROVE  /\ Idle' <=> Idle
         /\ InScope' <=> InScope
         /\ SomeActiveStep' <=> SomeActiveStep
         /\ \A ss : (Stepping(ss)' <=> Stepping(ss)) /\ (InStep(ss)' <=> InStep(ss))
  BY DEF Idle, InScope, SomeActiveStep, IsActive, Stepping, InStep, registryVars

LEMMA TransitionStill ==
  ASSUME NEW t, NEW to \in RunStatus, Leads(t, to), NEW next,
         Try(Legal(t), Transition(t), next), UNCHANGED <<cur, reply>>
  PROVE  /\ Idle' <=> Idle
         /\ InScope' <=> InScope
         /\ SomeActiveStep' <=> SomeActiveStep
         /\ \A ss : (Stepping(ss)' <=> Stepping(ss)) /\ (InStep(ss)' <=> InStep(ss))
  <1>1. UNCHANGED <<steps, cur, reply, pendingInteraction, intent, registryVars>>
    BY TransitionEffect
  <1>2. QED BY <1>1, Still
-----------------------------------------------------------------------------
(* One lemma per part of the engine: its actions keep the invariant. *)

LEMMA StartKeeps == ASSUME EngineInv, RunStep, Start PROVE EngineInv'
  <1> DEFINE next == IF intent = "ManualCompaction" THEN "beginCompact"
                     ELSE IF intent = "ManualReflection" THEN "beginReflect" ELSE "control"
  <1>1. pc = "created" /\ Idle /\ status = "Created"
    BY DEF Start, EngineInv, Place, IdlePlaces
  <1>2. Leads("StartDraining", "DrainingInput") /\ "DrainingInput" \in RunStatus
    BY <1>1 DEF Leads, IntentAllows, Matrix, RunStatus
  <1>3. Try(Legal("StartDraining"), Transition("StartDraining"), next) /\ UNCHANGED localVars
    BY DEF Start, StartDraining
  <1>4. UNCHANGED <<cur, reply>> BY <1>3 DEF localVars
  <1>5. Idle' BY <1>1, <1>2, <1>3, <1>4, TransitionStill
  <1>6. pc' = next /\ status' = "DrainingInput" /\ UNCHANGED intent
    BY <1>2, <1>3, TransitionEffect
  <1>7. Place(pc)'
    BY <1>5, <1>6 DEF Place, IdlePlaces, ModelPlaces, ToolPlaces, EndPlaces, Between, Idle
  <1>8. QED
    BY <1>1, <1>2, <1>3, <1>7, MoveOnKeeps DEF Points, Carried, RefusedAt

LEMMA ManualCompactionKeeps == ASSUME EngineInv, RunStep, ManualCompaction PROVE EngineInv'
  <1> USE DEF Points, Carried, RefusedAt
  <1>1. CASE /\ pc = "beginCompact"
             /\ Try(Legal("BeginCompaction"), BeginManualCompaction, "manualCompact")
             /\ UNCHANGED localVars
    <2>1. Idle /\ status = "DrainingInput" /\ intent = "ManualCompaction"
      BY <1>1 DEF EngineInv, Place, IdlePlaces
    <2>2. Leads("BeginCompaction", "Compacting") /\ "Compacting" \in RunStatus
      BY <2>1 DEF Leads, IntentAllows, Matrix, RunStatus
    <2>3. Try(Legal("BeginCompaction"), Transition("BeginCompaction"), "manualCompact")
      BY <1>1 DEF Try, BeginManualCompaction
    <2>4. UNCHANGED <<cur, reply>> BY <1>1 DEF localVars
    <2>5. Idle' /\ pc' = "manualCompact" /\ status' = "Compacting"
      BY <2>1, <2>2, <2>3, <2>4, TransitionStill, TransitionEffect
    <2>6. Place(pc)' BY <2>5 DEF Place, IdlePlaces, ModelPlaces, ToolPlaces, EndPlaces
    <2>7. QED BY <1>1, <2>2, <2>3, <2>6, MoveOnKeeps
  <1>2. CASE pc = "manualCompact" /\ FailRun BY <1>2, FailRunKeeps
  <1>3. CASE pc = "manualCompact" /\ Move("CompactionCompleted", "control")
    <2>1. Idle /\ status = "Compacting"
      BY <1>3 DEF EngineInv, Place, IdlePlaces
    <2>2. Leads("CompactionCompleted", "DrainingInput") /\ "DrainingInput" \in RunStatus
      BY <2>1 DEF Leads, IntentAllows, Matrix, RunStatus, Idle
    <2>3. /\ Try(Legal("CompactionCompleted"), Transition("CompactionCompleted"), "control")
          /\ UNCHANGED localVars
      BY <1>3 DEF Move
    <2>4. UNCHANGED <<cur, reply>> BY <2>3 DEF localVars
    <2>5. Idle' /\ pc' = "control" /\ status' = "DrainingInput"
      BY <2>1, <2>2, <2>3, <2>4, TransitionStill, TransitionEffect
    <2>6. Place(pc)'
      BY <2>5 DEF Place, IdlePlaces, ModelPlaces, ToolPlaces, EndPlaces, Between, Idle
    <2>7. QED BY <1>3, <2>2, <2>3, <2>6, MoveOnKeeps
  <1>4. CASE /\ pc = "manualCompact" /\ RootCancelled
             /\ TerminateRun("UserExit") /\ UNCHANGED registryVars
    <2>1. status = "Compacting" BY <1>4 DEF EngineInv, Place, IdlePlaces
    <2>2. "UserExit" \in Reasons BY DEF Reasons
    <2>3. QED BY <1>4, <2>1, <2>2, RootAsked, TerminateKeeps
  <1>5. QED BY <1>1, <1>2, <1>3, <1>4 DEF ManualCompaction

LEMMA ManualReflectionKeeps == ASSUME EngineInv, RunStep, ManualReflection PROVE EngineInv'
  <1> USE DEF Points, Carried, RefusedAt
  <1>1. CASE /\ pc = "beginReflect"
             /\ Try(Legal("BeginReflection"), BeginManualReflection, "manualReflect")
             /\ UNCHANGED localVars
    <2>1. Idle /\ status = "DrainingInput" /\ intent = "ManualReflection"
      BY <1>1 DEF EngineInv, Place, IdlePlaces
    <2>2. Leads("BeginReflection", "Reflecting") /\ "Reflecting" \in RunStatus
      BY <2>1 DEF Leads, IntentAllows, Matrix, RunStatus
    <2>3. Try(Legal("BeginReflection"), Transition("BeginReflection"), "manualReflect")
      BY <1>1 DEF Try, BeginManualReflection
    <2>4. UNCHANGED <<cur, reply>> BY <1>1 DEF localVars
    <2>5. /\ Idle' /\ pc' = "manualReflect" /\ status' = "Reflecting"
          /\ reflectionReturn' = "DrainingInput"
      BY <2>1, <2>2, <2>3, <2>4, TransitionStill, TransitionEffect
    <2>6. Place(pc)' BY <2>5 DEF Place, IdlePlaces, ModelPlaces, ToolPlaces, EndPlaces
    <2>7. QED BY <1>1, <2>2, <2>3, <2>6, MoveOnKeeps
  <1>2. ASSUME NEW next \in {"control", "error"}, pc = "manualReflect",
               Move("ReflectionCompleted", next)
        PROVE  EngineInv'
    <2>1. Idle /\ status = "Reflecting" /\ reflectionReturn = "DrainingInput"
      BY <1>2 DEF EngineInv, Place, IdlePlaces
    <2>2. Leads("ReflectionCompleted", "DrainingInput") /\ "DrainingInput" \in RunStatus
      BY <2>1 DEF Leads, IntentAllows, Matrix, RunStatus
    <2>3. /\ Try(Legal("ReflectionCompleted"), Transition("ReflectionCompleted"), next)
          /\ UNCHANGED localVars
      BY <1>2 DEF Move
    <2>4. UNCHANGED <<cur, reply>> BY <2>3 DEF localVars
    <2>5. Idle' /\ pc' = next /\ status' = "DrainingInput"
      BY <2>1, <2>2, <2>3, <2>4, TransitionStill, TransitionEffect
    <2>6. Place(pc)'
      BY <2>5 DEF Place, IdlePlaces, ModelPlaces, ToolPlaces, EndPlaces, Between, Idle,
         IsTerminal, TerminalStatus
    <2>7. QED BY <1>2, <2>2, <2>3, <2>6, MoveOnKeeps
  <1>3. QED BY <1>1, <1>2 DEF ManualReflection

(* Where nothing but the point changes. *)
LEMMA Frozen ==
  ASSUME UNCHANGED <<runVars, localVars, registryVars>>
  PROVE  /\ Idle' <=> Idle
         /\ InScope' <=> InScope
         /\ Between' <=> Between
         /\ Waiting' <=> Waiting
         /\ \A ss : (Stepping(ss)' <=> Stepping(ss)) /\ (InStep(ss)' <=> InStep(ss))
         /\ RoundAsks' <=> RoundAsks
         /\ UNCHANGED <<status, intent, reflectionReturn, calls, steps, cur, soft, asks, unasked>>
  <1>1. UNCHANGED <<steps, cur, reply, pendingInteraction, intent, status, calls, soft, asks,
                    unasked, current, reflectionReturn>> /\ UNCHANGED registryVars
    BY DEF runVars, localVars, roundVars
  <1>2. RoundAsks' <=> RoundAsks BY <1>1 DEF RoundAsks, Held, Settled
  <1>3. RoundWaits' <=> RoundWaits BY <1>1 DEF RoundWaits, Held, Settled
  <1>4. Waiting' <=> Waiting BY <1>1, <1>3 DEF Waiting, Suspended
  <1>5. /\ Idle' <=> Idle
        /\ InScope' <=> InScope
        /\ SomeActiveStep' <=> SomeActiveStep
        /\ \A ss : (Stepping(ss)' <=> Stepping(ss)) /\ (InStep(ss)' <=> InStep(ss))
    BY <1>1, Still
  <1>6. Between' <=> Between BY <1>1, <1>4, <1>5 DEF Between
  <1>7. QED BY <1>1, <1>2, <1>4, <1>5, <1>6

LEMMA LoopKeeps ==
  ASSUME EngineInv, RunStep, LoopTop \/ LoopInterrupt \/ InputCancelled \/ InputTimedOut
  PROVE  EngineInv'
  <1> USE DEF Points, Carried, RefusedAt
  <1>0. Between => status # "Terminating"
    BY DEF Between, Waiting, Suspended, IsTerminal, TerminalStatus
  <1>1. CASE LoopTop
    <2>1. pc = "control" /\ ~InScope /\ Between
      BY <1>1 DEF LoopTop, EngineInv, Place, IdlePlaces
    <2>2. CASE HasControl
      BY <1>0, <1>1, <2>1, <2>2, ControlKeeps DEF LoopTop, Working
    <2>3. CASE ~HasControl
      <3>1. Goto("interrupt") /\ UNCHANGED <<runVars, localVars, registryVars>>
        BY <1>1, <2>3 DEF LoopTop
      <3>2. pc' = "interrupt" /\ ~InScope' /\ Between'
        BY <2>1, <3>1, Frozen DEF Goto
      <3>3. Place(pc)' BY <3>2 DEF Place, IdlePlaces, ModelPlaces, ToolPlaces, EndPlaces
      <3>4. QED BY <2>1, <3>1, <3>3, GoKeeps
    <2>4. QED BY <2>2, <2>3
  <1>2. CASE LoopInterrupt
    <2> DEFINE next == IF Suspended THEN "await" ELSE "drain"
    <2>1. pc = "interrupt" /\ ~InScope /\ Between /\ InterruptOr(next)
      BY <1>2 DEF LoopInterrupt, EngineInv, Place, IdlePlaces
    <2>2. ASSUME ~IsTerminal(status), UNCHANGED <<runVars, localVars, registryVars>>,
                 pc' = next
          PROVE  Place(pc)'
      <3>1. CASE Suspended
        <4>1. Waiting /\ pc' = "await"
          BY <2>1, <2>2, <3>1 DEF Between, Suspended
        <4>2. Waiting' /\ ~InScope' BY <2>1, <2>2, <4>1, Frozen
        <4>3. QED BY <4>1, <4>2 DEF Place, IdlePlaces, ModelPlaces, ToolPlaces, EndPlaces
      <3>2. CASE ~Suspended
        <4>1. Idle /\ status = "DrainingInput" /\ pc' = "drain"
          BY <2>1, <2>2, <3>2 DEF Between, Waiting, Idle
        <4>2. Idle' /\ status' = "DrainingInput" BY <2>2, <4>1, Frozen
        <4>3. QED BY <4>1, <4>2 DEF Place, IdlePlaces, ModelPlaces, ToolPlaces, EndPlaces
      <3>3. QED BY <3>1, <3>2
    <2>3. next \in Points \ {"done", "emit"} OBVIOUS
    <2> HIDE DEF next
    <2>4. QED BY <1>0, <2>1, <2>2, <2>3, InterruptKeeps
  <1>3. CASE InputCancelled
    <2>1. pc \in {"drain", "await"} /\ ~InScope /\ status # "Terminating"
      BY <1>3 DEF InputCancelled, EngineInv, Place, IdlePlaces, ToolPlaces, Idle, Waiting,
         Suspended
    <2>2. CASE HasControl
      BY <1>3, <2>1, <2>2, ControlKeeps DEF InputCancelled, Working
    <2>3. CASE ~HasControl
      BY <1>3, <2>1, <2>3, RootAsked, ShutdownKeeps DEF InputCancelled
    <2>4. QED BY <2>2, <2>3
  <1>4. CASE InputTimedOut BY <1>4, FailRunKeeps DEF InputTimedOut
  <1>5. QED BY <1>1, <1>2, <1>3, <1>4

(* Input. *)
LEMMA EpochAlone ==
  ASSUME AdvanceDrainEpoch \/ UNCHANGED runVars
  PROVE  UNCHANGED <<intent, status, reflectionReturn, pendingInteraction, steps, invoked, calls,
                     events>>
  BY DEF AdvanceDrainEpoch, stepVars, runVars

LEMMA DrainKeeps ==
  ASSUME EngineInv, RunStep, DrainReady \/ DrainContinuation \/ DrainSealed
  PROVE  EngineInv'
  <1>1. PICK next \in {"control", "applyInputs", "applyContinuation", "applySealed"} :
           /\ Drained(next) /\ UNCHANGED <<cur, retried, reflected, roundVars, reply>>
           /\ next \in {"applyInputs", "applyContinuation"} => intent \notin ManualIntents
           /\ cont' = cont \/ cont' = FALSE
    BY DEF DrainReady, DrainContinuation, DrainSealed, localVars, EngineInv, ContOK
  <1>2. pc = "drain" /\ Idle /\ status = "DrainingInput"
    BY <1>1 DEF Drained, EngineInv, Place, IdlePlaces
  <1>3. /\ pc' = next /\ UNCHANGED <<after, refused, registryVars>>
        /\ UNCHANGED <<intent, status, reflectionReturn, pendingInteraction, steps, invoked,
                       calls, events>>
    BY <1>1, EpochAlone DEF Drained, Goto
  <1>4. Idle' BY <1>1, <1>2, <1>3, Still
  <1>5. Place(pc)'
    BY <1>1, <1>2, <1>3, <1>4 DEF Place, IdlePlaces, ModelPlaces, ToolPlaces, EndPlaces,
       Between, Idle
  <1>6. LocalTypes'
    BY <1>1, <1>3, TypesSplit DEF EngineInv, LocalTypes, roundVars, Points
  <1>7. ContOK' BY <1>1, <1>3 DEF EngineInv, ContOK
  <1>8. StepsOK' BY <1>1, <1>3, StepsSame DEF EngineInv, stepVars
  <1>9. QED BY <1>1, <1>2, <1>3, <1>5, <1>6, <1>7, <1>8, Quiet DEF Carried, RefusedAt

LEMMA ApplyKeeps == ASSUME EngineInv, RunStep, ApplyDecision PROVE EngineInv'
  <1> DEFINE d == Decision[pc]
             to == IF d = "DrainEmptyAndSealed" THEN "Completed" ELSE "PreparingContext"
  <1>1. /\ pc \in {"applyInputs", "applySealed", "applyContinuation"}
        /\ pc = "applyInputs" => d = "DrainInputs"
        /\ pc = "applySealed" => d = "DrainEmptyAndSealed"
        /\ pc = "applyContinuation" => d = "DrainInternalContinuation"
    BY DEF ApplyDecision, Decision
  <1>2. /\ Idle /\ status = "DrainingInput"
        /\ pc # "applySealed" => intent \notin ManualIntents
    BY <1>1 DEF EngineInv, Place, IdlePlaces
  <1> HIDE DEF d
  <1>3. Leads(d, to) /\ to \in RunStatus
    BY <1>1, <1>2 DEF Leads, IntentAllows, Matrix, RunStatus, TerminalStatus
  <1>4. Legal(d) BY <1>3 DEF Leads, Legal
  <1>5. /\ ApplyDrainDecision(d) /\ after' = "exit"
        /\ pc' = IF d = "DrainEmptyAndSealed" THEN "emit" ELSE "register"
        /\ UNCHANGED <<refused, localVars, registryVars>>
    BY <1>4 DEF ApplyDecision, d
  <1>6. /\ status' = to /\ (d # "DrainEmptyAndSealed" => events' = events)
        /\ UNCHANGED <<intent, pendingInteraction, steps, invoked, calls>>
    BY <1>3, <1>5 DEF ApplyDrainDecision, Moves, Leads, stepVars
  <1>7. UNCHANGED <<cur, cont, reply>> BY <1>5 DEF localVars
  <1>8. Idle' BY <1>2, <1>5, <1>6, <1>7, Still
  <1>9. Place(pc)'
    BY <1>1, <1>2, <1>5, <1>6, <1>8 DEF Place, IdlePlaces, ModelPlaces, ToolPlaces,
       EndPlaces,
       Idle, Returns, Leave, IsTerminal, TerminalStatus
  <1>10. LocalTypes' BY <1>5, LocalTypesSame DEF Points
  <1>11. EngineTypeOK' /\ StatusInv'
    BY <1>5, <1>10, RunKeeps, TypesSplit DEF EngineInv, EngineTypeOK, LocalTypes,
       Registry!RegistryTypeOK, registryVars
  <1>12. EntryOK' BY <1>1, <1>5, <1>6, <1>7, EntrySame DEF EngineInv, Carried
  <1>13. EventsOK' BY <1>1, <1>5, <1>6 DEF EngineInv, EventsOK
  <1>14. ContOK' BY <1>6, <1>7 DEF EngineInv, ContOK
  <1>15. RefusedOK' BY <1>1, <1>5 DEF EngineInv, RefusedOK
  <1>16. TerminatedOnlyOnRequest' BY <1>6 DEF TerminatedOnlyOnRequest
  <1>17. StepsOK' BY <1>6, <1>7, StepsSame DEF EngineInv, stepVars
  <1>18. QED
    BY <1>9, <1>11, <1>12, <1>13, <1>14, <1>15, <1>16, <1>17 DEF EngineInv

LEMMA WaitingStill ==
  ASSUME Waiting, UNCHANGED <<status, pendingInteraction, steps, calls, cur, roundVars, reply>>
  PROVE  Waiting'
  BY DEF Waiting, Suspended, RoundWaits, Held, Settled, roundVars

LEMMA AwaitKeeps == ASSUME EngineInv, RunStep, AwaitInput \/ AwaitUser PROVE EngineInv'
  <1>1. /\ pc = "await" /\ pc' \in {"control", "exit"} /\ UNCHANGED <<after, refused, registryVars>>
        /\ AdvanceDrainEpoch \/ UNCHANGED runVars
        /\ cont' = FALSE /\ UNCHANGED <<cur, retried, reflected, roundVars, reply>>
    BY DEF AwaitInput, AwaitUser, Goto
  <1>2. ~InScope /\ Waiting
    BY <1>1 DEF EngineInv, Place, ToolPlaces
  <1>3. UNCHANGED <<intent, status, reflectionReturn, pendingInteraction, steps, invoked, calls,
                    events>>
    BY <1>1, EpochAlone
  <1>4. ~InScope' /\ Waiting'
    BY <1>1, <1>2, <1>3, Still, WaitingStill
  <1>5. Place(pc)'
    BY <1>1, <1>4 DEF Place, IdlePlaces, ModelPlaces, ToolPlaces, EndPlaces, Between,
       Waiting
  <1>6. LocalTypes'
    BY <1>1, TypesSplit DEF EngineInv, LocalTypes, roundVars, Points
  <1>7. ContOK' BY <1>1 DEF ContOK
  <1>8. StepsOK' BY <1>1, <1>3, StepsSame DEF EngineInv, stepVars
  <1>9. QED BY <1>1, <1>3, <1>5, <1>6, <1>7, <1>8, Quiet DEF Carried, RefusedAt

(* The scope of a step. *)
LEMMA RegisterKeeps == ASSUME EngineInv, RunStep, RegisterStep PROVE EngineInv'
  <1>1. PICK s \in StepId : steps[s] = "none" /\ Registry!SetMainActiveStep(Main, s) /\ cur' = s
    BY DEF RegisterStep
  <1>2. pc = "register" /\ Idle /\ status = "PreparingContext" /\ intent \notin ManualIntents
    BY DEF RegisterStep, EngineInv, Place, IdlePlaces
  <1>3. /\ pc' = "begin" /\ UNCHANGED <<after, refused, cont, reflected, kind, reply>>
        /\ retried' = FALSE /\ soft' = {} /\ bypassed' = {} /\ fuseFail' = FALSE
        /\ asks' = {} /\ current' = NoCall /\ unasked' = {}
        /\ UNCHANGED <<intent, status, pendingInteraction, steps, invoked, calls, events>>
    BY DEF RegisterStep, Goto, runVars
  <1>4. Registry!RegistryTypeOK /\ Entry.present /\ currentMain = Main
    BY <1>2, TypesSplit DEF EngineInv, EntryOK
  <1>5. /\ Registry!RegistryTypeOK' /\ UNCHANGED currentMain
        /\ Entry' = [Entry EXCEPT !.step = s, !.stepCancelled = FALSE]
    BY <1>1, <1>4, Scoped
  <1>6. Entry \in Registry!Entry BY <1>4, EntryTyped
  <1>7. /\ Entry'.present /\ Entry'.intent = Entry.intent /\ Entry'.step = s
        /\ Entry'.cancelled = Entry.cancelled /\ Entry'.control = Entry.control
        /\ Entry'.stepCancelled = FALSE /\ Entry'.delivered = Entry.delivered
    BY <1>4, <1>5, <1>6 DEF Registry!Entry
  <1>8. Entry.step = NoStep BY <1>2, <1>4 DEF Idle, InScope, Entry
  <1>9. EntryOK' BY <1>1, <1>2, <1>3, <1>4, <1>5, <1>7, <1>8 DEF EngineInv, EntryOK
  <1>10. InScope' BY <1>7, NoneAssumption DEF InScope, Entry
  <1>11. ~SomeActiveStep' BY <1>2, <1>3 DEF Idle, SomeActiveStep, IsActive
  <1>12. Place(pc)'
    BY <1>1, <1>2, <1>3, <1>10, <1>11 DEF Place, IdlePlaces, ModelPlaces, ToolPlaces,
       EndPlaces, InStep, Stepping, Idle
  <1>13. StepsOK' BY <1>2, <1>3 DEF EngineInv, StepsOK, Idle, SomeActiveStep, IsActive
  <1>14. LocalTypes'
    BY <1>1, <1>3, TypesSplit DEF EngineInv, LocalTypes, Points
  <1>15. EngineTypeOK' /\ StatusInv'
    BY <1>5, <1>14, RunKeeps DEF EngineTypeOK, LocalTypes
  <1>16. EventsOK' /\ ContOK' /\ RefusedOK' /\ TerminatedOnlyOnRequest'
    BY <1>2, <1>3 DEF EngineInv, EventsOK, ContOK, RefusedOK, TerminatedOnlyOnRequest
  <1>17. QED BY <1>9, <1>12, <1>13, <1>15, <1>16 DEF EngineInv

(* When the scope is cleared, a cancellation of the step goes with it. *)
LEMMA UnscopeKeeps ==
  ASSUME EngineInv, UNCHANGED <<runVars, localVars, after, refused>>,
         Registry!ClearMainActiveStep(Main, cur), InScope,
         (pc = "stepEnd" /\ pc' = "control") \/ (pc = "error" /\ pc' = "failing"),
         ~InScope' => Place(pc)'
  PROVE  EngineInv'
  <1>1. /\ Registry!RegistryTypeOK /\ Entry.present /\ currentMain = Main
        /\ Entry.step = cur /\ cur \in StepId
    <2>1. /\ Registry!RegistryTypeOK /\ Entry.present /\ currentMain = Main
          /\ Entry.step = cur /\ Entry.step # NoStep
      BY TypesSplit DEF EngineInv, EntryOK, InScope, Entry
    <2>2. Entry.step \in StepId \cup {NoStep}
      BY <2>1, EntryTyped DEF Registry!Entry
    <2>3. QED BY <2>1, <2>2
  <1>2. /\ Registry!RegistryTypeOK' /\ UNCHANGED currentMain
        /\ Entry'.present /\ Entry'.step = NoStep /\ ~Entry'.stepCancelled
        /\ Entry'.intent = Entry.intent /\ Entry'.cancelled = Entry.cancelled
        /\ IF Entry.control = Registry!CancelControl(cur) THEN Entry'.control.kind = "none"
           ELSE Entry'.control = Entry.control
    BY <1>1, Unscoped
  <1>3. UNCHANGED <<intent, status, stepVars, events, cur, cont, unasked, soft, calls>>
    BY DEF runVars, stepVars, localVars, roundVars
  <1>4. Entry.control \in Registry!Control BY <1>1, EntryTyped DEF Registry!Entry
  <1>5. Entry.control.kind = "CancelStep" => Entry.control = Registry!CancelControl(cur)
    <2>1. Entry.control.kind = "CancelStep" => Entry.control.step = cur
      BY <1>1 DEF EngineInv, EntryOK
    <2>2. QED BY <1>4, <2>1, Controls
  <1>6. Entry.control = Registry!CancelControl(cur) => Entry.control.kind = "CancelStep"
    BY <1>1, ControlsTyped
  <1>7. EntryOK'
    BY <1>1, <1>2, <1>3, <1>5, <1>6 DEF EngineInv, EntryOK
  <1>8. LocalTypes' BY LocalTypesSame DEF EngineInv, EngineTypeOK, Points
  <1>9. EngineTypeOK' /\ StatusInv'
    BY <1>2, <1>8, RunKeeps DEF RunStep, EngineTypeOK, LocalTypes
  <1>10. EventsOK' /\ ContOK'
    BY <1>3 DEF EngineInv, EventsOK, ContOK
  <1>11. RefusedOK'
    <2>1. RefusedOnlyInToolRound => RefusedOnlyInToolRound'
      BY <1>3 DEF RefusedOnlyInToolRound
    <2>2. refused' => refused /\ pc' = "failing" BY DEF EngineInv, RefusedOK
    <2>3. QED BY <2>1, <2>2 DEF EngineInv, RefusedOK
  <1>12. TerminatedOnlyOnRequest'
    BY <1>1, <1>2, <1>3, <1>6 DEF EngineInv, TerminatedOnlyOnRequest, RootCancelled,
       Registry!RootCancelled, Registry!Terminating, Registry!Present, Entry
  <1>13. StepsOK' BY <1>3, StepsSame DEF EngineInv
  <1>14. ~InScope' BY <1>2 DEF InScope, Entry
  <1>15. QED
    BY <1>7, <1>9, <1>10, <1>11, <1>12, <1>13, <1>14 DEF EngineInv

LEMMA ErrorKeeps == ASSUME EngineInv, Error PROVE EngineInv'
  <1>1. /\ pc = "error" /\ pc' = "failing" /\ UNCHANGED <<runVars, localVars, after, refused>>
        /\ ~IsTerminal(status)
    BY DEF Error, Goto, EngineInv, Place, EndPlaces
  <1>2. UNCHANGED <<intent, status, stepVars, events, cur, cont, unasked, soft, calls>>
    BY <1>1 DEF runVars, stepVars, localVars, roundVars
  <1>3. ASSUME ~InScope' PROVE Place(pc)'
    BY <1>1, <1>2, <1>3 DEF Place, IdlePlaces, ModelPlaces, ToolPlaces, EndPlaces,
       IsTerminal
  <1>4. CASE InScope BY <1>1, <1>3, <1>4, UnscopeKeeps DEF Error
  <1>5. CASE ~InScope
    <2>1. UNCHANGED registryVars BY <1>5 DEF Error
    <2>2. ~InScope' BY <1>5, <2>1 DEF InScope, registryVars
    <2>3. LocalTypes' BY <1>1, LocalTypesSame DEF EngineInv, EngineTypeOK, Points
    <2>4. EngineTypeOK' /\ StatusInv'
      BY <1>1, <2>1, <2>3, RunKeeps, TypesSplit DEF RunStep, EngineInv, EngineTypeOK,
         LocalTypes, Registry!RegistryTypeOK, registryVars
    <2>5. EntryOK'
      BY <1>1, <1>2, <1>5, <2>1 DEF EngineInv, EntryOK, Entry, InScope, registryVars
    <2>6. EventsOK' /\ ContOK' BY <1>1, <1>2 DEF EngineInv, EventsOK, ContOK
    <2>7. RefusedOK'
      BY <1>1, <1>2 DEF EngineInv, RefusedOK, RefusedOnlyInToolRound
    <2>8. TerminatedOnlyOnRequest' BY <1>1, <1>2, <2>1, RequestStays DEF EngineInv
    <2>9. StepsOK' BY <1>2, StepsSame DEF EngineInv
    <2>10. QED
      BY <1>3, <2>2, <2>4, <2>5, <2>6, <2>7, <2>8, <2>9 DEF EngineInv
  <1>6. QED BY <1>4, <1>5

LEMMA StepEndKeeps == ASSUME EngineInv, StepEnd PROVE EngineInv'
  <1>1. /\ pc = "stepEnd" /\ pc' = "control" /\ UNCHANGED <<runVars, localVars, after, refused>>
        /\ InScope /\ Between
    BY DEF StepEnd, Goto, EngineInv, Place, EndPlaces
  <1>2. UNCHANGED <<status, steps, calls, cur, roundVars, reply, pendingInteraction>>
    BY <1>1 DEF runVars, localVars
  <1>3. Between'
    BY <1>1, <1>2, WaitingStill DEF Between, SomeActiveStep, IsActive
  <1>4. ASSUME ~InScope' PROVE Place(pc)'
    BY <1>1, <1>3, <1>4 DEF Place, IdlePlaces, ModelPlaces, ToolPlaces, EndPlaces
  <1>5. QED BY <1>1, <1>4, UnscopeKeeps DEF StepEnd

LEMMA ExitKeeps == ASSUME EngineInv, Exit PROVE EngineInv'
  <1>1. /\ pc = "exit" /\ pc' = "done" /\ UNCHANGED <<runVars, localVars, after, refused>>
        /\ IsTerminal(status) \/ Suspended
    BY DEF Exit, Goto, EngineInv, Place, EndPlaces
  <1>2. /\ UNCHANGED <<intent, status, stepVars, events, cur, cont, unasked, soft, calls>>
        /\ UNCHANGED pendingInteraction
    BY <1>1 DEF runVars, stepVars, localVars, roundVars
  <1>3. Registry!RegistryTypeOK /\ currentMain = Main
    BY <1>1, TypesSplit DEF EngineInv, EntryOK
  <1>4. Registry!RegistryTypeOK' /\ ~Entry'.present /\ currentMain' = "none"
    BY <1>3, Cleared DEF Exit
  <1>5. LocalTypes' BY <1>1, LocalTypesSame DEF EngineInv, EngineTypeOK, Points
  <1>6. EngineTypeOK' /\ StatusInv'
    BY <1>1, <1>4, <1>5, RunKeeps DEF RunStep, EngineTypeOK, LocalTypes
  <1>7. EntryOK' BY <1>1, <1>4 DEF EntryOK
  <1>8. EventsOK' /\ ContOK' /\ TerminatedOnlyOnRequest'
    BY <1>1, <1>2 DEF EngineInv, EventsOK, ContOK, TerminatedOnlyOnRequest
  <1>9. RefusedOK'
    BY <1>1, <1>2 DEF EngineInv, RefusedOK, RefusedOnlyInToolRound
  <1>10. StepsOK' BY <1>2, StepsSame DEF EngineInv
  <1>11. Place(pc)'
    BY <1>1, <1>2 DEF Place, IdlePlaces, ModelPlaces, ToolPlaces, EndPlaces, IsTerminal,
       Suspended
  <1>12. QED
    BY <1>6, <1>7, <1>8, <1>9, <1>10, <1>11 DEF EngineInv

LEMMA PortErrorKeeps == ASSUME EngineInv, PortError PROVE EngineInv'
  <1>1. /\ pc \in FalliblePoints /\ pc' = "error" /\ UNCHANGED <<after, refused>>
        /\ UNCHANGED <<runVars, localVars, registryVars>>
    BY DEF PortError, Goto
  <1>2. UNCHANGED <<cur, cont, intent, status, stepVars, events>> /\ RunStep
    BY <1>1 DEF localVars, runVars, stepVars, RunStep
  <1>3. ~IsTerminal(status)
    <2>1. CASE pc \in {"manualCompact", "drain"}
      BY <2>1 DEF EngineInv, Place, IdlePlaces, IsTerminal, TerminalStatus
    <2>2. CASE pc \in {"compactCheck", "compact", "stopHook"}
      BY <2>2 DEF EngineInv, Place, ModelPlaces, IsTerminal, TerminalStatus
    <2>3. CASE pc \in {"await", "ask", "completeStep"}
      BY <2>3 DEF EngineInv, Place, ToolPlaces, IsTerminal, TerminalStatus, Waiting,
         Suspended
    <2>4. CASE pc \in {"cancelling", "finalizing", "terminating"}
      BY <2>4 DEF EngineInv, Place, EndPlaces, IsTerminal, TerminalStatus
    <2>5. QED BY <1>1, <2>1, <2>2, <2>3, <2>4 DEF FalliblePoints
  <1>4. Place(pc)'
    BY <1>1, <1>2, <1>3 DEF Place, IdlePlaces, ModelPlaces, ToolPlaces, EndPlaces,
       IsTerminal
  <1>5. LocalTypes' BY <1>1, LocalTypesSame DEF EngineInv, EngineTypeOK, Points
  <1>6. ContOK' BY <1>2 DEF EngineInv, ContOK
  <1>7. StepsOK' BY <1>2, StepsSame DEF EngineInv
  <1>8. QED
    BY <1>1, <1>2, <1>4, <1>5, <1>6, <1>7, Quiet DEF FalliblePoints, RefusedAt, Carried

LEMMA EmitKeeps == ASSUME EngineInv, RunStep, Emit PROVE EngineInv'
  <1>1. /\ pc = "emit" /\ pc' = after /\ UNCHANGED <<after, refused, localVars, registryVars>>
        /\ IsTerminal(status) /\ after = Leave
    BY DEF Emit, Goto, EngineInv, Place, EndPlaces, Returns
  <1>2. events' = <<>> /\ UNCHANGED <<intent, status, stepVars>>
    BY DEF Emit, DrainEvents, runVars, stepVars
  <1>3. UNCHANGED <<cur, cont, unasked, soft, calls>>
    BY <1>1, <1>2 DEF stepVars, localVars, roundVars
  <1>4. InScope' <=> InScope BY <1>1 DEF InScope, registryVars
  <1>5. Place(pc)'
    BY <1>1, <1>2, <1>4 DEF Place, IdlePlaces, ModelPlaces, ToolPlaces, EndPlaces,
       IsTerminal,
       Between, Leave
  <1>6. LocalTypes' BY <1>1, LocalTypesSame DEF EngineInv, EngineTypeOK, Points
  <1>7. EngineTypeOK' /\ StatusInv'
    BY <1>1, <1>6, RunKeeps, TypesSplit DEF EngineInv, EngineTypeOK, LocalTypes,
       Registry!RegistryTypeOK, registryVars
  <1>8. EntryOK' BY <1>1, <1>2, <1>3, EntrySame DEF EngineInv, Carried, Leave
  <1>9. EventsOK' /\ ContOK' BY <1>2, <1>3 DEF EngineInv, EventsOK, ContOK
  <1>10. RefusedOK'
    BY <1>1, <1>3 DEF EngineInv, RefusedOK, RefusedOnlyInToolRound
  <1>11. TerminatedOnlyOnRequest' BY <1>1, <1>2, RequestStays DEF EngineInv
  <1>12. StepsOK' BY <1>2, <1>3, StepsSame DEF EngineInv
  <1>13. QED
    BY <1>5, <1>7, <1>8, <1>9, <1>10, <1>11, <1>12 DEF EngineInv

(* The scope of the engine's step, from which its identity follows. *)
LEMMA ScopeHasStep == ASSUME EngineInv, InScope, pc # "done" PROVE cur \in StepId
  BY DEF EngineInv, EntryOK, Entry, InScope, EngineTypeOK

LEMMA CancellationKeeps == ASSUME EngineInv, RunStep, FinishCancellation PROVE EngineInv'
  <1> USE DEF Carried, RefusedAt
  <1>1. /\ pc \in {"cancelling", "finalizing"} /\ InScope /\ reply = "idle"
        /\ after = "stepEnd" /\ pendingInteraction = NoRequest
        /\ UNCHANGED <<after, refused, localVars, registryVars>>
    BY DEF FinishCancellation, Goto, EngineInv, Place, EndPlaces
  <1>2. cur \in StepId /\ TypeOK BY <1>1, ScopeHasStep, TypesSplit DEF EngineInv
  <1>3. UNCHANGED <<cur, cont, reply>> BY <1>1 DEF localVars
  <1>4. InScope' BY <1>1 DEF InScope, registryVars
  <1>5. CASE pc = "cancelling"
    <2>1. status = "CancellingStep" /\ BeginStepFinalization(cur) /\ pc' = "finalizing"
      BY <1>5 DEF FinishCancellation, Goto, EngineInv, Place, EndPlaces
    <2>2. /\ status' = "FinalizingStep" /\ steps' = [steps EXCEPT ![cur] = "Finalizing"]
          /\ UNCHANGED <<intent, pendingInteraction, invoked, calls, events>>
      BY <2>1 DEF BeginStepFinalization, CommandStatusAllowed, IsTerminal, TerminalStatus
    <2>3. steps'[cur] = "Finalizing" /\ \A s \in StepId : s # cur => steps'[s] = steps[s]
      BY <1>2, <2>2 DEF TypeOK
    <2>4. StepsOK' BY <1>2, <1>3, <2>2, <2>3 DEF EngineInv, StepsOK, IsActive, ActiveStep
    <2>5. Place(pc)'
      BY <1>1, <1>3, <1>4, <2>1, <2>2, <2>3 DEF Place, IdlePlaces, ModelPlaces, ToolPlaces,
         EndPlaces
    <2>6. LocalTypes' BY <1>1, <2>1, LocalTypesSame DEF Points
    <2>7. ContOK' BY <1>3, <2>2 DEF EngineInv, ContOK
    <2>8. QED BY <1>1, <1>3, <1>5, <2>1, <2>2, <2>4, <2>5, <2>6, <2>7, Quiet
  <1>6. CASE pc = "finalizing"
    <2>1. PICK final \in {"Cancelled", "CancellationUnconfirmed"} :
             FinishStepCancellation(cur, final)
      BY <1>6 DEF FinishCancellation
    <2>2. status = "FinalizingStep" /\ pc' = "stepEnd"
      BY <1>1, <1>6 DEF FinishCancellation, Goto, EngineInv, Place, EndPlaces
    <2>3. Legal("StepCancelled")
      BY <2>2 DEF Legal, IntentAllows, Matrix, RunStatus
    <2>4. /\ status' = "DrainingInput" /\ steps' = [steps EXCEPT ![cur] = final]
          /\ UNCHANGED <<intent, pendingInteraction, invoked, calls, events>>
      BY <2>1, <2>3 DEF FinishStepCancellation
    <2>5. steps'[cur] = final /\ \A s \in StepId : s # cur => steps'[s] = steps[s]
      BY <1>2, <2>4 DEF TypeOK
    <2>6. \A s \in StepId : steps'[s] \notin ActiveStep
      BY <2>5 DEF EngineInv, StepsOK, IsActive, ActiveStep
    <2>7. StepsOK' BY <1>3, <2>4, <2>5, <2>6 DEF EngineInv, StepsOK, IsActive
    <2>8. ~SomeActiveStep' BY <2>6 DEF SomeActiveStep, IsActive
    <2>9. Between' BY <1>1, <1>3, <2>4, <2>8 DEF Between
    <2>10. Place(pc)'
      BY <1>4, <2>2, <2>9 DEF Place, IdlePlaces, ModelPlaces, ToolPlaces, EndPlaces
    <2>11. LocalTypes' BY <1>1, <2>2, LocalTypesSame DEF Points
    <2>12. ContOK' BY <1>3, <2>4 DEF EngineInv, ContOK
    <2>13. QED BY <1>1, <1>3, <1>6, <2>2, <2>4, <2>7, <2>10, <2>11, <2>12, Quiet
  <1>7. QED BY <1>1, <1>5, <1>6

LEMMA TerminationKeeps == ASSUME EngineInv, RunStep, FinishTheTermination PROVE EngineInv'
  <1>1. /\ pc = "terminating" /\ status = "Terminating" /\ termination # "none"
        /\ after = Leave
    BY DEF FinishTheTermination, EngineInv, Place, EndPlaces, Returns
  <1>2. /\ FinishTermination /\ pc' = "emit"
        /\ UNCHANGED <<after, refused, localVars, registryVars>>
    BY <1>1 DEF FinishTheTermination, Try
  <1>3. /\ status' = "Terminated" /\ CloseActiveSteps("CancellationUnconfirmed")
        /\ UNCHANGED <<intent, invoked, calls>>
    BY <1>1, <1>2 DEF FinishTermination, Moves, Matrix
  <1>4. UNCHANGED <<cur, cont>> BY <1>2 DEF localVars
  <1>5. InScope' <=> InScope BY <1>2 DEF InScope, registryVars
  <1>6. Place(pc)'
    BY <1>1, <1>2, <1>3, <1>5 DEF Place, IdlePlaces, ModelPlaces, ToolPlaces, EndPlaces,
       IsTerminal, TerminalStatus, Returns, Leave
  <1>7. LocalTypes' BY <1>2, LocalTypesSame DEF EngineInv, EngineTypeOK, Points
  <1>8. EngineTypeOK' /\ StatusInv'
    BY <1>2, <1>7, RunKeeps, TypesSplit DEF EngineInv, EngineTypeOK, LocalTypes,
       Registry!RegistryTypeOK, registryVars
  <1>9. EntryOK' BY <1>1, <1>2, <1>3, <1>4, EntrySame DEF EngineInv, Carried
  <1>10. EventsOK' /\ ContOK' BY <1>2, <1>3, <1>4 DEF EngineInv, EventsOK, ContOK
  <1>11. RefusedOK' BY <1>1, <1>2 DEF EngineInv, RefusedOK
  <1>12. TerminatedOnlyOnRequest'
    <2>1. Registry!Terminating(Main) \/ (RootCancelled /\ intent = "ManualReflection")
      BY <1>1 DEF EngineInv, TerminatedOnlyOnRequest
    <2>2. QED BY <1>1, <1>2, <1>3, <2>1, RequestStays DEF EngineInv
  <1>13. StepsOK' BY <1>3, <1>4, CloseKeeps DEF EngineInv, InactiveStep
  <1>14. QED
    BY <1>6, <1>8, <1>9, <1>10, <1>11, <1>12, <1>13 DEF EngineInv

(* Where the engine is does not depend on the registry but for the scope. *)
LEMMA PlaceSame ==
  ASSUME Place(pc), UNCHANGED <<runVars, pc, after, localVars>>, InScope' <=> InScope
  PROVE  Place(pc)'
  <1>1. UNCHANGED <<steps, cur, reply, pendingInteraction, intent, status, calls, soft, asks,
                    unasked, current, reflectionReturn, termination, pc, after>>
    BY DEF runVars, localVars, roundVars
  <1>2. /\ RoundAsks' <=> RoundAsks
        /\ RoundWaits' <=> RoundWaits
        /\ SomeActiveStep' <=> SomeActiveStep
        /\ Suspended' <=> Suspended
        /\ \A ss : Stepping(ss)' <=> Stepping(ss)
    BY <1>1 DEF RoundAsks, RoundWaits, Held, Settled, SomeActiveStep, IsActive, Suspended,
       Stepping
  <1>3. /\ Waiting' <=> Waiting
        /\ Idle' <=> Idle
        /\ \A ss : InStep(ss)' <=> InStep(ss)
    BY <1>1, <1>2 DEF Waiting, Idle, InStep
  <1>4. Between' <=> Between BY <1>1, <1>2, <1>3 DEF Between
  <1>5. IdlePlaces(pc)'
    BY <1>1, <1>3, <1>4 DEF Place, IdlePlaces
  <1>6. ModelPlaces(pc)'
    BY <1>1, <1>2, <1>3 DEF Place, ModelPlaces
  <1>7. ToolPlaces(pc)'
    BY <1>1, <1>2, <1>3 DEF Place, ToolPlaces, Held, Settled
  <1>8. EndPlaces(pc)'
    BY <1>1, <1>2, <1>4 DEF Place, EndPlaces, Returns, Leave
  <1>9. QED BY <1>5, <1>6, <1>7, <1>8 DEF Place

(* What a client asks for changes the entry of the run and nothing else. *)
LEMMA ClientKeeps == ASSUME EngineInv, Client PROVE EngineInv'
  <1>1. Registry!RegistryTypeOK /\ currentMain \in {"none", Main}
    BY TypesSplit DEF EngineInv, EntryOK
  <1>2. Registry!RegistryTypeOK' /\ Requested /\ Entry.present
    BY <1>1, ClientRequests
  <1>3. /\ UNCHANGED <<runVars, pc, after, localVars, refused>>
        /\ UNCHANGED <<intent, status, stepVars, events, cur, cont, unasked, soft, calls>>
    BY DEF Client, engineVars, runVars, stepVars, localVars, roundVars
  <1>4. InScope' <=> InScope BY <1>2 DEF Requested, InScope, Entry
  <1>5. Entry.step # NoStep => Entry.step \in StepId
    BY <1>1, <1>2, EntryTyped DEF Registry!Entry
  <1>6. EntryOK'
    BY <1>2, <1>3, <1>5, ControlsTyped DEF EngineInv, EntryOK, Requested
  <1>7. TerminatedOnlyOnRequest'
    BY <1>2, <1>3, <1>5, ControlsTyped DEF EngineInv, TerminatedOnlyOnRequest, Requested,
       RootCancelled, Registry!RootCancelled, Registry!Terminating, Registry!Present, Entry
  <1>8. LocalTypes' BY <1>3, LocalTypesSame DEF EngineInv, EngineTypeOK
  <1>9. EngineTypeOK' /\ StatusInv'
    BY <1>2, <1>3, <1>8, RunKeeps DEF RunStep, EngineTypeOK, LocalTypes
  <1>10. EventsOK' /\ ContOK' BY <1>3 DEF EngineInv, EventsOK, ContOK
  <1>11. RefusedOK' BY <1>3 DEF EngineInv, RefusedOK, RefusedOnlyInToolRound
  <1>12. StepsOK' BY <1>3, StepsSame DEF EngineInv
  <1>13. Place(pc)' BY <1>3, <1>4, PlaceSame DEF EngineInv
  <1>14. QED
    BY <1>6, <1>7, <1>9, <1>10, <1>11, <1>12, <1>13 DEF EngineInv

(* The answer of the user: the engine waits for it, wherever it is. *)
LEMMA ReplyKeeps == ASSUME EngineInv, Reply PROVE EngineInv'
  <1>1. /\ Suspended /\ reply = "open" /\ reply' \in {"answered", "declined"}
        /\ UNCHANGED <<runVars, pc, after, cur, cont, retried, reflected, roundVars, refused>>
        /\ UNCHANGED registryVars
    BY DEF Reply
  <1>2. UNCHANGED <<intent, status, stepVars, events, cur, cont, unasked, soft, calls,
                    steps, pendingInteraction, asks, current, pc, after, termination>>
    BY <1>1 DEF runVars, stepVars, roundVars
  <1>3. LocalTypes' BY <1>1, TypesSplit DEF EngineInv, LocalTypes, roundVars
  <1>4. EngineTypeOK' /\ StatusInv'
    BY <1>1, <1>3, RunKeeps, TypesSplit DEF RunStep, EngineInv, EngineTypeOK, LocalTypes,
       Registry!RegistryTypeOK, registryVars
  <1>5. EntryOK' BY <1>1, <1>2 DEF EngineInv, EntryOK, Entry, registryVars
  <1>6. EventsOK' /\ ContOK' BY <1>2 DEF EngineInv, EventsOK, ContOK
  <1>7. RefusedOK' BY <1>1, <1>2 DEF EngineInv, RefusedOK, RefusedOnlyInToolRound
  <1>8. TerminatedOnlyOnRequest'
    BY <1>1, <1>2 DEF EngineInv, TerminatedOnlyOnRequest, registryVars, RootCancelled,
       Registry!RootCancelled, Registry!Terminating, Registry!Present
  <1>9. StepsOK' BY <1>2, StepsSame DEF EngineInv
  <1>10. /\ status = "AwaitingUser" /\ pendingInteraction # NoRequest /\ Suspended'
         /\ ~Idle /\ \A ss : ~Stepping(ss) /\ ~InStep(ss)
    BY <1>1, <1>2 DEF Suspended, Idle, Stepping, InStep
  <1>11. /\ InScope' <=> InScope
         /\ Waiting => Waiting'
    BY <1>1, <1>2 DEF InScope, registryVars, Waiting, Suspended, RoundWaits, Held, Settled
  <1>12. Between => Between'
    BY <1>2, <1>10, <1>11 DEF Between, IsTerminal
  <1>13. IdlePlaces(pc)'
    BY <1>2, <1>10, <1>11, <1>12 DEF EngineInv, Place, IdlePlaces
  <1>14. ModelPlaces(pc)'
    BY <1>2, <1>10 DEF EngineInv, Place, ModelPlaces
  <1>15. ToolPlaces(pc)'
    BY <1>2, <1>10, <1>11 DEF EngineInv, Place, ToolPlaces
  <1>16. EndPlaces(pc)'
    BY <1>2, <1>10, <1>11, <1>12 DEF EngineInv, Place, EndPlaces, Returns, Leave, IsTerminal
  <1>17. QED
    BY <1>4, <1>5, <1>6, <1>7, <1>8, <1>9, <1>13, <1>14, <1>15, <1>16 DEF EngineInv, Place

(* A transition within a step. *)
LEMMA StepMoves ==
  ASSUME EngineInv, RunStep, NEW t, NEW to \in RunStatus, Leads(t, to),
         to \notin {"Terminating", "Terminated"},
         NEW next \in Points \ {"done", "emit"}, Try(Legal(t), Transition(t), next),
         pc \notin Carried \cup RefusedAt, UNCHANGED <<cur, reply, cont>>, LocalTypes',
         NEW ss, InStep(ss),
         InStep(ss)' /\ status' = to /\ pc' = next => Place(pc)'
  PROVE  EngineInv'
  <1>1. status' = to /\ pc' = next /\ UNCHANGED intent BY TransitionEffect
  <1>2. InStep(ss)' BY TransitionStill
  <1>3. ContOK' BY <1>1 DEF EngineInv, ContOK
  <1>4. QED BY <1>1, <1>2, <1>3, MoveKeeps

LEMMA StepMovesOn ==
  ASSUME EngineInv, RunStep, NEW t, NEW to \in RunStatus, Leads(t, to),
         to \notin {"Terminating", "Terminated"},
         NEW next \in Points \ {"done", "emit"}, Move(t, next),
         pc \notin Carried \cup RefusedAt, NEW ss, InStep(ss),
         InStep(ss)' /\ status' = to /\ pc' = next => Place(pc)'
  PROVE  EngineInv'
  <1>1. Try(Legal(t), Transition(t), next) /\ UNCHANGED localVars BY DEF Move
  <1>2. UNCHANGED <<cur, reply, cont>> BY <1>1 DEF localVars
  <1>3. pc' = next /\ UNCHANGED <<after, refused>> BY <1>1, TransitionEffect
  <1>4. LocalTypes' BY <1>1, <1>3, LocalTypesSame DEF EngineInv, EngineTypeOK
  <1>5. QED BY <1>1, <1>2, <1>4, StepMoves

(* Before the model is called. *)
LEMMA CompactionKeeps ==
  ASSUME EngineInv, RunStep, CompactionCheck \/ Compact PROVE EngineInv'
  <1> USE DEF Points, Carried, RefusedAt
  <1> DEFINE S == {"Invoking"}
  <1>1. CASE CompactionCheck
    <2>1. pc = "compactCheck" /\ InStep(S) /\ status = "PreparingContext"
      BY <1>1 DEF CompactionCheck, EngineInv, Place, ModelPlaces
    <2>2. CASE HandleStepControl
      BY <2>1, <2>2, StepControlKeeps DEF IsTerminal, TerminalStatus
    <2>3. CASE FailRun BY <2>1, <2>3, FailRunKeeps
    <2>4. CASE Move("BeginCompaction", "compact")
      <3>1. Leads("BeginCompaction", "Compacting") /\ "Compacting" \in RunStatus
        BY <2>1 DEF Leads, IntentAllows, Matrix, RunStatus
      <3>2. InStep(S)' /\ status' = "Compacting" /\ pc' = "compact" => Place(pc)'
        BY DEF Place, IdlePlaces, ModelPlaces, ToolPlaces, EndPlaces
      <3>3. QED BY <2>1, <2>4, <3>1, <3>2, StepMovesOn
    <2>5. CASE /\ Goto("prepareInterrupt")
               /\ UNCHANGED <<runVars, localVars, registryVars>>
      <3>1. InStep(S)' /\ status' = "PreparingContext" /\ pc' = "prepareInterrupt"
        BY <2>1, <2>5, Frozen DEF Goto
      <3>2. Place(pc)' BY <3>1 DEF Place, IdlePlaces, ModelPlaces, ToolPlaces, EndPlaces
      <3>3. QED BY <2>1, <2>5, <3>2, GoKeeps
    <2>6. QED BY <1>1, <2>2, <2>3, <2>4, <2>5 DEF CompactionCheck
  <1>2. CASE Compact
    <2>1. pc = "compact" /\ InStep(S) /\ status = "Compacting"
      BY <1>2 DEF Compact, EngineInv, Place, ModelPlaces
    <2>2. CASE HandleStepControl
      BY <2>1, <2>2, StepControlKeeps DEF IsTerminal, TerminalStatus
    <2>3. CASE FailRun BY <2>1, <2>3, FailRunKeeps
    <2>4. CASE AllowsAutoReflection /\ Move("BeginReflection", "preReflect")
      <3>1. Leads("BeginReflection", "Reflecting") /\ "Reflecting" \in RunStatus
        BY <2>1, <2>4 DEF Leads, IntentAllows, Matrix, RunStatus
      <3>2. reflectionReturn' = "Compacting"
        BY <2>1, <2>4, <3>1, TransitionEffect DEF Move
      <3>3. InStep(S)' /\ status' = "Reflecting" /\ pc' = "preReflect" => Place(pc)'
        BY <3>2 DEF Place, IdlePlaces, ModelPlaces, ToolPlaces, EndPlaces
      <3>4. QED BY <2>1, <2>4, <3>1, <3>3, StepMovesOn
    <2>5. CASE Goto("compacted") /\ UNCHANGED <<runVars, localVars, registryVars>>
      <3>1. InStep(S)' /\ status' = "Compacting" /\ pc' = "compacted"
        BY <2>1, <2>5, Frozen DEF Goto
      <3>2. Place(pc)' BY <3>1 DEF Place, IdlePlaces, ModelPlaces, ToolPlaces, EndPlaces
      <3>3. QED BY <2>1, <2>5, <3>2, GoKeeps
    <2>6. QED BY <1>2, <2>2, <2>3, <2>4, <2>5 DEF Compact
  <1>3. QED BY <1>1, <1>2

LEMMA PreparationKeeps ==
  ASSUME EngineInv, RunStep, PreCompactReflection \/ Compacted \/ PrepareInterrupt \/ Prepare
  PROVE  EngineInv'
  <1> USE DEF Points, Carried, RefusedAt
  <1> DEFINE S == {"Invoking"}
  <1>1. CASE PreCompactReflection
    <2>1. PICK next \in {"compacted", "error"} : Move("ReflectionCompleted", next)
      BY <1>1 DEF PreCompactReflection
    <2>2. /\ pc = "preReflect" /\ InStep(S) /\ status = "Reflecting"
          /\ reflectionReturn = "Compacting"
      BY <1>1 DEF PreCompactReflection, EngineInv, Place, ModelPlaces
    <2>3. Leads("ReflectionCompleted", "Compacting") /\ "Compacting" \in RunStatus
      BY <2>2 DEF Leads, IntentAllows, Matrix, RunStatus
    <2>4. InStep(S)' /\ status' = "Compacting" /\ pc' = next => Place(pc)'
      BY DEF Place, IdlePlaces, ModelPlaces, ToolPlaces, EndPlaces, IsTerminal,
         TerminalStatus
    <2>5. QED BY <2>1, <2>2, <2>3, <2>4, StepMovesOn
  <1>2. CASE Compacted
    <2> DEFINE next == IF retried THEN "prepare" ELSE "prepareInterrupt"
    <2>1. pc = "compacted" /\ InStep(S) /\ status = "Compacting"
      BY <1>2 DEF Compacted, EngineInv, Place, ModelPlaces
    <2>2. SomeActiveStep
      BY <2>1 DEF InStep, Stepping, SomeActiveStep, IsActive, ActiveStep
    <2>3. Leads("CompactionCompleted", "PreparingContext") /\ "PreparingContext" \in RunStatus
      BY <2>1, <2>2 DEF Leads, IntentAllows, Matrix, RunStatus
    <2>4. InStep(S)' /\ status' = "PreparingContext" /\ pc' = next => Place(pc)'
      BY DEF Place, IdlePlaces, ModelPlaces, ToolPlaces, EndPlaces
    <2>5. next \in Points \ {"done", "emit"} /\ Move("CompactionCompleted", next)
      BY <1>2 DEF Compacted
    <2> HIDE DEF next
    <2>6. QED BY <2>1, <2>3, <2>4, <2>5, StepMovesOn
  <1>3. CASE PrepareInterrupt
    <2>1. pc = "prepareInterrupt" /\ InStep(S) /\ status = "PreparingContext"
      BY <1>3 DEF PrepareInterrupt, EngineInv, Place, ModelPlaces
    <2>2. ASSUME UNCHANGED <<runVars, localVars, registryVars>>, pc' = "prepare"
          PROVE  Place(pc)'
      <3>1. InStep(S)' /\ status' = "PreparingContext" BY <2>1, <2>2, Frozen
      <3>2. QED BY <2>2, <3>1 DEF Place, IdlePlaces, ModelPlaces, ToolPlaces, EndPlaces
    <2>3. QED BY <1>3, <2>1, <2>2, InterruptKeeps DEF PrepareInterrupt
  <1>4. CASE Prepare
    <2>1. pc = "prepare" /\ InStep(S) /\ status = "PreparingContext" /\ intent \notin ManualIntents
      BY <1>4 DEF Prepare, EngineInv, Place, ModelPlaces, InStep, Stepping
    <2>2. Leads("ContextPrepared", "InvokingModel") /\ "InvokingModel" \in RunStatus
      BY <2>1 DEF Leads, IntentAllows, Matrix, RunStatus
    <2>3. InStep(S)' /\ status' = "InvokingModel" /\ pc' = "model" => Place(pc)'
      BY DEF Place, IdlePlaces, ModelPlaces, ToolPlaces, EndPlaces
    <2>4. QED BY <1>4, <2>1, <2>2, <2>3, StepMovesOn DEF Prepare
  <1>5. QED BY <1>1, <1>2, <1>3, <1>4

(* The step is begun. *)
LEMMA BeginKeeps == ASSUME EngineInv, RunStep, BeginStep PROVE EngineInv'
  <1> USE DEF Points, Carried, RefusedAt
  <1>1. /\ pc = "begin" /\ InStep({"none"}) /\ status = "PreparingContext" /\ ~SomeActiveStep
    BY DEF BeginStep, EngineInv, Place, ModelPlaces
  <1>2. CASE FailRun BY <1>1, <1>2, FailRunKeeps
  <1>3. CASE /\ Try(CanBeginStep, BeginStepWithId(cur), "compactCheck")
             /\ UNCHANGED localVars
    <2>1. CanBeginStep BY <1>1 DEF CanBeginStep
    <2>2. /\ BeginStepWithId(cur) /\ pc' = "compactCheck" /\ UNCHANGED localVars
          /\ UNCHANGED <<after, refused, registryVars>>
      BY <1>3, <2>1 DEF Try
    <2>3. /\ steps' = [steps EXCEPT ![cur] = "Invoking"]
          /\ UNCHANGED <<intent, status, pendingInteraction, invoked, calls, events>>
          /\ UNCHANGED <<cur, reply, cont>>
      BY <2>2 DEF BeginStepWithId, localVars
    <2>4. cur \in StepId /\ steps[cur] = "none" /\ TypeOK
      BY <1>1, TypesSplit DEF InStep, Stepping, EngineInv
    <2>5. steps'[cur] = "Invoking" /\ \A s \in StepId : s # cur => steps'[s] = steps[s]
      BY <2>3, <2>4 DEF TypeOK
    <2>6. StepsOK'
      BY <1>1, <2>3, <2>4, <2>5 DEF EngineInv, StepsOK, IsActive, SomeActiveStep, ActiveStep
    <2>7. InStep({"Invoking"})'
      BY <1>1, <2>2, <2>3, <2>5 DEF InStep, Stepping, InScope, registryVars
    <2>8. Place(pc)'
      BY <1>1, <2>2, <2>3, <2>7 DEF Place, IdlePlaces, ModelPlaces, ToolPlaces, EndPlaces
    <2>9. LocalTypes' BY <2>2, LocalTypesSame DEF EngineInv, EngineTypeOK
    <2>10. ContOK' BY <2>3 DEF EngineInv, ContOK
    <2>11. QED BY <1>1, <2>2, <2>3, <2>6, <2>8, <2>9, <2>10, Quiet
  <1>4. QED BY <1>2, <1>3 DEF BeginStep

(* The model phase. *)
LEMMA InvokeKeeps == ASSUME EngineInv, RunStep, InvokeModel PROVE EngineInv'
  <1> USE DEF Points, Carried, RefusedAt
  <1> DEFINE S == {"Invoking"}
  <1>1. pc = "model" /\ InStep(S) /\ status = "InvokingModel"
    BY DEF InvokeModel, EngineInv, Place, ModelPlaces
  <1>2. CASE HandleStepControl
    BY <1>1, <1>2, StepControlKeeps DEF IsTerminal, TerminalStatus
  <1>3. CASE FailRun BY <1>1, <1>3, FailRunKeeps
  <1>4. CASE Goto("responseInterrupt") /\ UNCHANGED <<runVars, localVars, registryVars>>
    <2>1. InStep(S)' /\ status' = "InvokingModel" /\ pc' = "responseInterrupt"
      BY <1>1, <1>4, Frozen DEF Goto
    <2>2. Place(pc)' BY <2>1 DEF Place, IdlePlaces, ModelPlaces, ToolPlaces, EndPlaces
    <2>3. QED BY <1>1, <1>4, <2>2, GoKeeps
  <1>5. CASE /\ Try(Legal("ModelContextExceeded"), Transition("ModelContextExceeded"), "compact")
             /\ retried' = TRUE
             /\ UNCHANGED <<cur, cont, reflected, roundVars, reply>>
    <2>1. Leads("ModelContextExceeded", "Compacting") /\ "Compacting" \in RunStatus
      BY <1>1 DEF Leads, IntentAllows, Matrix, RunStatus
    <2>2. InStep(S)' /\ status' = "Compacting" /\ pc' = "compact" => Place(pc)'
      BY DEF Place, IdlePlaces, ModelPlaces, ToolPlaces, EndPlaces
    <2>3. pc' = "compact" /\ UNCHANGED <<after, refused>> BY <1>5, <2>1, TransitionEffect
    <2>4. LocalTypes'
      BY <1>5, <2>3, TypesSplit DEF EngineInv, LocalTypes, roundVars
    <2>5. QED BY <1>1, <1>5, <2>1, <2>2, <2>4, StepMoves
  <1>6. QED BY <1>2, <1>3, <1>4, <1>5 DEF InvokeModel

LEMMA RecordKeeps == ASSUME EngineInv, RunStep, RecordInvocation PROVE EngineInv'
  <1> USE DEF Points, Carried, RefusedAt
  <1>1. pc = "record" /\ InStep({"Invoking"}) /\ status = "InvokingModel"
    BY DEF RecordInvocation, EngineInv, Place, ModelPlaces
  <1>2. cur \in StepId /\ steps[cur] = "Invoking" /\ TypeOK
    BY <1>1, TypesSplit DEF InStep, Stepping, EngineInv
  <1>3. CanRecordInvocation(cur)
    BY <1>1, <1>2 DEF EngineInv, StepsOK, CanRecordInvocation, RejectsControlledWork,
       IsActive,
       ActiveStep, TerminalStatus
  <1>4. /\ RecordModelInvocation(cur) /\ pc' = "invoked"
        /\ UNCHANGED <<after, refused, registryVars, localVars>>
    BY <1>3 DEF RecordInvocation, Try
  <1>5. /\ steps' = [steps EXCEPT ![cur] = "Applying"] /\ invoked' = invoked \cup {cur}
        /\ UNCHANGED <<intent, status, pendingInteraction, calls, events>>
        /\ UNCHANGED <<cur, reply, cont>>
    BY <1>4 DEF RecordModelInvocation, localVars
  <1>6. steps'[cur] = "Applying" /\ \A s \in StepId : s # cur => steps'[s] = steps[s]
    BY <1>2, <1>5 DEF TypeOK
  <1>7. StepsOK'
    BY <1>2, <1>5, <1>6 DEF EngineInv, StepsOK, IsActive, ActiveStep
  <1>8. InStep({"Applying"})'
    BY <1>1, <1>4, <1>5, <1>6 DEF InStep, Stepping, InScope, registryVars
  <1>9. Place(pc)'
    BY <1>1, <1>4, <1>5, <1>8 DEF Place, IdlePlaces, ModelPlaces, ToolPlaces, EndPlaces
  <1>10. LocalTypes' BY <1>4, LocalTypesSame DEF EngineInv, EngineTypeOK
  <1>11. ContOK' BY <1>5 DEF EngineInv, ContOK
  <1>12. QED BY <1>1, <1>4, <1>5, <1>7, <1>9, <1>10, <1>11, Quiet

LEMMA ResponseKeeps ==
  ASSUME EngineInv, RunStep, ResponseInterrupt \/ ModelInvoked \/ RespondTools PROVE EngineInv'
  <1> USE DEF Points, Carried, RefusedAt
  <1>1. CASE ResponseInterrupt
    <2>1. pc = "responseInterrupt" /\ InStep({"Invoking"}) /\ status = "InvokingModel"
      BY <1>1 DEF ResponseInterrupt, EngineInv, Place, ModelPlaces
    <2>2. ASSUME UNCHANGED <<runVars, localVars, registryVars>>, pc' = "record"
          PROVE  Place(pc)'
      <3>1. InStep({"Invoking"})' /\ status' = "InvokingModel" BY <2>1, <2>2, Frozen
      <3>2. QED BY <2>2, <3>1 DEF Place, IdlePlaces, ModelPlaces, ToolPlaces, EndPlaces
    <2>3. QED BY <1>1, <2>1, <2>2, InterruptKeeps DEF ResponseInterrupt
  <1>2. CASE ModelInvoked
    <2>1. pc = "invoked" /\ InStep({"Applying"}) /\ status = "InvokingModel"
      BY <1>2 DEF ModelInvoked, EngineInv, Place, ModelPlaces
    <2>2. IsActive(cur) /\ cur \in invoked /\ cur \in StepId
      BY <2>1 DEF InStep, Stepping, EngineInv, StepsOK, IsActive, ActiveStep
    <2>3. Leads("ModelInvoked", "ApplyingResponse") /\ "ApplyingResponse" \in RunStatus
      BY <2>1, <2>2 DEF Leads, IntentAllows, Matrix, RunStatus
    <2>4. InStep({"Applying"})' /\ status' = "ApplyingResponse" /\ pc' = "response" => Place(pc)'
      BY DEF Place, IdlePlaces, ModelPlaces, ToolPlaces, EndPlaces
    <2>5. QED BY <1>2, <2>1, <2>3, <2>4, StepMovesOn DEF ModelInvoked
  <1>3. CASE RespondTools
    <2>1. pc = "response" /\ InStep({"Applying"}) /\ status = "ApplyingResponse"
      BY <1>3 DEF RespondTools, EngineInv, Place, ModelPlaces
    <2>2. Leads("ResponseWithTools", "AwaitingToolApproval") /\ "AwaitingToolApproval" \in RunStatus
      BY <2>1 DEF Leads, IntentAllows, Matrix, RunStatus
    <2>3. Move("ResponseWithTools", "addCalls") BY <1>3 DEF RespondTools
    <2>4. UNCHANGED <<calls, cur>>
      BY <2>2, <2>3, TransitionEffect DEF Move, localVars
    <2>5. \A c \in CallId : calls[cur][c] = "none"
      BY <2>1 DEF InStep, Stepping, EngineInv, StepsOK
    <2>6. InStep({"Applying"})' => InStep({"Applying", "ToolPhase"})'
      BY DEF InStep, Stepping
    <2>7. ASSUME InStep({"Applying"})', status' = "AwaitingToolApproval", pc' = "addCalls"
          PROVE  Place(pc)'
      BY <2>4, <2>5, <2>6, <2>7 DEF Place, IdlePlaces, ModelPlaces, ToolPlaces, EndPlaces
    <2>8. QED BY <2>1, <2>2, <2>3, <2>7, StepMovesOn
  <1>4. QED BY <1>1, <1>2, <1>3

LEMMA CompleteResponseKeeps ==
  ASSUME EngineInv, RunStep, RespondComplete \/ Reflect \/ Continue PROVE EngineInv'
  <1> USE DEF Points, Carried, RefusedAt
  <1> DEFINE S == {"Applying"}
  <1>1. CASE RespondComplete
    <2>1. pc = "response" /\ InStep(S) /\ status = "ApplyingResponse"
      BY <1>1 DEF RespondComplete, EngineInv, Place, ModelPlaces
    <2>2. CASE Goto("stopHook") /\ UNCHANGED <<runVars, localVars, registryVars>>
      <3>1. InStep(S)' /\ status' = "ApplyingResponse" /\ pc' = "stopHook"
        BY <2>1, <2>2, Frozen DEF Goto
      <3>2. Place(pc)' BY <3>1 DEF Place, IdlePlaces, ModelPlaces, ToolPlaces, EndPlaces
      <3>3. QED BY <2>1, <2>2, <3>2, GoKeeps
    <2>3. CASE /\ AllowsAutoReflection
               /\ Try(Legal("BeginReflection"), Transition("BeginReflection"), "reflect")
               /\ reflected' = TRUE
               /\ UNCHANGED <<cur, cont, retried, roundVars, reply>>
      <3>1. Leads("BeginReflection", "Reflecting") /\ "Reflecting" \in RunStatus
        BY <2>1, <2>3 DEF Leads, IntentAllows, Matrix, RunStatus
      <3>2. /\ pc' = "reflect" /\ UNCHANGED <<after, refused>>
            /\ reflectionReturn' = "ApplyingResponse"
        BY <2>1, <2>3, <3>1, TransitionEffect
      <3>3. InStep(S)' /\ status' = "Reflecting" /\ pc' = "reflect" => Place(pc)'
        BY <3>2 DEF Place, IdlePlaces, ModelPlaces, ToolPlaces, EndPlaces
      <3>4. LocalTypes'
        BY <2>3, <3>2, TypesSplit DEF EngineInv, LocalTypes, roundVars
      <3>5. QED BY <2>1, <2>3, <3>1, <3>3, <3>4, StepMoves
    <2>4. QED BY <1>1, <2>2, <2>3 DEF RespondComplete
  <1>2. CASE Reflect
    <2>1. PICK next \in {"stopHook", "error"} : Move("ReflectionCompleted", next)
      BY <1>2 DEF Reflect
    <2>2. /\ pc = "reflect" /\ InStep(S) /\ status = "Reflecting"
          /\ reflectionReturn = "ApplyingResponse"
      BY <1>2 DEF Reflect, EngineInv, Place, ModelPlaces
    <2>3. Leads("ReflectionCompleted", "ApplyingResponse") /\ "ApplyingResponse" \in RunStatus
      BY <2>2 DEF Leads, IntentAllows, Matrix, RunStatus
    <2>4. InStep(S)' /\ status' = "ApplyingResponse" /\ pc' = next => Place(pc)'
      BY DEF Place, IdlePlaces, ModelPlaces, ToolPlaces, EndPlaces, IsTerminal,
         TerminalStatus
    <2>5. QED BY <2>1, <2>2, <2>3, <2>4, StepMovesOn
  <1>3. CASE Continue
    <2>1. pc = "continue" /\ InStep(S) /\ status = "ApplyingResponse"
      BY <1>3 DEF Continue, EngineInv, Place, ModelPlaces
    <2>2. Leads("ContinueAfterResponse", "DrainingInput") /\ "DrainingInput" \in RunStatus
      BY <2>1 DEF Leads, IntentAllows, Matrix, RunStatus
    <2>3. InStep(S)' /\ status' = "DrainingInput" /\ pc' = "completeStep" => Place(pc)'
      BY DEF Place, IdlePlaces, ModelPlaces, ToolPlaces, EndPlaces
    <2>4. QED BY <1>3, <2>1, <2>2, <2>3, StepMovesOn DEF Continue
  <1>4. QED BY <1>1, <1>2, <1>3

LEMMA StopHookKeeps == ASSUME EngineInv, RunStep, StopHook PROVE EngineInv'
  <1> USE DEF Points, Carried, RefusedAt
  <1> DEFINE S == {"Applying"}
  <1>1. pc = "stopHook" /\ InStep(S) /\ status = "ApplyingResponse"
    BY DEF StopHook, EngineInv, Place, ModelPlaces
  <1>2. CASE HandleStepControl
    BY <1>1, <1>2, StepControlKeeps DEF IsTerminal, TerminalStatus
  <1>3. ASSUME NEW next \in {"continue", "fail"}, pc' = next, InStep(S)',
               status' = "ApplyingResponse"
        PROVE  Place(pc)'
    BY <1>3 DEF Place, IdlePlaces, ModelPlaces, ToolPlaces, EndPlaces, IsTerminal,
       TerminalStatus, InStep
  <1>4. ASSUME NEW next \in {"continue", "fail"}, Goto(next),
               UNCHANGED <<runVars, localVars, registryVars>>
        PROVE  EngineInv'
    <2>1. InStep(S)' /\ status' = "ApplyingResponse" /\ pc' = next
      BY <1>1, <1>4, Frozen DEF Goto
    <2>2. QED BY <1>1, <1>3, <1>4, <2>1, GoKeeps
  <1>5. CASE /\ RecordStopHookBlock
             /\ Goto(IF RetryExhausted(stopHookBlockCount') THEN "fail" ELSE "continue")
             /\ cont' = TRUE
             /\ UNCHANGED <<cur, retried, reflected, roundVars, reply, registryVars>>
    <2>1. UNCHANGED <<intent, status, pendingInteraction, steps, stepVars, events>>
      BY <1>5 DEF RecordStopHookBlock, stepVars
    <2>2. InStep(S)' BY <1>1, <1>5, <2>1, Still
    <2>3. pc' \in {"continue", "fail"} /\ UNCHANGED <<after, refused>> BY <1>5 DEF Goto
    <2>4. Place(pc)' BY <1>1, <1>3, <2>1, <2>2, <2>3
    <2>5. LocalTypes'
      BY <1>5, <2>3, TypesSplit DEF EngineInv, LocalTypes, roundVars
    <2>6. ContOK' BY <1>1, <2>1 DEF ContOK, InStep, Stepping
    <2>7. StepsOK' BY <1>5, <2>1, StepsSame DEF EngineInv
    <2>8. QED BY <1>1, <1>5, <2>1, <2>3, <2>4, <2>5, <2>6, <2>7, Quiet
  <1>6. QED BY <1>2, <1>4, <1>5 DEF StopHook

LEMMA FailStepKeeps == ASSUME EngineInv, FailStep PROVE EngineInv'
  BY FailRunKeeps DEF FailStep, Carried

(* The end of the step: only dropped approvals keep the Run from it. *)
LEMMA CompleteKeeps == ASSUME EngineInv, RunStep, CompleteTheStep PROVE EngineInv'
  <1> USE DEF Points, Carried, RefusedAt
  <1> DEFINE next == IF status = "ExecutingTools" THEN "toolsCompleted" ELSE "stepEnd"
  <1>1. /\ pc = "completeStep" /\ UNCHANGED localVars
        /\ Try(CanCompleteStep(cur), CompleteStep(cur), next)
        /\ \/ InStep({"Applying"}) /\ status = "DrainingInput"
           \/ /\ Stepping({"ToolPhase"}) /\ status = "ExecutingTools"
              /\ asks = {} /\ RoundAsks
    BY DEF CompleteTheStep, EngineInv, Place, ToolPlaces
  <1>2. /\ cur \in StepId /\ steps[cur] \in {"Applying", "ToolPhase"}
        /\ reply = "idle" /\ pendingInteraction = NoRequest
    BY <1>1 DEF InStep, Stepping
  <1>3. TypeOK BY TypesSplit DEF EngineInv
  <1>4. UNCHANGED <<cur, cont, reply, unasked>> BY <1>1 DEF localVars, roundVars
  <1>5. CASE CanCompleteStep(cur)
    <2>1. CompleteStep(cur) /\ pc' = next /\ UNCHANGED <<after, refused, registryVars>>
      BY <1>1, <1>5 DEF Try
    <2>2. /\ steps' = [steps EXCEPT ![cur] = "Done"]
          /\ UNCHANGED <<intent, status, pendingInteraction, invoked, calls, events>>
      BY <2>1 DEF CompleteStep
    <2>3. steps'[cur] = "Done" /\ \A s \in StepId : s # cur => steps'[s] = steps[s]
      BY <1>2, <1>3, <2>2 DEF TypeOK
    <2>4. \A s \in StepId : steps'[s] \notin ActiveStep
      BY <2>3 DEF EngineInv, StepsOK, IsActive, ActiveStep
    <2>5. StepsOK' BY <1>4, <2>2, <2>3, <2>4 DEF EngineInv, StepsOK, IsActive
    <2>6. ~SomeActiveStep' BY <2>4 DEF SomeActiveStep, IsActive
    <2>7. InScope' <=> InScope BY <2>1 DEF InScope, registryVars
    <2>8. Place(pc)'
      <3>1. CASE status = "ExecutingTools"
        BY <1>2, <1>4, <2>1, <2>2, <2>6, <3>1 DEF Place, IdlePlaces, ModelPlaces,
           ToolPlaces,
           EndPlaces
      <3>2. CASE status # "ExecutingTools"
        <4>1. InScope /\ status = "DrainingInput" BY <1>1, <3>2 DEF InStep
        <4>2. Between' BY <1>2, <1>4, <2>2, <2>6, <4>1 DEF Between
        <4>3. QED
          BY <2>1, <2>7, <3>2, <4>1, <4>2 DEF Place, IdlePlaces, ModelPlaces, ToolPlaces,
             EndPlaces
      <3>3. QED BY <3>1, <3>2
    <2>9. LocalTypes' BY <1>1, <2>1, LocalTypesSame DEF EngineInv, EngineTypeOK
    <2>10. ContOK' BY <1>4, <2>2 DEF EngineInv, ContOK
    <2>11. QED BY <1>1, <1>4, <2>1, <2>2, <2>5, <2>8, <2>9, <2>10, Quiet
  <1>6. CASE ~CanCompleteStep(cur)
    <2>1. /\ pc' = "error" /\ refused' = TRUE
          /\ UNCHANGED <<runVars, after, registryVars>>
      BY <1>1, <1>6 DEF Try
    <2>2. cur \in invoked /\ IsActive(cur) /\ ~RejectsControlledWork /\ ~IsTerminal(status)
      BY <1>1, <1>2 DEF EngineInv, StepsOK, IsActive, ActiveStep, RejectsControlledWork,
         IsTerminal, TerminalStatus
    <2>3. ~IsComplete(cur) BY <1>6, <2>2 DEF CanCompleteStep
    <2>4. \A c \in CallId : steps[cur] = "Applying" => calls[cur][c] = "none"
      BY <1>2 DEF EngineInv, StepsOK
    <2>5. unasked # {}
      BY <1>1, <2>2, <2>3, <2>4 DEF IsComplete, RoundAsks, Settled, InStep, Stepping
    <2>6. RefusedOnlyInToolRound' BY <1>4, <2>5 DEF RefusedOnlyInToolRound
    <2>7. LocalTypes'
      BY <1>1, <2>1, TypesSplit DEF EngineInv, LocalTypes, localVars, roundVars
    <2>8. ContOK' BY <1>4, <2>1 DEF EngineInv, ContOK, runVars
    <2>9. QED BY <1>1, <1>4, <2>1, <2>2, <2>6, <2>7, <2>8, Refusal
  <1>7. QED BY <1>5, <1>6

(* The calls of a round. *)
LEMMA AddCallKeeps == ASSUME EngineInv, RunStep, AddCall PROVE EngineInv'
  <1> USE DEF Points, Carried, RefusedAt
  <1>1. PICK c \in CallId, d \in {"Allow", "SoftBlock", "Fail"} :
           /\ Try(CanAddToolCall(cur), AddToolCall(cur, c), "addCalls")
           /\ soft' = IF d = "Allow" THEN soft ELSE soft \cup {c}
           /\ fuseFail' = (fuseFail \/ d = "Fail")
    BY DEF AddCall
  <1>2. /\ pc = "addCalls" /\ InStep({"Applying", "ToolPhase"})
        /\ status = "AwaitingToolApproval"
        /\ \A x \in CallId : calls[cur][x] \in {"none", "Pending"}
    BY DEF AddCall, EngineInv, Place, ToolPlaces
  <1>3. /\ UNCHANGED <<cur, cont, reply>>
        /\ UNCHANGED <<retried, reflected, bypassed, asks, kind, current, unasked>>
    BY DEF AddCall
  <1>4. /\ cur \in StepId /\ steps[cur] \in {"Applying", "ToolPhase"} /\ TypeOK
        /\ cur \in invoked
    BY <1>2, TypesSplit DEF InStep, Stepping, EngineInv, StepsOK
  <1>5. CanAddToolCall(cur)
    BY <1>2, <1>4 DEF CanAddToolCall, RejectsControlledWork, TerminalStatus, IsActive,
       ActiveStep
  <1>6. AddToolCall(cur, c) /\ pc' = "addCalls" /\ UNCHANGED <<after, refused, registryVars>>
    BY <1>1, <1>5 DEF Try
  <1>7. /\ calls' = [calls EXCEPT ![cur][c] = "Pending"]
        /\ steps' = [steps EXCEPT ![cur] = "ToolPhase"]
        /\ UNCHANGED <<intent, status, pendingInteraction, invoked, events>>
    BY <1>6 DEF AddToolCall
  <1>8. /\ steps'[cur] = "ToolPhase" /\ \A s \in StepId : s # cur => steps'[s] = steps[s]
        /\ \A s \in StepId : s # cur => calls'[s] = calls[s]
        /\ \A x \in CallId : calls'[cur][x] = IF x = c THEN "Pending" ELSE calls[cur][x]
    BY <1>4, <1>7 DEF TypeOK
  <1>9. StepsOK'
    BY <1>3, <1>4, <1>7, <1>8 DEF EngineInv, StepsOK, IsActive, ActiveStep
  <1>10. InStep({"Applying", "ToolPhase"})'
    BY <1>2, <1>3, <1>6, <1>7, <1>8 DEF InStep, Stepping, InScope, registryVars
  <1>11. Place(pc)'
    BY <1>2, <1>3, <1>6, <1>7, <1>8, <1>10 DEF Place, IdlePlaces, ModelPlaces, ToolPlaces,
       EndPlaces
  <1>12. LocalTypes'
    <2>1. fuseFail' \in BOOLEAN BY <1>1
    <2>2. soft' \subseteq CallId /\ bypassed' \subseteq soft'
      BY <1>1, <1>3, TypesSplit DEF EngineInv, LocalTypes
    <2>3. QED
      BY <1>3, <1>6, <2>1, <2>2, TypesSplit DEF EngineInv, LocalTypes
  <1>13. ContOK' BY <1>3, <1>7 DEF EngineInv, ContOK
  <1>14. QED
    BY <1>2, <1>3, <1>6, <1>7, <1>9, <1>11, <1>12, <1>13, Quiet

LEMMA CallsAddedKeeps == ASSUME EngineInv, CallsAdded PROVE EngineInv'
  <1> USE DEF Points, Carried, RefusedAt
  <1>1. /\ pc = "addCalls" /\ InStep({"Applying", "ToolPhase"})
        /\ status = "AwaitingToolApproval"
        /\ \A x \in CallId : calls[cur][x] \in {"none", "Pending"}
    BY DEF CallsAdded, EngineInv, Place, ToolPlaces
  <1>2. Goto("ready") /\ UNCHANGED <<runVars, localVars, registryVars>>
    BY DEF CallsAdded
  <1>3. InStep({"ToolPhase"})
    BY <1>1 DEF CallsAdded, InStep, Stepping, EngineInv, StepsOK
  <1>4. InStep({"ToolPhase"})' /\ pc' = "ready" /\ UNCHANGED <<status, calls, cur>>
    BY <1>2, <1>3, Frozen DEF Goto
  <1>5. Place(pc)'
    BY <1>1, <1>4 DEF Place, IdlePlaces, ModelPlaces, ToolPlaces, EndPlaces
  <1>6. QED BY <1>1, <1>2, <1>5, GoKeeps

(* A call of the active step gets a new status. *)
LEMMA AdvanceEffect ==
  ASSUME TypeOK, StepsOK, cur \in StepId, steps[cur] = "ToolPhase", UNCHANGED cur,
         NEW c \in CallId, NEW to, AdvanceToolCall(cur, c, to)
  PROVE  /\ \A x \in CallId : calls'[cur][x] = IF x = c THEN to ELSE calls[cur][x]
         /\ UNCHANGED <<intent, status, pendingInteraction, steps, invoked, events>>
         /\ StepsOK'
  <1>1. /\ calls' = [calls EXCEPT ![cur][c] = to]
        /\ UNCHANGED <<intent, status, pendingInteraction, steps, invoked, events>>
    BY DEF AdvanceToolCall
  <1>2. /\ \A s \in StepId : s # cur => calls'[s] = calls[s]
        /\ \A x \in CallId : calls'[cur][x] = IF x = c THEN to ELSE calls[cur][x]
    BY <1>1 DEF TypeOK
  <1>3. StepsOK' BY <1>1, <1>2 DEF StepsOK, IsActive
  <1>4. QED BY <1>1, <1>2, <1>3

(* The Run accepts such a change in the two statuses of a tool round. *)
LEMMA AdvanceAccepted ==
  ASSUME cur \in StepId, steps[cur] = "ToolPhase", NEW c, NEW to,
         status \in {"AwaitingToolApproval", "ExecutingTools"}, CanTransitionTo(calls[cur][c], to)
  PROVE  CanAdvanceToolCall(cur, c, to)
  BY DEF CanAdvanceToolCall, RejectsControlledWork, TerminalStatus, IsActive, ActiveStep

LEMMA ReadyKeeps == ASSUME EngineInv, RunStep, ReadyCalls PROVE EngineInv'
  <1> USE DEF Points, Carried, RefusedAt
  <1> DEFINE S == {c \in CallId : calls[cur][c] = "Pending"}
             T == {"ToolPhase"}
  <1>1. /\ pc = "ready" /\ InStep(T) /\ status = "AwaitingToolApproval"
        /\ \A c \in CallId : calls[cur][c] \in {"none", "Pending", "Ready"}
    BY DEF ReadyCalls, EngineInv, Place, ToolPlaces
  <1>2. CASE S = {}
    <2>1. Move("ToolsApproved", "start") BY <1>2 DEF ReadyCalls, AdvanceCalls
    <2>2. Leads("ToolsApproved", "ExecutingTools") /\ "ExecutingTools" \in RunStatus
      BY <1>1 DEF Leads, IntentAllows, Matrix, RunStatus
    <2>3. UNCHANGED <<calls, cur>>
      BY <2>1, <2>2, TransitionEffect DEF Move, localVars
    <2>4. \A c \in CallId : calls[cur][c] \in {"none", "Ready"} BY <1>1, <1>2
    <2>5. ASSUME InStep(T)', status' = "ExecutingTools", pc' = "start" PROVE Place(pc)'
      BY <2>3, <2>4, <2>5 DEF Place, IdlePlaces, ModelPlaces, ToolPlaces, EndPlaces
    <2>6. QED BY <1>1, <2>1, <2>2, <2>5, StepMovesOn
  <1>3. CASE S # {}
    <2>1. PICK c \in S : Try(CanAdvanceToolCall(cur, c, "Ready"),
                             AdvanceToolCall(cur, c, "Ready"), pc)
      BY <1>3 DEF ReadyCalls, AdvanceCalls
    <2>2. UNCHANGED localVars BY <1>3 DEF ReadyCalls, AdvanceCalls
    <2>3. cur \in StepId /\ steps[cur] = "ToolPhase" /\ TypeOK /\ StepsOK
      BY <1>1, TypesSplit DEF InStep, Stepping, EngineInv
    <2>4. CanAdvanceToolCall(cur, c, "Ready")
      BY <1>1, <2>3, AdvanceAccepted DEF CanTransitionTo
    <2>5. /\ AdvanceToolCall(cur, c, "Ready") /\ pc' = "ready"
          /\ UNCHANGED <<after, refused, registryVars>>
      BY <1>1, <2>1, <2>4 DEF Try
    <2>6. UNCHANGED <<cur, cont, reply>> BY <2>2 DEF localVars
    <2>7. /\ \A x \in CallId : calls'[cur][x] = IF x = c THEN "Ready" ELSE calls[cur][x]
          /\ UNCHANGED <<intent, status, pendingInteraction, steps, invoked, events>>
          /\ StepsOK'
      BY <2>3, <2>5, <2>6, AdvanceEffect
    <2>8. InStep(T)' BY <1>1, <2>5, <2>6, <2>7, Still
    <2>9. Place(pc)'
      BY <1>1, <2>5, <2>6, <2>7, <2>8 DEF Place, IdlePlaces, ModelPlaces, ToolPlaces,
         EndPlaces
    <2>10. LocalTypes' BY <2>2, <2>5, LocalTypesSame DEF EngineInv, EngineTypeOK
    <2>11. ContOK' BY <2>6, <2>7 DEF EngineInv, ContOK
    <2>12. QED BY <1>1, <2>5, <2>6, <2>7, <2>9, <2>10, <2>11, Quiet
  <1>4. QED BY <1>2, <1>3

LEMMA StartCallsKeeps == ASSUME EngineInv, RunStep, StartCalls PROVE EngineInv'
  <1> USE DEF Points, Carried, RefusedAt
  <1> DEFINE S == {c \in CallId \ soft : calls[cur][c] = "Ready"}
             T == {"ToolPhase"}
  <1>1. /\ pc = "start" /\ InStep(T) /\ status = "ExecutingTools"
        /\ \A c \in CallId : /\ calls[cur][c] \in {"none", "Ready", "Running"}
                             /\ c \in soft => calls[cur][c] # "Running"
    BY DEF StartCalls, EngineInv, Place, ToolPlaces
  <1>2. CASE S = {}
    <2>1. Goto("tools") /\ UNCHANGED <<runVars, localVars, registryVars>>
      BY <1>2 DEF StartCalls, AdvanceCalls
    <2>2. InStep(T)' /\ pc' = "tools" /\ UNCHANGED <<status, calls, cur, soft>>
      BY <1>1, <2>1, Frozen DEF Goto
    <2>3. \A c \in CallId : calls[cur][c] = "none" \/ Held(c) BY <1>1, <1>2 DEF Held
    <2>4. \A c \in CallId : calls'[cur'][c] = "none" \/ Held(c)' BY <2>2, <2>3 DEF Held
    <2>5. Place(pc)'
      BY <1>1, <2>2, <2>4 DEF Place, IdlePlaces, ModelPlaces, ToolPlaces, EndPlaces
    <2>6. QED BY <1>1, <2>1, <2>5, GoKeeps
  <1>3. CASE S # {}
    <2>1. PICK c \in S : Try(CanAdvanceToolCall(cur, c, "Running"),
                             AdvanceToolCall(cur, c, "Running"), pc)
      BY <1>3 DEF StartCalls, AdvanceCalls
    <2>2. UNCHANGED localVars BY <1>3 DEF StartCalls, AdvanceCalls
    <2>3. cur \in StepId /\ steps[cur] = "ToolPhase" /\ TypeOK /\ StepsOK
      BY <1>1, TypesSplit DEF InStep, Stepping, EngineInv
    <2>4. CanAdvanceToolCall(cur, c, "Running")
      BY <1>1, <2>3, AdvanceAccepted DEF CanTransitionTo
    <2>5. /\ AdvanceToolCall(cur, c, "Running") /\ pc' = "start"
          /\ UNCHANGED <<after, refused, registryVars>>
      BY <1>1, <2>1, <2>4 DEF Try
    <2>6. UNCHANGED <<cur, cont, reply, soft>> BY <2>2 DEF localVars, roundVars
    <2>7. /\ \A x \in CallId : calls'[cur][x] = IF x = c THEN "Running" ELSE calls[cur][x]
          /\ UNCHANGED <<intent, status, pendingInteraction, steps, invoked, events>>
          /\ StepsOK'
      BY <2>3, <2>5, <2>6, AdvanceEffect
    <2>8. InStep(T)' BY <1>1, <2>5, <2>6, <2>7, Still
    <2>9. Place(pc)'
      BY <1>1, <2>5, <2>6, <2>7, <2>8 DEF Place, IdlePlaces, ModelPlaces, ToolPlaces,
         EndPlaces
    <2>10. LocalTypes' BY <2>2, <2>5, LocalTypesSame DEF EngineInv, EngineTypeOK
    <2>11. ContOK' BY <2>6, <2>7 DEF EngineInv, ContOK
    <2>12. QED BY <1>1, <2>5, <2>6, <2>7, <2>9, <2>10, <2>11, Quiet
  <1>4. QED BY <1>2, <1>3

LEMMA RunToolsKeeps == ASSUME EngineInv, RunStep, RunTools PROVE EngineInv'
  <1> USE DEF Points, Carried, RefusedAt
  <1> DEFINE T == {"ToolPhase"}
  <1>1. /\ pc = "tools" /\ InStep(T) /\ status = "ExecutingTools"
        /\ \A c \in CallId : calls[cur][c] = "none" \/ Held(c)
    BY DEF RunTools, EngineInv, Place, ToolPlaces
  <1>2. CASE HandleStepControl
    BY <1>1, <1>2, StepControlKeeps DEF IsTerminal, TerminalStatus
  <1>3. CASE FailRun BY <1>1, <1>3, FailRunKeeps
  <1>4. CASE /\ \E questions, approvals, lifted \in SUBSET {c \in CallId : calls[cur][c] # "none"} :
                   /\ questions \cap (soft \cup approvals) = {}
                   /\ lifted \subseteq soft \ approvals
                   /\ bypassed' = lifted
                   /\ asks' = IF questions # {} THEN questions ELSE approvals
                   /\ kind' = IF questions # {} THEN "CompleteToolCall"
                              ELSE "ContinueToolApproval"
                   /\ unasked' = IF questions # {} THEN approvals ELSE {}
             /\ Goto("toolsInterrupt")
             /\ UNCHANGED <<runVars, cur, cont, retried, reflected, soft, fuseFail,
                            current, reply, registryVars>>
    <2>1. /\ bypassed' \subseteq soft /\ asks' \subseteq CallId /\ unasked' \subseteq CallId
          /\ kind' \in Continuations
          /\ \A c \in asks' : c \notin unasked' /\ calls[cur][c] # "none"
      BY <1>4 DEF Continuations
    <2>2. pc' = "toolsInterrupt" /\ UNCHANGED <<after, refused>> BY <1>4 DEF Goto
    <2>3. UNCHANGED <<intent, status, pendingInteraction, steps, invoked, calls, events, stepVars>>
      BY <1>4 DEF runVars, stepVars
    <2>4. InStep(T)' BY <1>1, <1>4, <2>3, Still
    <2>5. \A c \in CallId : calls'[cur'][c] = "none" \/ Held(c)'
      BY <1>1, <1>4, <2>3 DEF Held
    <2>6. Place(pc)'
      BY <1>1, <1>4, <2>1, <2>2, <2>3, <2>4, <2>5 DEF Place, IdlePlaces, ModelPlaces,
         ToolPlaces, EndPlaces
    <2>7. LocalTypes' BY <1>4, <2>1, <2>2, TypesSplit DEF EngineInv, LocalTypes
    <2>8. ContOK' BY <1>4, <2>3 DEF EngineInv, ContOK
    <2>9. StepsOK' BY <1>4, <2>3, StepsSame DEF EngineInv
    <2>10. QED BY <1>1, <1>4, <2>2, <2>3, <2>6, <2>7, <2>8, <2>9, Quiet
  <1>5. QED BY <1>2, <1>3, <1>4 DEF RunTools

LEMMA ToolsInterruptKeeps == ASSUME EngineInv, RunStep, ToolsInterrupt PROVE EngineInv'
  <1> USE DEF Points, Carried, RefusedAt
  <1> DEFINE T == {"ToolPhase"}
  <1>1. /\ pc = "toolsInterrupt" /\ InStep(T) /\ status = "ExecutingTools"
        /\ \A c \in CallId : calls[cur][c] = "none" \/ Held(c)
        /\ \A c \in asks : c \notin unasked /\ calls[cur][c] # "none"
    BY DEF ToolsInterrupt, EngineInv, Place, ToolPlaces
  <1>2. CASE RootCancelled /\ Shutdown BY <1>1, <1>2, RootAsked, ShutdownKeeps
  <1>3. CASE FailRun BY <1>1, <1>3, FailRunKeeps
  <1>4. CASE /\ Goto("finishCalls") /\ cont' = (cont \/ asks = {})
             /\ UNCHANGED <<runVars, cur, retried, reflected, roundVars, reply, registryVars>>
    <2>1. pc' = "finishCalls" /\ UNCHANGED <<after, refused>> BY <1>4 DEF Goto
    <2>2. /\ UNCHANGED <<intent, status, pendingInteraction, steps, invoked, calls, events>>
          /\ UNCHANGED <<stepVars, soft, asks, unasked>>
      BY <1>4 DEF runVars, stepVars, roundVars
    <2>3. InStep(T)' BY <1>1, <1>4, <2>2, Still
    <2>4. \A c \in CallId : IF c \in asks' THEN Held(c)' ELSE Held(c)' \/ Settled(c)'
      BY <1>1, <1>4, <2>2 DEF Held, Settled
    <2>5. Place(pc)'
      BY <1>1, <2>1, <2>2, <2>3, <2>4 DEF Place, IdlePlaces, ModelPlaces, ToolPlaces,
         EndPlaces
    <2>6. LocalTypes'
      <3>1. cont' \in BOOLEAN BY <1>4
      <3>2. QED BY <1>4, <2>1, <3>1, TypesSplit DEF EngineInv, LocalTypes, roundVars
    <2>7. ContOK' BY <1>1, <2>2 DEF ContOK, InStep, Stepping
    <2>8. StepsOK' BY <1>4, <2>2, StepsSame DEF EngineInv
    <2>9. QED BY <1>1, <1>4, <2>1, <2>2, <2>5, <2>6, <2>7, <2>8, Quiet
  <1>5. QED BY <1>2, <1>3, <1>4 DEF ToolsInterrupt

(* The results of the round: the Run refuses one for a call that the guard  *)
(* blocked, that was never started and that is to succeed.                  *)
LEMMA FinishKeeps == ASSUME EngineInv, RunStep, FinishCalls PROVE EngineInv'
  <1> USE DEF Points, Carried, RefusedAt
  <1> DEFINE T == {"ToolPhase"}
  <1>1. /\ pc = "finishCalls" /\ InStep(T) /\ status = "ExecutingTools"
        /\ \A c \in CallId : IF c \in asks THEN Held(c) ELSE Held(c) \/ Settled(c)
    BY DEF FinishCalls, EngineInv, Place, ToolPlaces
  <1>2. cur \in StepId /\ steps[cur] = "ToolPhase" /\ TypeOK /\ StepsOK
    BY <1>1, TypesSplit DEF InStep, Stepping, EngineInv
  <1>3. CASE Unfinished = {}
    <2> DEFINE next == IF asks = {} THEN "completeStep" ELSE "ask"
    <2>1. Goto(next) /\ UNCHANGED <<runVars, localVars, registryVars>>
      BY <1>3 DEF FinishCalls
    <2>2. RoundAsks BY <1>1, <1>3 DEF RoundAsks, Unfinished, Settled
    <2>3. /\ RoundAsks' /\ InStep(T)' /\ pc' = next /\ UNCHANGED <<status, asks>>
      BY <1>1, <2>1, <2>2, Frozen DEF Goto
    <2>4. Place(pc)'
      BY <1>1, <2>3 DEF Place, IdlePlaces, ModelPlaces, ToolPlaces, EndPlaces, InStep
    <2>5. next \in Points \ {"done", "emit"} OBVIOUS
    <2> HIDE DEF next
    <2>6. QED BY <1>1, <2>1, <2>4, <2>5, GoKeeps
  <1>4. CASE Unfinished # {}
    <2>1. PICK c \in Unfinished :
             LET to == IF c \notin soft \/ c \in bypassed THEN "Success" ELSE "Cancelled"
             IN Try(CanAdvanceToolCall(cur, c, to), AdvanceToolCall(cur, c, to), pc)
      BY <1>4 DEF FinishCalls
    <2> DEFINE to == IF c \notin soft \/ c \in bypassed THEN "Success" ELSE "Cancelled"
    <2>2. Try(CanAdvanceToolCall(cur, c, to), AdvanceToolCall(cur, c, to), pc)
      BY <2>1
    <2>3. UNCHANGED localVars BY <1>4 DEF FinishCalls
    <2>4. UNCHANGED <<cur, cont, reply, soft, asks, unasked>> BY <2>3 DEF localVars,
       roundVars
    <2>5. c \in CallId /\ c \notin asks /\ Held(c)
      BY <1>1 DEF Unfinished, Settled
    <2>6. to \in FinishedCall BY DEF FinishedCall
    <2>7. CASE CanAdvanceToolCall(cur, c, to)
      <3> HIDE DEF to
      <3>1. /\ AdvanceToolCall(cur, c, to) /\ pc' = "finishCalls"
            /\ UNCHANGED <<after, refused, registryVars>>
        BY <1>1, <2>2, <2>7 DEF Try
      <3>2. /\ \A x \in CallId : calls'[cur][x] = IF x = c THEN to ELSE calls[cur][x]
            /\ UNCHANGED <<intent, status, pendingInteraction, steps, invoked, events>>
            /\ StepsOK'
        BY <1>2, <2>4, <2>5, <3>1, AdvanceEffect
      <3>3. InStep(T)' BY <1>1, <2>4, <3>1, <3>2, Still
      <3>4. \A x \in CallId : IF x \in asks' THEN Held(x)' ELSE Held(x)' \/ Settled(x)'
        BY <1>1, <2>4, <2>5, <2>6, <3>2 DEF Held, Settled
      <3>5. Place(pc)'
        BY <1>1, <3>1, <3>2, <3>3, <3>4 DEF Place, IdlePlaces, ModelPlaces, ToolPlaces,
           EndPlaces
      <3>6. LocalTypes' BY <2>3, <3>1, LocalTypesSame DEF EngineInv, EngineTypeOK
      <3>7. ContOK' BY <2>4, <3>2 DEF EngineInv, ContOK
      <3>8. QED BY <1>1, <2>4, <3>1, <3>2, <3>5, <3>6, <3>7, Quiet
    <2>8. CASE ~CanAdvanceToolCall(cur, c, to)
      <3>1. ~CanTransitionTo(calls[cur][c], to)
        BY <1>1, <1>2, <2>8, AdvanceAccepted
      <3>2. c \in soft /\ calls[cur][c] = "Ready"
        BY <2>5, <3>1 DEF Held, CanTransitionTo, FinishedCall
      <3> HIDE DEF to
      <3>3. /\ pc' = "error" /\ refused' = TRUE
            /\ UNCHANGED <<runVars, after, registryVars>>
        BY <2>2, <2>8 DEF Try
      <3>4. UNCHANGED <<calls, intent>> BY <3>3 DEF runVars
      <3>5. RefusedOnlyInToolRound' BY <2>4, <3>2, <3>4 DEF RefusedOnlyInToolRound
      <3>6. LocalTypes'
        BY <2>3, <3>3, TypesSplit DEF EngineInv, LocalTypes, localVars, roundVars
      <3>7. ContOK' BY <2>4, <3>4 DEF EngineInv, ContOK
      <3>8. ~IsTerminal(status) BY <1>1 DEF IsTerminal, TerminalStatus
      <3>9. QED BY <1>1, <2>4, <3>3, <3>5, <3>6, <3>7, <3>8, Refusal
    <2>9. QED BY <2>7, <2>8
  <1>5. QED BY <1>3, <1>4

LEMMA ToolsCompletedKeeps == ASSUME EngineInv, RunStep, ToolsCompleted PROVE EngineInv'
  <1> USE DEF Points, Carried, RefusedAt
  <1> DEFINE next == IF ~InScope THEN "control" ELSE IF fuseFail THEN "fail" ELSE "stepEnd"
  <1>1. /\ pc = "toolsCompleted" /\ status = "ExecutingTools" /\ ~SomeActiveStep
        /\ reply = "idle" /\ pendingInteraction = NoRequest
    BY DEF ToolsCompleted, EngineInv, Place, ToolPlaces
  <1>2. Leads("ToolsCompleted", "DrainingInput") /\ "DrainingInput" \in RunStatus
    BY <1>1 DEF Leads, IntentAllows, Matrix, RunStatus
  <1>3. /\ Try(Legal("ToolsCompleted"), Transition("ToolsCompleted"), next)
        /\ UNCHANGED localVars
    BY DEF ToolsCompleted, Move
  <1>4. UNCHANGED <<cur, reply>> BY <1>3 DEF localVars
  <1>5. next \in Points \ {"done", "emit"} OBVIOUS
  <1>6. /\ pc' = next /\ status' = "DrainingInput" /\ UNCHANGED pendingInteraction
        /\ InScope' <=> InScope
        /\ SomeActiveStep' <=> SomeActiveStep
    BY <1>2, <1>3, <1>4, TransitionEffect, TransitionStill
  <1>7. Between' BY <1>1, <1>4, <1>6 DEF Between
  <1>8. Place(pc)'
    BY <1>6, <1>7 DEF Place, IdlePlaces, ModelPlaces, ToolPlaces, EndPlaces, IsTerminal,
       TerminalStatus
  <1> HIDE DEF next
  <1>9. QED BY <1>1, <1>2, <1>3, <1>5, <1>8, MoveOnKeeps

(* The questions of the round. *)
LEMMA AskKeeps == ASSUME EngineInv, RunStep, Ask PROVE EngineInv'
  <1> USE DEF Points, Carried, RefusedAt
  <1> DEFINE next == IF ~InScope THEN "control" ELSE IF fuseFail THEN "fail" ELSE "stepEnd"
  <1>1. PICK c \in asks, q \in RequestId :
           /\ Try(CanBeginInteraction(kind), BeginInteraction(q, kind), next)
           /\ current' = c /\ asks' = asks \ {c}
    BY DEF Ask
  <1>2. pc = "ask" /\ Stepping({"ToolPhase"}) /\ status = "ExecutingTools" /\ RoundAsks
    BY DEF Ask, EngineInv, Place, ToolPlaces
  <1>3. /\ reply' = "open"
        /\ UNCHANGED <<cur, cont, retried, reflected, soft, bypassed, fuseFail, kind, unasked>>
    BY DEF Ask
  <1>4. CanBeginInteraction(kind)
    BY <1>2 DEF CanBeginInteraction, RejectsControlledWork, TerminalStatus, Stepping
  <1>5. BeginInteraction(q, kind) /\ pc' = next /\ UNCHANGED <<after, refused, registryVars>>
    BY <1>1, <1>4 DEF Try
  <1>6. /\ status' = "AwaitingUser" /\ pendingInteraction' # NoRequest
        /\ UNCHANGED <<intent, steps, invoked, calls, events, stepVars>>
    BY <1>5, NoRequestAssumption DEF BeginInteraction, SetStatusByCommand, stepVars
  <1>7. asks \subseteq CallId BY TypesSplit DEF EngineInv, LocalTypes
  <1>8. \A x \in CallId : (Held(x)' <=> Held(x)) /\ (Settled(x)' <=> Settled(x))
    BY <1>3, <1>6 DEF Held, Settled
  <1>9. RoundWaits'
    <2>1. c \in CallId /\ c \notin asks' /\ Held(c) BY <1>1, <1>2, <1>7 DEF RoundAsks
    <2>2. current' \in CallId \ asks' BY <1>1, <2>1
    <2>3. Held(current)'
      BY <1>1, <1>3, <1>6, <2>1 DEF Held
    <2>4. \A x \in CallId : x \in asks' => Held(x)'
      BY <1>1, <1>2, <1>8 DEF RoundAsks
    <2>5. \A x \in CallId : x \notin asks' \cup unasked' \cup {current'} => Settled(x)'
      BY <1>1, <1>2, <1>3, <1>8 DEF RoundAsks
    <2>6. QED BY <2>2, <2>3, <2>4, <2>5 DEF RoundWaits
  <1>10. Waiting'
    BY <1>2, <1>3, <1>6, <1>9 DEF Waiting, Suspended, Stepping
  <1>11. InScope' <=> InScope BY <1>5 DEF InScope, registryVars
  <1>12. Place(pc)'
    BY <1>5, <1>6, <1>10, <1>11 DEF Place, IdlePlaces, ModelPlaces, ToolPlaces, EndPlaces,
       Between, IsTerminal, TerminalStatus
  <1>13. LocalTypes'
    BY <1>1, <1>3, <1>5, <1>7, TypesSplit DEF EngineInv, LocalTypes
  <1>14. ContOK' BY <1>3, <1>6 DEF EngineInv, ContOK
  <1>15. StepsOK' BY <1>3, <1>6, StepsSame DEF EngineInv
  <1>16. QED
    BY <1>2, <1>3, <1>5, <1>6, <1>12, <1>13, <1>14, <1>15, Quiet

LEMMA TakeReplyKeeps == ASSUME EngineInv, RunStep, TakeReply PROVE EngineInv'
  <1> USE DEF Points, Carried, RefusedAt
  <1>1. pc = "await" /\ reply \in {"answered", "declined"} /\ ~InScope /\ Waiting
    BY TypesSplit DEF TakeReply, EngineInv, Place, ToolPlaces, LocalTypes
  <1>2. /\ SettleInteraction(pendingInteraction) /\ pc' = "resolve"
        /\ UNCHANGED <<after, refused, registryVars, localVars>>
    BY <1>1 DEF TakeReply, Try, Waiting, Suspended
  <1>3. /\ status' = "ExecutingTools" /\ pendingInteraction' = NoRequest
        /\ UNCHANGED <<intent, steps, invoked, calls, events, stepVars>>
    BY <1>1, <1>2 DEF SettleInteraction, CommandStatusAllowed, IsTerminal, TerminalStatus,
       Waiting, Suspended, stepVars
  <1>4. UNCHANGED <<cur, cont, reply, soft, asks, unasked, current>>
    BY <1>2 DEF localVars, roundVars
  <1>5. RoundWaits' BY <1>1, <1>3, <1>4 DEF Waiting, RoundWaits, Held, Settled
  <1>6. ~InScope' BY <1>1, <1>2 DEF InScope, registryVars
  <1>7. Place(pc)'
    BY <1>1, <1>2, <1>3, <1>4, <1>5, <1>6 DEF Place, IdlePlaces, ModelPlaces, ToolPlaces,
       EndPlaces, Waiting
  <1>8. LocalTypes' BY <1>2, LocalTypesSame DEF EngineInv, EngineTypeOK
  <1>9. ContOK' BY <1>3, <1>4 DEF EngineInv, ContOK
  <1>10. StepsOK' BY <1>3, <1>4, StepsSame DEF EngineInv
  <1>11. QED
    BY <1>1, <1>2, <1>3, <1>4, <1>7, <1>8, <1>9, <1>10, Quiet

LEMMA ResolveKeeps == ASSUME EngineInv, RunStep, Resolve PROVE EngineInv'
  <1> USE DEF Points, Carried, RefusedAt
  <1> DEFINE next == IF asks = {} THEN "completeStep" ELSE "ask"
  <1>1. PICK to \in FinishedCall :
           Try(CanAdvanceToolCall(cur, current, to), AdvanceToolCall(cur, current, to), next)
    BY DEF Resolve, FinishedCall
  <1>2. /\ pc = "resolve" /\ ~InScope /\ status = "ExecutingTools"
        /\ pendingInteraction = NoRequest /\ cur \in StepId /\ steps[cur] = "ToolPhase"
        /\ RoundWaits
    BY DEF Resolve, EngineInv, Place, ToolPlaces
  <1>3. /\ cont' = (cont \/ reply = "answered") /\ reply' = "idle" /\ current' = NoCall
        /\ UNCHANGED <<cur, retried, reflected, soft, bypassed, fuseFail, asks, kind, unasked>>
    BY DEF Resolve
  <1>4. intent \notin ManualIntents
    BY <1>2 DEF EngineInv, StatusInv, SinglePurposeNeverInvokesModel
  <1>5. TypeOK /\ StepsOK /\ current \in CallId /\ current \notin asks /\ Held(current)
    BY <1>2, TypesSplit DEF EngineInv, RoundWaits
  <1>6. UNCHANGED intent BY IntentFixed
  <1>7. ContOK' BY <1>4, <1>6 DEF ContOK
  <1>8. cont' \in BOOLEAN BY <1>3
  <1>9. CASE CanAdvanceToolCall(cur, current, to)
    <2>1. /\ AdvanceToolCall(cur, current, to) /\ pc' = next
          /\ UNCHANGED <<after, refused, registryVars>>
      BY <1>1, <1>9 DEF Try
    <2>2. /\ \A x \in CallId : calls'[cur][x] = IF x = current THEN to ELSE calls[cur][x]
          /\ UNCHANGED <<intent, status, pendingInteraction, steps, invoked, events>>
          /\ StepsOK'
      BY <1>2, <1>3, <1>5, <2>1, AdvanceEffect
    <2>3. RoundAsks'
      <3>1. \A x \in CallId : x \in asks' => Held(x)'
        BY <1>2, <1>3, <1>5, <2>2 DEF RoundWaits, Held
      <3>2. \A x \in CallId : x \notin asks' \cup unasked' => Settled(x)'
        BY <1>1, <1>2, <1>3, <1>5, <2>2 DEF RoundWaits, Settled
      <3>3. QED BY <3>1, <3>2 DEF RoundAsks
    <2>4. Stepping({"ToolPhase"})'
      BY <1>2, <1>3, <1>4, <2>2 DEF Stepping
    <2>5. Place(pc)'
      BY <1>2, <1>3, <2>1, <2>2, <2>3, <2>4 DEF Place, IdlePlaces, ModelPlaces, ToolPlaces,
         EndPlaces
    <2>6. LocalTypes' BY <1>3, <1>8, <2>1, TypesSplit DEF EngineInv, LocalTypes
    <2>7. QED BY <1>2, <1>3, <1>7, <2>1, <2>2, <2>5, <2>6, Quiet
  <1>10. CASE ~CanAdvanceToolCall(cur, current, to)
    <2>1. ~CanTransitionTo(calls[cur][current], to)
      BY <1>2, <1>10, AdvanceAccepted
    <2>2. current \in soft /\ calls[cur][current] = "Ready"
      BY <1>1, <1>5, <2>1 DEF Held, CanTransitionTo
    <2>3. /\ pc' = "error" /\ refused' = TRUE
          /\ UNCHANGED <<runVars, after, registryVars>>
      BY <1>1, <1>10 DEF Try
    <2>4. UNCHANGED calls BY <2>3 DEF runVars
    <2>5. RefusedOnlyInToolRound' BY <1>3, <2>2, <2>4 DEF RefusedOnlyInToolRound
    <2>6. LocalTypes' BY <1>3, <1>8, <2>3, TypesSplit DEF EngineInv, LocalTypes
    <2>7. ~IsTerminal(status) BY <1>2 DEF IsTerminal, TerminalStatus
    <2>8. QED BY <1>2, <1>3, <1>7, <2>3, <2>5, <2>6, <2>7, Refusal
  <1>11. QED BY <1>9, <1>10
-----------------------------------------------------------------------------
LEMMA InitHolds == ASSUME EngineInit PROVE EngineInv
  <1> USE DEF EngineInit
  <1>1. TypeOK /\ StatusInv BY InitInv DEF Inv
  <1>2. Registry!Fresh(intent) \in Registry!Entry
    BY <1>1, ControlsTyped DEF Registry!Fresh, Registry!Entry, TypeOK
  <1>3. Entry = Registry!Fresh(intent) BY DEF Entry
  <1>4. Registry!RegistryTypeOK BY <1>2 DEF Registry!RegistryTypeOK
  <1>5. LocalTypes BY DEF LocalTypes, Points, Continuations
  <1>6. StepsOK BY DEF Init, StepsOK, IsActive, ActiveStep
  <1>7. EntryOK BY <1>3, ControlsTyped DEF EntryOK, Registry!Fresh
  <1>8. Idle
    BY <1>3 DEF Idle, InScope, Entry, Registry!Fresh, SomeActiveStep, IsActive, ActiveStep,
       Init
  <1>9. Place(pc)
    BY <1>8 DEF Init, Place, IdlePlaces, ModelPlaces, ToolPlaces, EndPlaces
  <1>10. EventsOK /\ ContOK /\ RefusedOK /\ TerminatedOnlyOnRequest
    BY DEF Init, EventsOK, ContOK, RefusedOK, TerminatedOnlyOnRequest
  <1>11. QED
    BY <1>1, <1>4, <1>5, <1>6, <1>7, <1>9, <1>10, TypesSplit DEF EngineInv

LEMMA StutterKeeps == ASSUME EngineInv, UNCHANGED vars PROVE EngineInv'
  <1>1. UNCHANGED <<runVars, pc, after, localVars, refused, registryVars>>
    BY DEF vars, engineVars
  <1>2. UNCHANGED <<intent, status, stepVars, events, cur, cont, unasked, soft, calls>>
    BY <1>1 DEF runVars, stepVars, localVars, roundVars
  <1>3. LocalTypes' BY <1>1, LocalTypesSame DEF EngineInv, EngineTypeOK
  <1>4. EngineTypeOK' /\ StatusInv'
    BY <1>1, <1>3, RunKeeps, TypesSplit DEF RunStep, EngineInv, EngineTypeOK, LocalTypes,
       Registry!RegistryTypeOK, registryVars
  <1>5. EntryOK' BY <1>1, <1>2 DEF EngineInv, EntryOK, Entry, registryVars
  <1>6. EventsOK' /\ ContOK' BY <1>1, <1>2 DEF EngineInv, EventsOK, ContOK
  <1>7. RefusedOK' BY <1>1, <1>2 DEF EngineInv, RefusedOK, RefusedOnlyInToolRound
  <1>8. TerminatedOnlyOnRequest'
    BY <1>1, <1>2 DEF EngineInv, TerminatedOnlyOnRequest, registryVars, RootCancelled,
       Registry!RootCancelled, Registry!Terminating, Registry!Present
  <1>9. StepsOK' BY <1>2, StepsSame DEF EngineInv
  <1>10. InScope' <=> InScope BY <1>1 DEF InScope, registryVars
  <1>11. Place(pc)' BY <1>1, <1>10, PlaceSame DEF EngineInv
  <1>12. QED
    BY <1>4, <1>5, <1>6, <1>7, <1>8, <1>9, <1>11 DEF EngineInv

LEMMA NextKeeps == EngineInv /\ [EngineNext]_vars => EngineInv'
  <1> SUFFICES ASSUME EngineInv, [EngineNext]_vars PROVE EngineInv'
    OBVIOUS
  <1>1. CASE UNCHANGED vars BY <1>1, StutterKeeps
  <1>2. CASE EngineNext
    <2>1. RunStep BY <1>2, EngineRuns
    <2>2. CASE Start \/ ManualCompaction \/ ManualReflection
      BY <2>1, <2>2, StartKeeps, ManualCompactionKeeps, ManualReflectionKeeps
    <2>3. CASE \/ LoopTop \/ LoopInterrupt \/ InputCancelled \/ InputTimedOut
               \/ DrainReady \/ DrainContinuation \/ DrainSealed
               \/ ApplyDecision \/ AwaitInput \/ AwaitUser
      BY <2>1, <2>3, LoopKeeps, DrainKeeps, ApplyKeeps, AwaitKeeps
    <2>4. CASE \/ RegisterStep \/ BeginStep \/ CompactionCheck \/ Compact
               \/ PreCompactReflection \/ Compacted \/ PrepareInterrupt \/ Prepare
      BY <2>1, <2>4, RegisterKeeps, BeginKeeps, CompactionKeeps, PreparationKeeps
    <2>5. CASE \/ InvokeModel \/ ResponseInterrupt \/ RecordInvocation \/ ModelInvoked
               \/ RespondComplete \/ Reflect \/ StopHook \/ Continue \/ FailStep
      BY <2>1, <2>5, InvokeKeeps, ResponseKeeps, RecordKeeps, CompleteResponseKeeps,
         StopHookKeeps, FailStepKeeps
    <2>6. CASE \/ CompleteTheStep \/ StepEnd \/ RespondTools \/ AddCall \/ CallsAdded
               \/ ReadyCalls \/ StartCalls
      BY <2>1, <2>6, CompleteKeeps, StepEndKeeps, ResponseKeeps, AddCallKeeps,
         CallsAddedKeeps, ReadyKeeps, StartCallsKeeps
    <2>7. CASE \/ RunTools \/ ToolsInterrupt \/ FinishCalls \/ ToolsCompleted
               \/ Ask \/ TakeReply \/ Resolve
      BY <2>1, <2>7, RunToolsKeeps, ToolsInterruptKeeps, FinishKeeps, ToolsCompletedKeeps,
         AskKeeps, TakeReplyKeeps, ResolveKeeps
    <2>8. CASE FinishCancellation \/ FinishTheTermination \/ Emit \/ Error \/ Exit
      BY <2>1, <2>8, CancellationKeeps, TerminationKeeps, EmitKeeps, ErrorKeeps, ExitKeeps
    <2>9. CASE PortError \/ Client \/ Reply
      BY <2>9, PortErrorKeeps, ClientKeeps, ReplyKeeps
    <2>10. CASE Done BY <2>10, StutterKeeps DEF Done
    <2>11. QED
      BY <1>2, <2>2, <2>3, <2>4, <2>5, <2>6, <2>7, <2>8, <2>9, <2>10 DEF EngineNext,
         EngineStep
  <1>3. QED BY <1>1, <1>2

LEMMA EngineInvariance == EngineSpec => []EngineInv
  <1>1. EngineInit => EngineInv BY InitHolds
  <1>2. QED BY <1>1, NextKeeps, PTL DEF EngineSpec

(* The stop hook: only the step that asks it counts a block, ... *)
Uncounted == UNCHANGED stopHookBlockCount

LEMMA FailUncounted == ASSUME FailRun PROVE Uncounted
  BY DEF FailRun, Fail, Uncounted, runVars

LEMMA ShutdownUncounted == ASSUME NEW r, TerminateRun(r) PROVE Uncounted
  BY DEF TerminateRun, RequestTermination, Uncounted, runVars

LEMMA ControlUncounted == ASSUME NEW next, ControlledBy(next) PROVE Uncounted
  <1> DEFINE control == active[Main].control
  <1>1. CASE control.kind = "Terminate"
    BY <1>1, ShutdownUncounted DEF ControlledBy
  <1>2. CASE control.kind # "Terminate"
    <2>1. RequestStepCancellation(control.step) \/ UNCHANGED runVars
      BY <1>2 DEF ControlledBy
    <2>2. QED BY <2>1 DEF RequestStepCancellation, Uncounted, runVars
  <1>3. QED BY <1>1, <1>2

LEMMA StepControlUncounted == ASSUME HandleStepControl PROVE Uncounted
  BY ControlUncounted, ShutdownUncounted DEF HandleStepControl, Shutdown

LEMMA MoveUncounted ==
  ASSUME NEW accepts, NEW t, NEW next, Try(accepts, Transition(t), next)
  PROVE  Uncounted
  BY DEF Try, Transition, Uncounted, runVars

LEMMA CallUncounted ==
  ASSUME NEW accepts, NEW c, NEW to, NEW next, Try(accepts, AdvanceToolCall(cur, c, to), next)
  PROVE  Uncounted
  BY DEF Try, AdvanceToolCall, Uncounted, runVars

LEMMA EngineUncounted ==
  ASSUME EngineNext, ~StopHook
  PROVE  Uncounted
  <1>1. CASE Start \/ ManualCompaction \/ ManualReflection
    BY <1>1, MoveUncounted, FailUncounted, ShutdownUncounted
       DEF Start, ManualCompaction, ManualReflection, Move, Try, StartDraining,
       BeginManualCompaction, BeginManualReflection, Transition, Uncounted, runVars
  <1>2. CASE LoopTop \/ LoopInterrupt \/ InputCancelled \/ InputTimedOut
             \/ PrepareInterrupt \/ ResponseInterrupt \/ FailStep
    BY <1>2, ControlUncounted, ShutdownUncounted, FailUncounted
       DEF LoopTop, LoopInterrupt, InputCancelled, InputTimedOut, PrepareInterrupt,
       ResponseInterrupt, FailStep, InterruptOr, Shutdown, Uncounted, runVars
  <1>3. CASE DrainReady \/ DrainContinuation \/ DrainSealed \/ AwaitInput \/ AwaitUser
    BY <1>3 DEF DrainReady, DrainContinuation, DrainSealed, AwaitInput, AwaitUser, Drained,
       AdvanceDrainEpoch, Uncounted, runVars
  <1>4. CASE ApplyDecision
    BY <1>4 DEF ApplyDecision, ApplyDrainDecision, Uncounted, runVars
  <1>5. CASE RegisterStep \/ StepEnd \/ Error \/ Exit \/ Done \/ PortError \/ Client \/ Reply
             \/ CallsAdded
    BY <1>5 DEF RegisterStep, StepEnd, Error, Exit, Done, PortError, Client, Reply,
       CallsAdded, vars, Uncounted, runVars
  <1>6. CASE BeginStep \/ RecordInvocation \/ CompleteTheStep \/ AddCall
    BY <1>6, FailUncounted DEF BeginStep, RecordInvocation, CompleteTheStep, AddCall, Try,
       BeginStepWithId, RecordModelInvocation, CompleteStep, AddToolCall, Uncounted, runVars
  <1>7. CASE CompactionCheck \/ Compact \/ InvokeModel \/ RespondComplete
    BY <1>7, StepControlUncounted, MoveUncounted, FailUncounted
       DEF CompactionCheck, Compact, InvokeModel, RespondComplete, Move, Uncounted, runVars
  <1>8. CASE PreCompactReflection \/ Compacted \/ Prepare \/ ModelInvoked \/ Reflect
             \/ Continue \/ RespondTools \/ ToolsCompleted
    BY <1>8, MoveUncounted DEF PreCompactReflection, Compacted, Prepare, ModelInvoked, Reflect,
       Continue, RespondTools, ToolsCompleted, Move
  <1>9. CASE ReadyCalls \/ StartCalls
    BY <1>9, CallUncounted, MoveUncounted DEF ReadyCalls, StartCalls, AdvanceCalls, Move,
       Uncounted, runVars
  <1>10. CASE RunTools \/ ToolsInterrupt
    BY <1>10, StepControlUncounted, ShutdownUncounted, FailUncounted
       DEF RunTools, ToolsInterrupt, Shutdown, Uncounted, runVars
  <1>11. CASE FinishCalls \/ Resolve
    BY <1>11, CallUncounted DEF FinishCalls, Resolve, Uncounted, runVars
  <1>12. CASE Ask \/ TakeReply
    BY <1>12 DEF Ask, TakeReply, Try, BeginInteraction, SettleInteraction, Uncounted, runVars
  <1>13. CASE FinishCancellation \/ FinishTheTermination \/ Emit
    BY <1>13 DEF FinishCancellation, FinishTheTermination, Emit, Try, BeginStepFinalization,
       FinishStepCancellation, FinishTermination, DrainEvents, Uncounted, runVars
  <1>14. QED
    BY <1>1, <1>2, <1>3, <1>4, <1>5, <1>6, <1>7, <1>8, <1>9, <1>10, <1>11, <1>12, <1>13
       DEF EngineNext, EngineStep

(* ... and where the run is to fail, it fails before anything else. *)
LEMMA FailsNext ==
  ASSUME EngineNext, pc = "fail"
  PROVE  FailStep \/ pc' = "fail"
  BY DEF EngineNext, EngineStep, Start, ManualCompaction, ManualReflection, LoopTop,
     LoopInterrupt, InputCancelled, InputTimedOut, DrainReady, DrainContinuation, DrainSealed,
     Drained, ApplyDecision, Decision, AwaitInput, AwaitUser, RegisterStep, BeginStep,
     CompactionCheck, Compact, PreCompactReflection, Compacted, PrepareInterrupt, Prepare,
     InvokeModel, ResponseInterrupt, RecordInvocation, ModelInvoked, RespondComplete, Reflect,
     StopHook, Continue, CompleteTheStep, StepEnd, RespondTools, AddCall, CallsAdded,
     ReadyCalls, StartCalls, RunTools, ToolsInterrupt, FinishCalls, ToolsCompleted, Ask,
     TakeReply, Resolve, FinishCancellation, FinishTheTermination, Emit, Error, Exit,
     PortError, FalliblePoints, Client, Reply, Done, engineVars, vars

(* A failed run stays failed. *)
LEMMA TerminalFinal == ASSUME RunStep, status = "Failed" PROVE status' = "Failed"
  <1> USE DEF IsTerminal, TerminalStatus
  <1>1. \A t, to : ~Matrix(t, to) BY DEF Matrix
  <1>2. /\ \A t : ~Moves(t) /\ ~Legal(t)
        /\ \A to : ~CommandStatusAllowed(status, to) /\ ~SetStatusByCommand(to)
    BY <1>1 DEF Moves, Legal, CommandStatusAllowed, SetStatusByCommand
  <1>3. CASE UNCHANGED runVars BY <1>3 DEF runVars
  <1>4. CASE Next
    <2>1. ASSUME NEW s \in StepId, StepCommand(s) PROVE status' = status
      BY <1>2, <2>1 DEF StepCommand, BeginStepWithId, RecordModelInvocation, AddToolCall,
         AdvanceToolCall, CompleteStep, RequestStepCancellation, BeginStepFinalization,
         FinishStepCancellation
    <2>2. QED
      BY <1>2, <1>4, <2>1 DEF Next, StartDraining, BeginManualCompaction,
         BeginManualReflection, Transition, ApplyDrainDecision, AdvanceDrainEpoch,
         RecordStopHookBlock, BeginInteraction, CompleteInteraction, CancelInteraction,
         SettleInteraction, RequestTermination, FinishTermination, Fail, DrainEvents
  <1>5. QED BY <1>3, <1>4 DEF RunStep

LEMMA ExhaustedKeeps ==
  ASSUME EngineInv, ExhaustedFails, [EngineNext]_vars
  PROVE  ExhaustedFails'
  <1> USE DEF ExhaustedFails, RetryExhausted
  <1>1. CASE UNCHANGED vars
    BY <1>1 DEF vars, runVars, engineVars
  <1>2. CASE EngineNext /\ StopHook
    <2>1. pc = "stopHook" /\ status = "ApplyingResponse" /\ TypeOK
      BY <1>2, TypesSplit DEF StopHook, EngineInv, Place, ModelPlaces
    <2>2. stopHookBlockCount \in Nat /\ stopHookBlockCount <= MaxBlocks
      BY <2>1, BoundsAssumption DEF TypeOK
    <2>3. CASE Uncounted
      BY <2>2, <2>3, BoundsAssumption DEF Uncounted
    <2>4. CASE /\ RecordStopHookBlock
               /\ pc' = IF stopHookBlockCount' > MaxBlocks THEN "fail" ELSE "continue"
      BY <2>2, <2>4, BoundsAssumption DEF RecordStopHookBlock
    <2>5. QED
      BY <1>2, <2>3, <2>4, StepControlUncounted DEF StopHook, Goto, Uncounted, runVars
  <1>3. CASE EngineNext /\ ~StopHook
    <2>1. Uncounted /\ RunStep BY <1>3, EngineUncounted, EngineRuns
    <2>2. CASE status = "Failed"
      <3>1. status' = "Failed"
        BY <2>1, <2>2, TerminalFinal
      <3>2. QED BY <2>1, <2>2, <3>1 DEF Uncounted
    <2>3. CASE pc = "fail"
      <3>1. ~IsTerminal(status)
        BY <2>3 DEF EngineInv, Place, EndPlaces
      <3>2. FailStep => status' = "Failed"
        BY <3>1 DEF FailStep, FailRun, Fail, SetStatusByCommand
      <3>3. QED BY <1>3, <2>1, <2>3, <3>2, FailsNext DEF Uncounted
    <2>4. QED BY <2>1, <2>2, <2>3 DEF Uncounted
  <1>4. QED BY <1>1, <1>2, <1>3

(* Whatever the clients do between its steps: the engine is well typed; it  *)
(* drains input only between steps, waits only for a step that asks and      *)
(* registers a request only when none is open; a command of it is refused in *)
(* the two known kinds of tool round only; launch returns with a settled     *)
(* run; a run ends as Terminated only when that was asked for; and the first *)
(* stop hook block beyond the limit, never a later one, fails the run.       *)
THEOREM EngineCorrect ==
  EngineSpec => [](/\ EngineOK /\ RefusedOnlyInToolRound
                   /\ ExitIsSettled /\ TerminatedOnlyOnRequest)
  <1>1. ASSUME EngineInv PROVE DrainsOnlyWhenIdle
    BY <1>1 DEF EngineInv, Place, IdlePlaces, ToolPlaces, Stepping, Idle, Waiting,
       DrainsOnlyWhenIdle, IsActive, ActiveStep
  <1>2. ASSUME EngineInv PROVE ExitIsSettled
    BY <1>2 DEF EngineInv, Place, EndPlaces, EventsOK, ExitIsSettled
  <1>3. EngineInv => RefusedOnlyInToolRound
    BY DEF EngineInv, RefusedOK, RefusedOnlyInToolRound
  <1>4. EngineInv /\ ExhaustedFails => /\ EngineOK /\ RefusedOnlyInToolRound
                     /\ ExitIsSettled /\ TerminatedOnlyOnRequest
    BY <1>1, <1>2, <1>3 DEF EngineInv, EngineOK
  <1>5. EngineInit => ExhaustedFails
    BY BoundsAssumption DEF EngineInit, Init, ExhaustedFails, RetryExhausted
  <1>6. EngineInv /\ ExhaustedFails /\ [EngineNext]_vars => ExhaustedFails'
    BY ExhaustedKeeps
  <1>7. EngineSpec => []ExhaustedFails
    BY <1>5, <1>6, EngineInvariance, PTL DEF EngineSpec
  <1>8. QED BY <1>4, <1>7, EngineInvariance, PTL

(* The engine changes its Run by the commands of the aggregate only, one in  *)
(* a step: it implements AgentRun, and what is proved of the aggregate for   *)
(* every order of the commands holds of every run that is driven.            *)
THEOREM EngineImplementsRun == EngineSpec => ImplementsRun
  <1>1. EngineInit => Init BY DEF EngineInit
  <1>2. EngineInv /\ [EngineNext]_vars => [UNCHANGED runVars \/ Next]_runVars
    <2>1. UNCHANGED vars => UNCHANGED runVars BY DEF vars
    <2>2. QED BY <2>1, EngineRuns DEF RunStep
  <1>3. QED BY <1>1, <1>2, EngineInvariance, PTL DEF EngineSpec, ImplementsRun

(* What is proved of the aggregate carries over: a run driven by the engine *)
(* has one active step at most, its cancellations keep step and run together *)
(* and a terminal status is entered once, with one event.                    *)
THEOREM DrivenRunCorrect ==
  EngineSpec => [](AtMostOneActiveStep /\ CancellationPhases) /\ TerminalOnce
  <1>1. [UNCHANGED runVars \/ Next]_runVars => [Next]_runVars OBVIOUS
  <1>2. ImplementsRun => Spec BY <1>1, PTL DEF ImplementsRun, Spec
  <1>3. QED
    BY <1>2, EngineImplementsRun, OneActiveStep, CancellationPhasesHold, TerminalOnceHolds,
       PTL
=============================================================================
