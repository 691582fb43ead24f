------------------------- MODULE ActiveRunRegistry -------------------------
(***************************************************************************)
(* The registry of active runs (application/run/active_registry.rs): the   *)
(* map from run ids to the cancellation token, the step scope and the      *)
(* control command of each run, behind one mutex.  The clients (the UI's   *)
(* cancel and terminate requests) and the loop engine meet only here.      *)
(*                                                                         *)
(* Every method takes the lock for its whole body, so each is one action.  *)
(* A token is a Boolean; the token of a step is a child of the token of    *)
(* its run, so a step counts as cancelled when either of them is.          *)
(***************************************************************************)
EXTENDS Naturals

CONSTANTS
    RunId,          \* identities of runs
    StepId,         \* identities of run steps
    Intents,        \* intents a main run may be launched with
    Reasons,        \* termination reasons a client may give
    NoRun, NoStep   \* Option::None of the two kinds of identity

ASSUME RegistryAssumption ==
    NoRun \notin RunId /\ NoStep \notin StepId /\ "Conversation" \in Intents

VARIABLES
    active,         \* ActiveRunState.runs: [RunId -> entry], NoEntry when absent
    currentMain     \* ActiveRunState.current_main_run_id

registryVars == <<active, currentMain>>

NoControl == [kind |-> "none"]
CancelControl(s) == [kind |-> "CancelStep", step |-> s]
TerminateControl(r) == [kind |-> "Terminate", reason |-> r]
Control == {NoControl} \cup {CancelControl(s) : s \in StepId}
                       \cup {TerminateControl(r) : r \in Reasons}

NoEntry == [present |-> FALSE]
Entry == [present : {TRUE}, intent : Intents, cancelled : BOOLEAN,
          step : StepId \cup {NoStep}, stepCancelled : BOOLEAN,
          control : Control, delivered : BOOLEAN]

Fresh(i) == [present |-> TRUE, intent |-> i, cancelled |-> FALSE,
             step |-> NoStep, stepCancelled |-> FALSE,
             control |-> NoControl, delivered |-> FALSE]

Present(r) == active[r].present
RootCancelled(r) == Present(r) /\ active[r].cancelled
StepCancelled(r) == Present(r) /\ (active[r].cancelled \/ active[r].stepCancelled)
Terminating(r) == Present(r) /\ active[r].control.kind = "Terminate"

RegistryInit ==
    /\ active = [r \in RunId |-> NoEntry]
    /\ currentMain = NoRun
-----------------------------------------------------------------------------
(* Called by the launcher and the loop engine. *)
ActivateMain(r, i) ==
    /\ ~Present(r)
    /\ active' = [active EXCEPT ![r] = Fresh(i)]
    /\ currentMain' = r

ActivateChild(r) ==
    /\ ~Present(r)
    /\ active' = [active EXCEPT ![r] = Fresh("Conversation")]
    /\ UNCHANGED currentMain

(* Only the steps of the current main run are registered.  The engine      *)
(* registers a step when it begins (execute_step) and clears it before the *)
(* next one begins.                                                        *)
SetMainActiveStep(r, s) ==
    /\ Present(r) => active[r].step = NoStep
    /\ active' = IF r = currentMain /\ Present(r)
                 THEN [active EXCEPT ![r].step = s, ![r].stepCancelled = FALSE]
                 ELSE active
    /\ UNCHANGED currentMain

(* Mutant: the cancellation of the step outlives the step. *)
BuggyClearMainActiveStep(r, s) ==
    /\ active' = IF Present(r) /\ active[r].step = s
                 THEN [active EXCEPT ![r].step = NoStep, ![r].stepCancelled = FALSE]
                 ELSE active
    /\ UNCHANGED currentMain

(* The scope is cleared only for the step it belongs to, and takes with it *)
(* a cancellation of that step, delivered or not.                          *)
ClearMainActiveStep(r, s) ==
    /\ active' =
         IF Present(r) /\ active[r].step = s
         THEN [active EXCEPT
                 ![r].step = NoStep, ![r].stepCancelled = FALSE,
                 ![r].control = IF @ = CancelControl(s) THEN NoControl ELSE @,
                 ![r].delivered = @ /\ active[r].control # CancelControl(s)]
         ELSE active
    /\ UNCHANGED currentMain

HasControl(r) == /\ Present(r) /\ ~active[r].delivered
                 /\ active[r].control # NoControl

(* take_control when it returns a control: active[r].control. *)
TakeControl(r) ==
    /\ HasControl(r)
    /\ active' = [active EXCEPT ![r].delivered = TRUE]
    /\ UNCHANGED currentMain

Clear(r) ==
    /\ active' = [active EXCEPT ![r] = NoEntry]
    /\ currentMain' = IF currentMain = r THEN NoRun ELSE currentMain
-----------------------------------------------------------------------------
(* Called by clients.  Only the accepted requests change anything. *)
SetCancelControl(r) ==
    active' = [active EXCEPT ![r].stepCancelled = TRUE,
                             ![r].control = CancelControl(active[r].step),
                             ![r].delivered = FALSE]

(* cancel_current_main: the step of the current main run; a manual          *)
(* reflection has no step, its root token is cancelled and no control set.  *)
CancelCurrentMain ==
    /\ currentMain # NoRun /\ Present(currentMain)
    /\ active[currentMain].control = NoControl
    /\ \/ active[currentMain].step # NoStep /\ SetCancelControl(currentMain)
       \/ /\ active[currentMain].step = NoStep
          /\ active[currentMain].intent = "ManualReflection"
          /\ active' = [active EXCEPT ![currentMain].cancelled = TRUE]
    /\ UNCHANGED currentMain

(* cancel_step: the request may name the step or leave it open; an accepted *)
(* one concerns the registered step either way.                             *)
CancelStep(r) ==
    /\ Present(r) /\ active[r].control = NoControl /\ active[r].step # NoStep
    /\ SetCancelControl(r)
    /\ UNCHANGED currentMain

(* Mutant: a second termination replaces the first. *)
BuggyTerminate(r, reason) ==
    /\ Present(r)
    /\ active' = [active EXCEPT
                    ![r].cancelled = TRUE,
                    ![r].stepCancelled = (@ \/ active[r].step # NoStep),
                    ![r].control = TerminateControl(reason),
                    ![r].delivered = FALSE]
    /\ UNCHANGED currentMain

(* terminate: overrules a pending cancellation, never an earlier terminate. *)
Terminate(r, reason) ==
    /\ Present(r) /\ ~Terminating(r)
    /\ active' = [active EXCEPT
                    ![r].cancelled = TRUE,
                    ![r].stepCancelled = (@ \/ active[r].step # NoStep),
                    ![r].control = TerminateControl(reason),
                    ![r].delivered = FALSE]
    /\ UNCHANGED currentMain
-----------------------------------------------------------------------------
RegistryNext ==
    \/ \E r \in RunId, i \in Intents : ActivateMain(r, i)
    \/ \E r \in RunId : ActivateChild(r)
    \/ \E r \in RunId, s \in StepId : SetMainActiveStep(r, s)
    \/ \E r \in RunId, s \in StepId : ClearMainActiveStep(r, s)
    \/ \E r \in RunId : TakeControl(r)
    \/ \E r \in RunId : Clear(r)
    \/ CancelCurrentMain
    \/ \E r \in RunId : CancelStep(r)
    \/ \E r \in RunId, reason \in Reasons : Terminate(r, reason)

RegistrySpec == RegistryInit /\ [][RegistryNext]_registryVars
-----------------------------------------------------------------------------
(* Every entry of the map is a whole one, with a control of an existing     *)
(* step or reason.                                                          *)
RegistryTypeOK ==
    /\ active \in [RunId -> Entry \cup {NoEntry}]
    /\ currentMain \in RunId \cup {NoRun}

(* The current main run always has its entry: the branch of                 *)
(* cancel_current_main that reports registry_entry_missing is unreachable.  *)
CurrentMainRegistered == currentMain # NoRun => Present(currentMain)

(* An accepted termination is not undone or replaced while the run is       *)
(* registered: later cancellations, a second terminate and the end of the   *)
(* step leave its reason in place, and its token stays cancelled.           *)
TerminateSticks ==
    [][\A r \in RunId :
         Terminating(r) /\ active'[r].present =>
             /\ active'[r].control = active[r].control
             /\ active'[r].cancelled]_registryVars

(* One control is handed to the engine once: what was delivered becomes     *)
(* deliverable again only when another control replaces it, so no request   *)
(* is acted on twice.                                                       *)
ControlDeliveredOnce ==
    [][\A r \in RunId :
         Present(r) /\ active[r].delivered /\ active'[r].present
             /\ active'[r].control = active[r].control
         => active'[r].delivered]_registryVars

(* A recorded control always matches what the engine is waiting on: a       *)
(* termination has cancelled the token of the run, and a cancellation names *)
(* the step that is registered now, whose token is cancelled; it never      *)
(* outlives its step to hit the next one.                                   *)
ControlMatchesScope ==
    \A r \in RunId :
        /\ Terminating(r) => active[r].cancelled
        /\ Present(r) /\ active[r].control.kind = "CancelStep" =>
              /\ active[r].step = active[r].control.step
              /\ active[r].stepCancelled

(* The state of the registry is sound at every unlock of its mutex: well    *)
(* typed, its current main run registered, every control matching the scope *)
(* it was set for.                                                          *)
RegistryOK == RegistryTypeOK /\ CurrentMainRegistered /\ ControlMatchesScope

=============================================================================
