-------------------------- MODULE AgentRunProofs --------------------------
(***************************************************************************)
(* Proofs about the Run aggregate, for every set of steps, tool calls and  *)
(* interaction requests and every stop-hook limit.  Each invariant has a   *)
(* lemma that a step of Next preserves it; the theorems combine them.      *)
(***************************************************************************)
EXTENDS AgentRun, TLAPS

(* Type correctness of every command of the aggregate, the ones that change *)
(* part of the state before they are refused included.                      *)
LEMMA TypeStep == TypeOK /\ [Next]_runVars => TypeOK'
<1> SUFFICES ASSUME TypeOK, [Next]_runVars PROVE TypeOK'
  OBVIOUS
<1> USE BoundsAssumption, NoRequestAssumption DEF TypeOK, Intents, Reasons, RunStatus, TerminalStatus,
    ActiveStep, InactiveStep, CallStatus, FinishedCall
<1>1. CASE StartDraining
  BY <1>1 DEF StartDraining, Transition, Moves, stepVars
<1>2. CASE BeginManualCompaction
  BY <1>2 DEF BeginManualCompaction, Transition, Moves, stepVars
<1>3. CASE BeginManualReflection
  BY <1>3 DEF BeginManualReflection, Transition, Moves, stepVars
<1>4. CASE \E t \in DirectTransitions : Transition(t)
  BY <1>4 DEF Transition, Moves, Matrix, IntentAllows, stepVars
<1>5. CASE \E d \in RunTransition : ApplyDrainDecision(d)
  BY <1>5 DEF ApplyDrainDecision, Moves, CompletedEvent, stepVars
<1>6. CASE AdvanceDrainEpoch
  <2>1. NextEpoch(nextDrainEpoch) \in 0 .. (EpochModulus - 1)
    BY BoundsAssumption DEF NextEpoch
  <2>2. QED
    BY <1>6, <2>1 DEF AdvanceDrainEpoch, stepVars
<1>7. CASE RecordStopHookBlock
  BY <1>7 DEF RecordStopHookBlock, stepVars
<1>8. CASE \E s \in StepId : StepCommand(s)
  <2>1. PICK s \in StepId : StepCommand(s)
    BY <1>8
  <2>2. CASE BeginStepWithId(s)
    BY <2>2 DEF BeginStepWithId
  <2>3. CASE RecordModelInvocation(s)
    BY <2>3 DEF RecordModelInvocation
  <2>4. CASE \E c \in CallId : AddToolCall(s, c)
    BY <2>4 DEF AddToolCall
  <2>5. CASE \E c \in CallId, to \in CallStatus : AdvanceToolCall(s, c, to)
    BY <2>5 DEF AdvanceToolCall
  <2>6. CASE CompleteStep(s)
    BY <2>6 DEF CompleteStep
  <2>7. CASE RequestStepCancellation(s)
    BY <2>7 DEF RequestStepCancellation, SetStatusByCommand
  <2>8. CASE BeginStepFinalization(s)
    BY <2>8 DEF BeginStepFinalization
  <2>9. CASE \E final \in InactiveStep : FinishStepCancellation(s, final)
    BY <2>9 DEF FinishStepCancellation
  <2>10. QED
    BY <2>1, <2>2, <2>3, <2>4, <2>5, <2>6, <2>7, <2>8, <2>9 DEF StepCommand
<1>9. CASE \E q \in RequestId, k \in Continuations : BeginInteraction(q, k)
  BY <1>9 DEF BeginInteraction, SetStatusByCommand, stepVars
<1>10. CASE \E q \in RequestId : CompleteInteraction(q) \/ CancelInteraction(q)
  BY <1>10 DEF CompleteInteraction, CancelInteraction, SettleInteraction, stepVars
<1>11. CASE \E r \in Reasons : RequestTermination(r)
  BY <1>11 DEF RequestTermination, SetStatusByCommand, stepVars
<1>12. CASE FinishTermination
  BY <1>12 DEF FinishTermination, Moves, CloseActiveSteps
<1>13. CASE Fail
  BY <1>13 DEF Fail, SetStatusByCommand, CloseActiveSteps
<1>14. CASE DrainEvents
  BY <1>14 DEF DrainEvents, stepVars
<1>15. CASE UNCHANGED runVars
  BY <1>15 DEF runVars
<1>16. QED
  BY <1>1, <1>2, <1>3, <1>4, <1>5, <1>6, <1>7, <1>8, <1>9, <1>10, <1>11,
     <1>12, <1>13, <1>14, <1>15 DEF Next

-----------------------------------------------------------------------------
(* The strengthening that makes the invariants inductive together: a manual *)
(* run never has a model response to return to, and no terminal event is    *)
(* queued before the run is terminal.                                       *)
ReturnAllowed == intent \in ManualIntents => reflectionReturn # "ApplyingResponse"
NoEarlyEvents == ~IsTerminal(status) => events = <<>>

StatusInv == SinglePurposeNeverInvokesModel /\ ReflectionHasReturn /\ ReturnAllowed
             /\ NoEarlyEvents
StepInv == AtMostOneActiveStep /\ CancellationPhases /\ UserCancelMeansCancelledStep
           /\ AbortClosesSteps

Inv == TypeOK /\ StatusInv /\ StepInv

(* The invariants about the status alone: commands on steps do not touch    *)
(* what they speak of, the matrix and the command gate must respect them.   *)
LEMMA StatusStep == TypeOK /\ StatusInv /\ [Next]_runVars => StatusInv'
<1> SUFFICES ASSUME TypeOK, StatusInv, [Next]_runVars PROVE StatusInv'
  OBVIOUS
<1> USE DEF StatusInv, SinglePurposeNeverInvokesModel, ReflectionHasReturn,
    ReturnAllowed, NoEarlyEvents, ManualIntents, IsTerminal, TerminalStatus
<1>1. ASSUME NEW t, Moves(t), t # "DrainEmptyAndSealed", t # "TerminationFinished",
             UNCHANGED <<intent, events>>
      PROVE  StatusInv'
  BY <1>1 DEF Moves, Matrix, IntentAllows, AllowsAutoReflection, TypeOK
<1>2. CASE StartDraining \/ BeginManualCompaction \/ BeginManualReflection
           \/ \E t \in DirectTransitions : Transition(t)
  BY <1>1, <1>2 DEF StartDraining, BeginManualCompaction, BeginManualReflection,
     DirectTransitions, Transition
<1>3. CASE \E d \in RunTransition : ApplyDrainDecision(d)
  <2>1. PICK d \in RunTransition : ApplyDrainDecision(d)
    BY <1>3
  <2>2. CASE d = "DrainEmptyAndSealed"
    BY <2>1, <2>2 DEF ApplyDrainDecision, Moves, Matrix, TypeOK
  <2>3. CASE d # "DrainEmptyAndSealed"
    BY <1>1, <2>1, <2>3 DEF ApplyDrainDecision
  <2>4. QED
    BY <2>2, <2>3
<1>4. CASE AdvanceDrainEpoch \/ RecordStopHookBlock
  BY <1>4 DEF AdvanceDrainEpoch, RecordStopHookBlock
<1>5. CASE \E s \in StepId : StepCommand(s)
  <2>1. PICK s \in StepId : StepCommand(s)
    BY <1>5
  <2>2. CASE BeginStepWithId(s) \/ RecordModelInvocation(s) \/ CompleteStep(s)
             \/ (\E c \in CallId : AddToolCall(s, c))
             \/ (\E c \in CallId, to \in CallStatus : AdvanceToolCall(s, c, to))
    BY <2>2 DEF BeginStepWithId, RecordModelInvocation, CompleteStep, AddToolCall,
       AdvanceToolCall
  <2>3. CASE RequestStepCancellation(s)
    BY <2>3 DEF RequestStepCancellation, CanRequestStepCancellation,
       SetStatusByCommand, TypeOK
  <2>4. CASE BeginStepFinalization(s)
    BY <2>4 DEF BeginStepFinalization, CommandStatusAllowed
  <2>5. CASE \E final \in InactiveStep : FinishStepCancellation(s, final)
    BY <2>5 DEF FinishStepCancellation, Legal, Matrix
  <2>6. QED
    BY <2>1, <2>2, <2>3, <2>4, <2>5 DEF StepCommand
<1>6. CASE \E q \in RequestId, k \in Continuations : BeginInteraction(q, k)
  BY <1>6 DEF BeginInteraction, CanBeginInteraction, SetStatusByCommand
<1>7. CASE \E q \in RequestId : CompleteInteraction(q) \/ CancelInteraction(q)
  BY <1>7 DEF CompleteInteraction, CancelInteraction, SettleInteraction,
     CommandStatusAllowed
<1>8. CASE \E r \in Reasons : RequestTermination(r)
  BY <1>8 DEF RequestTermination, CanRequestTermination, SetStatusByCommand
<1>9. CASE FinishTermination
  BY <1>9 DEF FinishTermination, Moves, Matrix
<1>10. CASE Fail
  BY <1>10 DEF Fail, SetStatusByCommand, CommandStatusAllowed
<1>11. CASE DrainEvents
  BY <1>11 DEF DrainEvents
<1>12. CASE UNCHANGED runVars
  BY <1>12 DEF runVars
<1>13. QED
  BY <1>2, <1>3, <1>4, <1>5, <1>6, <1>7, <1>8, <1>9, <1>10, <1>11, <1>12 DEF Next

-----------------------------------------------------------------------------
(* The invariants that tie the run to its steps. *)
LEMMA StepStep == TypeOK /\ StepInv /\ [Next]_runVars => StepInv'
<1> SUFFICES ASSUME TypeOK, StepInv, [Next]_runVars PROVE StepInv'
  OBVIOUS
<1> USE DEF StepInv, AtMostOneActiveStep, CancellationPhases, AbortClosesSteps,
    UserCancelMeansCancelledStep, SomeActiveStep, IsActive, ActiveStep
<1>1. ASSUME NEW t, Moves(t), t # "StepCancelled", t # "TerminationFinished",
             UNCHANGED <<steps, userCancelledStep>>
      PROVE  StepInv'
  <2>1. status \notin {"CancellingStep", "FinalizingStep", "Terminating",
                       "Completed", "Failed", "Terminated"}
    BY <1>1 DEF Moves, Matrix
  <2>2. status' \notin {"CancellingStep", "FinalizingStep", "Terminating",
                        "Failed", "Terminated"}
    BY <1>1 DEF Moves, Matrix, TypeOK
  <2>3. QED
    BY <1>1, <2>1, <2>2
<1>2. CASE StartDraining \/ BeginManualCompaction \/ BeginManualReflection
           \/ \E t \in DirectTransitions : Transition(t)
  BY <1>1, <1>2 DEF StartDraining, BeginManualCompaction, BeginManualReflection,
     DirectTransitions, Transition, stepVars
<1>3. CASE \E d \in RunTransition : ApplyDrainDecision(d)
  BY <1>1, <1>3 DEF ApplyDrainDecision, stepVars
<1>4. CASE AdvanceDrainEpoch \/ RecordStopHookBlock \/ DrainEvents
  BY <1>4 DEF AdvanceDrainEpoch, RecordStopHookBlock, DrainEvents, stepVars
<1>5. CASE \E s \in StepId : StepCommand(s)
  <2>1. PICK s \in StepId : StepCommand(s)
    BY <1>5
  <2>2. CASE BeginStepWithId(s)
    BY <2>2 DEF BeginStepWithId, CanBeginStep, TypeOK
  <2>3. CASE RecordModelInvocation(s)
    BY <2>3 DEF RecordModelInvocation, CanRecordInvocation, RejectsControlledWork,
       TerminalStatus, TypeOK
  <2>4. CASE \E c \in CallId : AddToolCall(s, c)
    BY <2>4 DEF AddToolCall, CanAddToolCall, RejectsControlledWork, TerminalStatus, TypeOK
  <2>5. CASE \E c \in CallId, to \in CallStatus : AdvanceToolCall(s, c, to)
    BY <2>5 DEF AdvanceToolCall
  <2>6. CASE CompleteStep(s)
    BY <2>6 DEF CompleteStep, CanCompleteStep, RejectsControlledWork, TerminalStatus, TypeOK
  <2>7. CASE RequestStepCancellation(s)
    BY <2>7 DEF RequestStepCancellation, CanRequestStepCancellation,
       SetStatusByCommand, IsTerminal, TerminalStatus, TypeOK
  <2>8. CASE BeginStepFinalization(s)
    BY <2>8 DEF BeginStepFinalization, CommandStatusAllowed, IsTerminal, TerminalStatus,
       TypeOK
  <2>9. CASE \E final \in InactiveStep : FinishStepCancellation(s, final)
    <3>1. Legal("StepCancelled") <=> status = "FinalizingStep"
      BY DEF Legal, Matrix, IntentAllows, RunStatus
    <3>2. QED
      BY <2>9, <3>1 DEF FinishStepCancellation, TypeOK
  <2>10. QED
    BY <2>1, <2>2, <2>3, <2>4, <2>5, <2>6, <2>7, <2>8, <2>9 DEF StepCommand
<1>6. CASE \E q \in RequestId, k \in Continuations : BeginInteraction(q, k)
  BY <1>6 DEF BeginInteraction, CanBeginInteraction, SetStatusByCommand, stepVars
<1>7. CASE \E q \in RequestId : CompleteInteraction(q) \/ CancelInteraction(q)
  BY <1>7 DEF CompleteInteraction, CancelInteraction, SettleInteraction,
     CommandStatusAllowed, stepVars
<1>8. CASE \E r \in Reasons : RequestTermination(r)
  BY <1>8 DEF RequestTermination, CanRequestTermination, SetStatusByCommand,
     IsTerminal, TerminalStatus, stepVars
<1>9. CASE FinishTermination
  BY <1>9 DEF FinishTermination, Moves, Matrix, CloseActiveSteps, TypeOK
<1>10. CASE Fail
  BY <1>10 DEF Fail, SetStatusByCommand, CloseActiveSteps, TypeOK
<1>11. CASE UNCHANGED runVars
  BY <1>11 DEF runVars
<1>12. QED
  BY <1>2, <1>3, <1>4, <1>5, <1>6, <1>7, <1>8, <1>9, <1>10, <1>11 DEF Next

(* A run that was just created satisfies all of them, *)
LEMMA InitInv == Init => Inv
<1> SUFFICES ASSUME Init PROVE Inv
  OBVIOUS
<1>1. TypeOK
  <2>1. stopHookBlockCount \in 0 .. MaxCount /\ nextDrainEpoch \in 0 .. (EpochModulus - 1)
    BY BoundsAssumption DEF Init
  <2>2. /\ steps \in [StepId -> ActiveStep \cup InactiveStep \cup {"none"}]
        /\ calls \in [StepId -> [CallId -> CallStatus \cup {"none"}]]
    BY DEF Init
  <2>3. events \in Seq({"Completed", "CompletedUserCancelled", "Failed", "Terminated"})
    BY DEF Init
  <2>4. QED
    BY <2>1, <2>2, <2>3 DEF Init, TypeOK, RunStatus
<1>2. StatusInv
  BY DEF Init, StatusInv, SinglePurposeNeverInvokesModel, ReflectionHasReturn,
     ReturnAllowed, NoEarlyEvents
<1>3. StepInv
  BY DEF Init, StepInv, AtMostOneActiveStep, CancellationPhases, AbortClosesSteps,
     UserCancelMeansCancelledStep, SomeActiveStep, IsActive, ActiveStep
<1>4. QED
  BY <1>1, <1>2, <1>3 DEF Inv

(* ... and every command keeps them. *)
LEMMA InvStep == Inv /\ [Next]_runVars => Inv'
BY TypeStep, StatusStep, StepStep DEF Inv

(* The inductive invariant holds in every state of every run. *)
THEOREM Invariance == Spec => []Inv
<1>1. Init => Inv
  BY InitInv
<1>2. Inv /\ [Next]_runVars => Inv'
  BY InvStep
<1>3. QED
  BY <1>1, <1>2, PTL DEF Spec

(* Every variable keeps its type, whatever commands the run receives. *)
THEOREM TypeCorrect == Spec => []TypeOK
<1>1. Inv => TypeOK
  BY DEF Inv
<1>2. QED
  BY <1>1, Invariance, PTL

(* Run::active_step_id is unambiguous: there is never a second active step. *)
THEOREM OneActiveStep == Spec => []AtMostOneActiveStep
<1>1. Inv => AtMostOneActiveStep
  BY DEF Inv, StepInv
<1>2. QED
  BY <1>1, Invariance, PTL

(* The run and the step being cancelled agree on the phase of the           *)
(* cancellation, terminations in between included.                          *)
THEOREM CancellationPhasesHold == Spec => []CancellationPhases
<1>1. Inv => CancellationPhases
  BY DEF Inv, StepInv
<1>2. QED
  BY <1>1, Invariance, PTL

(* Manual compaction and reflection runs never reach the model. *)
THEOREM SinglePurpose == Spec => []SinglePurposeNeverInvokesModel
<1>1. Inv => SinglePurposeNeverInvokesModel
  BY DEF Inv, StatusInv
<1>2. QED
  BY <1>1, Invariance, PTL

(* A reflecting run always knows the status it returns to. *)
THEOREM ReflectionReturns == Spec => []ReflectionHasReturn
<1>1. Inv => ReflectionHasReturn
  BY DEF Inv, StatusInv
<1>2. QED
  BY <1>1, Invariance, PTL

(* Failed and terminated runs have closed their steps, and the user-cancel  *)
(* flag tells the truth about the steps.                                    *)
THEOREM StepsSettled == Spec => [](AbortClosesSteps /\ UserCancelMeansCancelledStep)
<1>1. Inv => AbortClosesSteps /\ UserCancelMeansCancelledStep
  BY DEF Inv, StepInv
<1>2. QED
  BY <1>1, Invariance, PTL

-----------------------------------------------------------------------------
(* A terminal status is final and is announced by exactly one event, which  *)
(* is queued by the step that enters it: DrainEmptyAndSealed, the end of a  *)
(* termination or a failure, and no other.                                  *)
THEOREM TerminalOnceHolds == Spec => TerminalOnce
<1> DEFINE A == /\ IsTerminal(status) => status' = status /\ Len(events') <= Len(events)
                /\ ~IsTerminal(status) /\ IsTerminal(status') =>
                       events = <<>> /\ Len(events') = 1
                /\ ~IsTerminal(status) /\ ~IsTerminal(status') => events' = events
<1>1. ASSUME Inv, Next PROVE A
  <2> USE <1>1 DEF Inv, TypeOK, StatusInv, NoEarlyEvents, IsTerminal, TerminalStatus
  <2>1. ASSUME NEW t, Moves(t), t # "DrainEmptyAndSealed", t # "TerminationFinished",
               UNCHANGED events
        PROVE  A
    BY <2>1 DEF Moves, Matrix
  <2>2. CASE StartDraining \/ BeginManualCompaction \/ BeginManualReflection
             \/ \E t \in DirectTransitions : Transition(t)
    BY <2>1, <2>2 DEF StartDraining, BeginManualCompaction, BeginManualReflection,
       DirectTransitions, Transition
  <2>3. CASE \E d \in RunTransition : ApplyDrainDecision(d)
    <3>1. PICK d \in RunTransition : ApplyDrainDecision(d)
      BY <2>3
    <3>2. CASE d = "DrainEmptyAndSealed"
      BY <3>1, <3>2 DEF ApplyDrainDecision, Moves, Matrix, CompletedEvent
    <3>3. CASE d # "DrainEmptyAndSealed"
      BY <2>1, <3>1, <3>3 DEF ApplyDrainDecision
    <3>4. QED
      BY <3>2, <3>3
  <2>4. CASE AdvanceDrainEpoch \/ RecordStopHookBlock
    BY <2>4 DEF AdvanceDrainEpoch, RecordStopHookBlock
  <2>5. CASE \E s \in StepId : StepCommand(s)
    <3>1. PICK s \in StepId : StepCommand(s)
      BY <2>5
    <3>2. CASE BeginStepWithId(s) \/ RecordModelInvocation(s) \/ CompleteStep(s)
               \/ (\E c \in CallId : AddToolCall(s, c))
               \/ (\E c \in CallId, to \in CallStatus : AdvanceToolCall(s, c, to))
      BY <3>2 DEF BeginStepWithId, RecordModelInvocation, CompleteStep, AddToolCall,
         AdvanceToolCall
    <3>3. CASE RequestStepCancellation(s)
      BY <3>3 DEF RequestStepCancellation, CanRequestStepCancellation, SetStatusByCommand
    <3>4. CASE BeginStepFinalization(s)
      BY <3>4 DEF BeginStepFinalization, CommandStatusAllowed
    <3>5. CASE \E final \in InactiveStep : FinishStepCancellation(s, final)
      BY <3>5 DEF FinishStepCancellation, Legal, Matrix
    <3>6. QED
      BY <3>1, <3>2, <3>3, <3>4, <3>5 DEF StepCommand
  <2>6. CASE \E q \in RequestId, k \in Continuations : BeginInteraction(q, k)
    BY <2>6 DEF BeginInteraction, SetStatusByCommand, CommandStatusAllowed
  <2>7. CASE \E q \in RequestId : CompleteInteraction(q) \/ CancelInteraction(q)
    BY <2>7 DEF CompleteInteraction, CancelInteraction, SettleInteraction,
       CommandStatusAllowed
  <2>8. CASE \E r \in Reasons : RequestTermination(r)
    BY <2>8 DEF RequestTermination, CanRequestTermination, SetStatusByCommand
  <2>9. CASE FinishTermination
    BY <2>9 DEF FinishTermination, Moves, Matrix
  <2>10. CASE Fail
    BY <2>10 DEF Fail, SetStatusByCommand, CommandStatusAllowed
  <2>11. CASE DrainEvents
    BY <2>11 DEF DrainEvents
  <2>12. QED
    BY <1>1, <2>2, <2>3, <2>4, <2>5, <2>6, <2>7, <2>8, <2>9, <2>10, <2>11 DEF Next
<1>2. Inv /\ [Next]_runVars => [A]_runVars
  BY <1>1
<1>3. QED
  BY <1>2, Invariance, PTL DEF Spec, TerminalOnce
=============================================================================
