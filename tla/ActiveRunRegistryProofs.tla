---------------------- MODULE ActiveRunRegistryProofs ----------------------
(***************************************************************************)
(* The registry keeps its promises for every set of runs and steps.  The   *)
(* inductive invariant is stated entry by entry (EntryOK): a termination   *)
(* has cancelled the token of the run, a cancellation names the registered *)
(* step.  Each method changes at most one entry, so a lemma per method     *)
(* says what it makes of a correct entry, and one lemma puts the entry     *)
(* back into the map.                                                      *)
(***************************************************************************)
EXTENDS ActiveRunRegistry, TLAPS

EntryOK(e) ==
    /\ e \in Entry
    /\ e.control.kind = "Terminate" => e.cancelled
    /\ e.control.kind = "CancelStep" => e.step = e.control.step /\ e.stepCancelled

RegistryInv ==
    /\ active = [r \in RunId |-> active[r]]
    /\ \A r \in RunId : active[r] = NoEntry \/ EntryOK(active[r])
    /\ currentMain \in RunId \cup {NoRun}
    /\ CurrentMainRegistered

(* An absent entry is not a correct one: present tells them apart. *)
LEMMA EntryPresent ==
  ASSUME NEW e PROVE (e = NoEntry => ~e.present) /\ (EntryOK(e) => e.present)
  <1>1. e = NoEntry => e.present = FALSE
    BY DEF NoEntry
  <1>2. EntryOK(e) => e.present \in {TRUE}
    BY DEF EntryOK, Entry
  <1>3. QED BY <1>1, <1>2

(* The inductive invariant implies what the run checks. *)
LEMMA InvImplies ==
  RegistryInv => RegistryOK
  <1> SUFFICES ASSUME RegistryInv
               PROVE  RegistryOK
    OBVIOUS
  <1>1. active \in [RunId -> Entry \cup {NoEntry}]
    BY DEF RegistryInv, EntryOK
  <1>2. ControlMatchesScope
    BY EntryPresent DEF RegistryInv, EntryOK, ControlMatchesScope, Terminating, Present
  <1>3. QED BY <1>1, <1>2 DEF RegistryInv, RegistryOK, RegistryTypeOK

(* The three kinds of control, and that they differ. *)
LEMMA ControlTypes ==
  /\ NoControl \in Control /\ NoControl.kind = "none"
  /\ \A s \in StepId : /\ CancelControl(s) \in Control
                       /\ CancelControl(s).kind = "CancelStep"
                       /\ CancelControl(s).step = s
  /\ \A r \in Reasons : /\ TerminateControl(r) \in Control
                        /\ TerminateControl(r).kind = "Terminate"
  BY DEF Control, NoControl, CancelControl, TerminateControl

(* A map whose entry of r is replaced by a correct one, or removed. *)
LEMMA PutBack ==
  ASSUME RegistryInv, NEW r \in RunId, NEW e, e = NoEntry \/ EntryOK(e),
         active' = [active EXCEPT ![r] = e],
         currentMain' \in RunId \cup {NoRun},
         currentMain' # NoRun => IF currentMain' = r THEN EntryOK(e)
                                 ELSE currentMain' = currentMain
  PROVE  RegistryInv'
  <1>1. \A x \in RunId : active'[x] = IF x = r THEN e ELSE active[x]
    BY DEF RegistryInv
  <1>2. active' = [x \in RunId |-> active'[x]]
    BY DEF RegistryInv
  <1>3. CurrentMainRegistered'
    BY <1>1, EntryPresent DEF RegistryInv, CurrentMainRegistered, Present
  <1>4. \A x \in RunId : active'[x] = NoEntry \/ EntryOK(active'[x])
    BY <1>1 DEF RegistryInv
  <1>5. QED BY <1>2, <1>3, <1>4 DEF RegistryInv, EntryOK, NoEntry

(* The entry of a run that was just activated. *)
LEMMA FreshOK == ASSUME NEW i \in Intents PROVE EntryOK(Fresh(i))
  BY ControlTypes, RegistryAssumption DEF EntryOK, Entry, Fresh

(* A correct entry stays correct when a step is registered, *)
LEMMA ScopedOK ==
  ASSUME NEW e, EntryOK(e), NEW s \in StepId, e.step = NoStep
  PROVE  EntryOK([e EXCEPT !.step = s, !.stepCancelled = FALSE])
  <1>1. e.control.kind # "CancelStep"
    BY RegistryAssumption DEF EntryOK, Entry, Control, CancelControl, NoControl,
       TerminateControl
  <1>2. QED BY <1>1 DEF EntryOK, Entry

(* ... when its scope is cleared, *)
LEMMA ClearedOK ==
  ASSUME NEW e, EntryOK(e), NEW s \in StepId, e.step = s, NEW c,
         c = IF e.control = CancelControl(s) THEN NoControl ELSE e.control
  PROVE  \A d \in BOOLEAN :
           EntryOK([e EXCEPT !.step = NoStep, !.stepCancelled = FALSE,
                             !.control = c, !.delivered = d])
  <1>1. c \in Control
    BY ControlTypes DEF EntryOK, Entry
  <1>2. c.kind # "CancelStep"
    BY ControlTypes DEF EntryOK, Entry, Control, CancelControl, NoControl,
       TerminateControl
  <1>3. c.kind = "Terminate" => e.cancelled
    BY ControlTypes DEF EntryOK
  <1>4. QED BY <1>1, <1>2, <1>3 DEF EntryOK, Entry

(* ... when its control is taken, *)
LEMMA DeliveredOK ==
  ASSUME NEW e, EntryOK(e) PROVE EntryOK([e EXCEPT !.delivered = TRUE])
  BY DEF EntryOK, Entry

(* ... when its step is cancelled, *)
LEMMA CancelledOK ==
  ASSUME NEW e, EntryOK(e), e.step # NoStep
  PROVE  EntryOK([e EXCEPT !.stepCancelled = TRUE, !.control = CancelControl(e.step),
                           !.delivered = FALSE])
  <1>1. e.step \in StepId
    BY DEF EntryOK, Entry
  <1>2. QED BY <1>1, ControlTypes DEF EntryOK, Entry

(* ... when only the token of the run is cancelled, *)
LEMMA RootCancelledOK ==
  ASSUME NEW e, EntryOK(e) PROVE EntryOK([e EXCEPT !.cancelled = TRUE])
  BY DEF EntryOK, Entry

(* ... and when the run is terminated. *)
LEMMA TerminatedOK ==
  ASSUME NEW e, EntryOK(e), NEW reason \in Reasons, NEW sc \in BOOLEAN
  PROVE  EntryOK([e EXCEPT !.cancelled = TRUE, !.stepCancelled = sc,
                           !.control = TerminateControl(reason), !.delivered = FALSE])
  BY ControlTypes DEF EntryOK, Entry
-----------------------------------------------------------------------------
(* An entry that is there is a correct one. *)
LEMMA PresentOK ==
  ASSUME RegistryInv, NEW r \in RunId, Present(r) PROVE EntryOK(active[r])
  BY EntryPresent DEF RegistryInv, Present

(* A method that leaves currentMain alone and puts a correct entry back. *)
LEMMA Replace ==
  ASSUME RegistryInv, NEW r \in RunId, NEW e, EntryOK(e),
         active' = [active EXCEPT ![r] = e], UNCHANGED currentMain
  PROVE  RegistryInv'
  <1>1. currentMain' \in RunId \cup {NoRun} BY DEF RegistryInv
  <1>2. QED BY <1>1, PutBack

(* Stuttering keeps the invariant, *)
LEMMA Unchanged == RegistryInv /\ UNCHANGED registryVars => RegistryInv'
  BY DEF registryVars, RegistryInv, EntryOK, NoEntry, CurrentMainRegistered, Present

(* ... and so does every method, *)
LEMMA NextKeeps == RegistryInv /\ [RegistryNext]_registryVars => RegistryInv'
  <1> SUFFICES ASSUME RegistryInv, [RegistryNext]_registryVars PROVE RegistryInv'
    OBVIOUS
  <1>1. ASSUME NEW r \in RunId, NEW i \in Intents, ActivateMain(r, i)
        PROVE  RegistryInv'
    BY <1>1, FreshOK, PutBack, RegistryAssumption DEF ActivateMain
  <1>2. ASSUME NEW r \in RunId, ActivateChild(r) PROVE RegistryInv'
    BY <1>2, FreshOK, Replace, RegistryAssumption DEF ActivateChild
  <1>3. ASSUME NEW r \in RunId, NEW s \in StepId, SetMainActiveStep(r, s)
        PROVE  RegistryInv'
    <2>1. CASE r = currentMain /\ Present(r)
      <3>1. active' = [active EXCEPT ![r] = [active[r] EXCEPT !.step = s,
                                                             !.stepCancelled = FALSE]]
        BY <1>3, <2>1 DEF SetMainActiveStep
      <3>2. EntryOK([active[r] EXCEPT !.step = s, !.stepCancelled = FALSE])
        BY <1>3, <2>1, PresentOK, ScopedOK DEF SetMainActiveStep
      <3>3. QED BY <1>3, <3>1, <3>2, Replace DEF SetMainActiveStep
    <2>2. CASE ~(r = currentMain /\ Present(r))
      BY <1>3, <2>2, Unchanged DEF SetMainActiveStep, registryVars
    <2>3. QED BY <2>1, <2>2
  <1>4. ASSUME NEW r \in RunId, NEW s \in StepId, ClearMainActiveStep(r, s)
        PROVE  RegistryInv'
    <2>1. CASE Present(r) /\ active[r].step = s
      <3> DEFINE c == IF active[r].control = CancelControl(s) THEN NoControl
                      ELSE active[r].control
                 d == active[r].delivered /\ active[r].control # CancelControl(s)
                 e == [active[r] EXCEPT !.step = NoStep, !.stepCancelled = FALSE,
                                        !.control = c, !.delivered = d]
      <3>1. active' = [active EXCEPT ![r] = e]
        BY <1>4, <2>1 DEF ClearMainActiveStep
      <3>2. EntryOK(e)
        BY <2>1, PresentOK, ClearedOK
      <3> HIDE DEF e
      <3>3. QED BY <1>4, <3>1, <3>2, Replace DEF ClearMainActiveStep
    <2>2. CASE ~(Present(r) /\ active[r].step = s)
      BY <1>4, <2>2, Unchanged DEF ClearMainActiveStep, registryVars
    <2>3. QED BY <2>1, <2>2
  <1>5. ASSUME NEW r \in RunId, TakeControl(r) PROVE RegistryInv'
    <2>1. active' = [active EXCEPT ![r] = [active[r] EXCEPT !.delivered = TRUE]]
      BY <1>5 DEF TakeControl
    <2>2. QED BY <1>5, <2>1, PresentOK, DeliveredOK, Replace DEF TakeControl, HasControl
  <1>6. ASSUME NEW r \in RunId, Clear(r) PROVE RegistryInv'
    BY <1>6, PutBack, RegistryAssumption DEF Clear, RegistryInv
  <1>7. ASSUME NEW r \in RunId, active[r].step # NoStep, Present(r),
               SetCancelControl(r), UNCHANGED currentMain
        PROVE  RegistryInv'
    <2>1. active' = [active EXCEPT ![r] = [active[r] EXCEPT
                       !.stepCancelled = TRUE, !.control = CancelControl(active[r].step),
                       !.delivered = FALSE]]
      BY <1>7 DEF SetCancelControl
    <2>2. QED BY <1>7, <2>1, PresentOK, CancelledOK, Replace
  <1>8. ASSUME CancelCurrentMain PROVE RegistryInv'
    <2>1. currentMain \in RunId /\ Present(currentMain)
      BY <1>8 DEF CancelCurrentMain, RegistryInv
    <2>2. CASE active[currentMain].step # NoStep /\ SetCancelControl(currentMain)
      BY <1>7, <1>8, <2>1, <2>2 DEF CancelCurrentMain
    <2>3. CASE active' = [active EXCEPT ![currentMain].cancelled = TRUE]
      <3>1. active' = [active EXCEPT ![currentMain] =
                         [active[currentMain] EXCEPT !.cancelled = TRUE]]
        BY <2>3
      <3>2. QED BY <1>8, <2>1, <3>1, PresentOK, RootCancelledOK, Replace
                DEF CancelCurrentMain
    <2>4. QED BY <1>8, <2>2, <2>3 DEF CancelCurrentMain
  <1>9. ASSUME NEW r \in RunId, CancelStep(r) PROVE RegistryInv'
    BY <1>7, <1>9 DEF CancelStep
  <1>10. ASSUME NEW r \in RunId, NEW reason \in Reasons, Terminate(r, reason)
         PROVE  RegistryInv'
    <2> DEFINE sc == active[r].stepCancelled \/ active[r].step # NoStep
    <2>1. active' = [active EXCEPT ![r] = [active[r] EXCEPT
                       !.cancelled = TRUE, !.stepCancelled = sc,
                       !.control = TerminateControl(reason), !.delivered = FALSE]]
      BY <1>10 DEF Terminate
    <2>2. sc \in BOOLEAN OBVIOUS
    <2> HIDE DEF sc
    <2>3. EntryOK([active[r] EXCEPT
                     !.cancelled = TRUE, !.stepCancelled = sc,
                     !.control = TerminateControl(reason), !.delivered = FALSE])
      BY <1>10, <2>2, PresentOK, TerminatedOK DEF Terminate
    <2>4. QED BY <1>10, <2>1, <2>3, Replace DEF Terminate
  <1>11. CASE UNCHANGED registryVars BY <1>11, Unchanged
  <1>12. QED
    BY <1>1, <1>2, <1>3, <1>4, <1>5, <1>6, <1>8, <1>9, <1>10, <1>11 DEF RegistryNext

(* ... from an empty registry on. *)
LEMMA InitHolds == RegistryInit => RegistryInv
  BY RegistryAssumption DEF RegistryInit, RegistryInv, CurrentMainRegistered

(* The registry keeps its types, the entry of the current main run, and the *)
(* agreement of a recorded control with the tokens, whatever the clients    *)
(* and the engine call in whatever order.                                   *)
THEOREM RegistryCorrect ==
  RegistrySpec => []RegistryOK
  BY InitHolds, NextKeeps, InvImplies, PTL DEF RegistrySpec

(* No method undoes or replaces an accepted termination while the run is    *)
(* registered: the reason and the cancelled token stay (Terminate, the      *)
(* clearing of a step scope and the refused cancellations).                 *)
THEOREM TerminateSticksHolds == RegistrySpec => TerminateSticks
  <1>1. RegistryInv /\ [RegistryNext]_registryVars =>
          [\A r \in RunId :
             Terminating(r) /\ active'[r].present =>
                 /\ active'[r].control = active[r].control
                 /\ active'[r].cancelled]_registryVars
    <2> SUFFICES ASSUME RegistryInv, RegistryNext, NEW x \in RunId,
                        Terminating(x), active'[x].present
                 PROVE  active'[x].control = active[x].control /\ active'[x].cancelled
      OBVIOUS
    <2>1. /\ active = [r \in RunId |-> active[r]]
          /\ EntryOK(active[x]) /\ active[x].cancelled = TRUE
          /\ active[x].control.kind = "Terminate"
      BY PresentOK DEF RegistryInv, Terminating, EntryOK, Entry
    <2>2. active[x].control # NoControl
          /\ \A s \in StepId : active[x].control # CancelControl(s)
      BY <2>1, ControlTypes
    <2>3. Present(x) BY DEF Terminating
    <2>4. CASE active'[x] = active[x] BY <2>1, <2>4
    <2>6. ASSUME NEW r \in RunId, NEW e, active' = [active EXCEPT ![r] = e], r # x
          PROVE  active'[x] = active[x]
      BY <2>1, <2>6
    <2>7. CASE \E r \in RunId : (\E i \in Intents : ActivateMain(r, i)) \/ ActivateChild(r)
      BY <2>3, <2>4, <2>6, <2>7 DEF ActivateMain, ActivateChild
    <2>8. ASSUME NEW r \in RunId, NEW s \in StepId, SetMainActiveStep(r, s)
          PROVE  active'[x].control = active[x].control /\ active'[x].cancelled
      BY <2>1, <2>8 DEF SetMainActiveStep, EntryOK, Entry
    <2>9. ASSUME NEW r \in RunId, NEW s \in StepId, ClearMainActiveStep(r, s)
          PROVE  active'[x].control = active[x].control /\ active'[x].cancelled
      BY <2>1, <2>2, <2>9 DEF ClearMainActiveStep, EntryOK, Entry
    <2>10. ASSUME NEW r \in RunId, TakeControl(r)
           PROVE  active'[x].control = active[x].control /\ active'[x].cancelled
      BY <2>1, <2>10 DEF TakeControl, EntryOK, Entry
    <2>11. ASSUME NEW r \in RunId, Clear(r) PROVE active'[x] = active[x]
      <3>1. r = x => active'[x] = NoEntry BY <2>1, <2>11 DEF Clear
      <3>2. r # x BY <3>1, EntryPresent
      <3>3. QED BY <2>6, <2>11, <3>2 DEF Clear
    <2>12. ASSUME NEW r \in RunId, SetCancelControl(r), active[r].control = NoControl
           PROVE  active'[x] = active[x]
      BY <2>1, <2>2, <2>12 DEF SetCancelControl
    <2>13. ASSUME CancelCurrentMain PROVE active'[x] = active[x]
      <3>1. currentMain \in RunId /\ currentMain # x
        BY <2>2, <2>13 DEF CancelCurrentMain, RegistryInv
      <3>2. QED BY <2>1, <2>12, <2>13, <3>1 DEF CancelCurrentMain
    <2>14. ASSUME NEW r \in RunId, CancelStep(r) PROVE active'[x] = active[x]
      BY <2>12, <2>14 DEF CancelStep
    <2>15. ASSUME NEW r \in RunId, NEW reason \in Reasons, Terminate(r, reason)
           PROVE  active'[x] = active[x]
      BY <2>1, <2>15 DEF Terminate
    <2>16. QED
      BY <2>4, <2>7, <2>8, <2>9, <2>10, <2>11, <2>13, <2>14, <2>15 DEF RegistryNext
  <1>2. QED BY <1>1, InitHolds, NextKeeps, PTL DEF RegistrySpec, TerminateSticks

(* A control is acted on once: a step of the registry that leaves the       *)
(* control of a run as it is never makes it deliverable again (take_control,*)
(* and the two requests that reset control_delivered).                      *)
THEOREM DeliveredOnce == RegistrySpec => ControlDeliveredOnce
  <1>1. RegistryInv /\ [RegistryNext]_registryVars =>
          [\A r \in RunId :
             Present(r) /\ active[r].delivered /\ active'[r].present
                 /\ active'[r].control = active[r].control
             => active'[r].delivered]_registryVars
    <2> SUFFICES ASSUME RegistryInv, RegistryNext, NEW x \in RunId,
                        Present(x), active[x].delivered, active'[x].present,
                        active'[x].control = active[x].control
                 PROVE  active'[x].delivered
      OBVIOUS
    <2>1. /\ active = [r \in RunId |-> active[r]]
          /\ EntryOK(active[x]) /\ active[x].delivered = TRUE
      BY PresentOK DEF RegistryInv, EntryOK, Entry
    <2>2. CASE active'[x] = active[x] BY <2>1, <2>2
    <2>3. ASSUME NEW r \in RunId, NEW e, active' = [active EXCEPT ![r] = e], r # x
          PROVE  active'[x] = active[x]
      BY <2>1, <2>3
    <2>4. CASE \E r \in RunId : (\E i \in Intents : ActivateMain(r, i)) \/ ActivateChild(r)
      BY <2>2, <2>3, <2>4 DEF ActivateMain, ActivateChild
    <2>5. ASSUME NEW r \in RunId, NEW s \in StepId, SetMainActiveStep(r, s)
          PROVE  active'[x].delivered
      BY <2>1, <2>5 DEF SetMainActiveStep, EntryOK, Entry
    <2>6. ASSUME NEW r \in RunId, NEW s \in StepId, ClearMainActiveStep(r, s)
          PROVE  active'[x].delivered
      BY <2>1, <2>6, ControlTypes DEF ClearMainActiveStep, EntryOK, Entry
    <2>7. ASSUME NEW r \in RunId, TakeControl(r) PROVE active'[x].delivered
      BY <2>1, <2>7 DEF TakeControl, EntryOK, Entry
    <2>8. ASSUME NEW r \in RunId, Clear(r) PROVE active'[x] = active[x]
      <3>1. r = x => active'[x] = NoEntry BY <2>1, <2>8 DEF Clear
      <3>2. r # x BY <3>1, EntryPresent
      <3>3. QED BY <2>3, <2>8, <3>2 DEF Clear
    <2>9. ASSUME NEW r \in RunId, SetCancelControl(r), active[r].control = NoControl,
                 active[r].step # NoStep
          PROVE  active'[x] = active[x]
      <3>1. CASE r = x
        <4>1. active'[x].control = CancelControl(active[x].step)
          BY <2>1, <2>9, <3>1 DEF SetCancelControl, EntryOK, Entry
        <4>2. active[x].step \in StepId BY <2>1, <2>9, <3>1 DEF EntryOK, Entry
        <4>3. QED BY <2>9, <3>1, <4>1, <4>2, ControlTypes
      <3>2. QED BY <2>1, <2>9, <3>1 DEF SetCancelControl
    <2>10. ASSUME CancelCurrentMain PROVE active'[x].delivered
      <3>1. currentMain \in RunId BY <2>10 DEF CancelCurrentMain, RegistryInv
      <3>2. CASE active' = [active EXCEPT ![currentMain].cancelled = TRUE]
        BY <2>1, <3>1, <3>2 DEF EntryOK, Entry
      <3>3. QED BY <2>2, <2>9, <2>10, <3>1, <3>2 DEF CancelCurrentMain
    <2>11. ASSUME NEW r \in RunId, CancelStep(r) PROVE active'[x] = active[x]
      BY <2>9, <2>11 DEF CancelStep
    <2>12. ASSUME NEW r \in RunId, NEW reason \in Reasons, Terminate(r, reason)
           PROVE  active'[x] = active[x]
      <3>1. CASE r = x
        <4>1. active'[x].control = TerminateControl(reason)
          BY <2>1, <2>12, <3>1 DEF Terminate, EntryOK, Entry
        <4>2. active[x].control.kind = "Terminate" BY <4>1 DEF TerminateControl
        <4>3. QED BY <2>12, <3>1, <4>2 DEF Terminate, Terminating
      <3>2. QED BY <2>1, <2>12, <3>1 DEF Terminate
    <2>13. QED
      BY <2>2, <2>4, <2>5, <2>6, <2>7, <2>8, <2>10, <2>11, <2>12 DEF RegistryNext
  <1>2. QED BY <1>1, InitHolds, NextKeeps, PTL DEF RegistrySpec, ControlDeliveredOnce
=============================================================================
