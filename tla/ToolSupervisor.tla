--------------------------- MODULE ToolSupervisor ---------------------------
(***************************************************************************)
(* ToolExecutionSupervisor: a tool call runs as a spawned body; the step   *)
(* waits for it until it ends, is cancelled, reaches its deadline or its   *)
(* background threshold.  At the threshold the call is registered in the   *)
(* session's ledger, answered with a placeholder and left to a detached    *)
(* driver, which closes it when the body ends or the deadline passes.      *)
(*                                                                         *)
(* Actors: one task per call (the foreground wait, then the driver), the   *)
(* spawned bodies, the user who cancels or stops, the deadline of the run, *)
(* which drops the foreground waits, and the process, which may be         *)
(* restarted.  A step is one critical section or one awaited write. *)
(* How the end of a background call reaches the model is                   *)
(* CompletionNotify; here it is one step.  Left out: calls of sub runs,    *)
(* which have no ledger, and I/O errors of the task log, after which the   *)
(* call goes on without one.                                               *)
(***************************************************************************)
EXTENDS Naturals, FiniteSets

CONSTANTS
    Call,           \* the tool calls of a step
    Cooperative,    \* those whose tool declares CancellationDeclaration::Cooperative
    Promotable,     \* those with a threshold, and not BackgroundProcessWatch
    Direct,         \* those whose child writes the task log itself (is_background_log_direct)
    MaxFaults       \* failed writes and restarts

ASSUME CallAssumption ==
    /\ IsFiniteSet(Call)
    /\ Cooperative \subseteq Call
    /\ Promotable \subseteq Call
    /\ Direct \subseteq Promotable
ASSUME FaultAssumption == MaxFaults \in Nat

VARIABLES
    stage,      \* where the task of a call is
    answer,     \* what the step got for the call
    body,       \* the spawned execution: "none", "running", its result, "taken" or "detached"
    token,      \* calls whose child cancellation token is cancelled
    outcome,    \* the outcome the call's task has found
    cancelled,  \* the caller's cancellation
    receipt,    \* ToolCallState of the session's receipt
    ledger,     \* BackgroundProcessState of the session's record
    announced,  \* calls whose end was handed to the notification
    logFile,    \* the task log: "none", "direct" or "indirect"
    copies,     \* how often the call's output is in its log
    snapshot,   \* the ledger a driver is about to save
    saved,      \* the ledger as it is on disk
    faults      \* faults so far

callVars == <<stage, answer, body, token, outcome, cancelled>>
bookVars == <<receipt, ledger, announced>>
logVars == <<logFile, copies>>
diskVars == <<snapshot, saved>>
vars == <<callVars, bookVars, logVars, diskVars, faults>>

(* "Returned" stands for success and failure alike; a tool that asks the    *)
(* user returns "Suspended".                                                *)
Results == {"Returned", "Cancelled", "Suspended"}
Outcomes == Results \cup {"TimedOut", "CancellationUnconfirmed"}
Ends == {"Returned", "TimedOut", "Stopped"}
Foreground == {"pending", "select", "cancelGrace", "deadlineGrace", "close", "promote"}
Driving == {"background", "backgroundGrace", "finish", "snapshot", "save", "announce", "receipt"}
Stages == {"new", "done", "dropped", "gone"} \cup Foreground \cup Driving

Terminal(state) == state \in Ends \cup {"Invalidated"}
Live(state) == state \in {"ForegroundWaiting", "Backgrounded"}
NoLedger == [c \in Call |-> "none"]

---------------------------------------------------------------------------
(* Receipts and records *)

(* ToolCallReceiptData::advance and BackgroundProcessRecord::advance, as    *)
(* far as a state may follow another.                                       *)
ReceiptMay(from, to) ==
    \/ from = "none" /\ to = "Pending"
    \/ from = "Pending" /\ to \in {"Running"} \cup Outcomes
    \/ from = "Running" /\ to \in {"Backgrounded"} \cup Outcomes
    \/ from = "Backgrounded" /\ to \in Outcomes

RecordMay(from, to) ==
    \/ from = "ForegroundWaiting" /\ (to = "Backgrounded" \/ Terminal(to))
    \/ from = "Backgrounded" /\ Terminal(to)

(* terminal_kind_from_outcome *)
KindOf(found) ==
    CASE found = "Returned" -> "Returned"
      [] found \in {"TimedOut", "CancellationUnconfirmed"} -> "TimedOut"
      [] OTHER -> "Stopped"

(* advance_tool_receipt: durable before it is visible, or it fails (refused *)
(* or not stored) and changes nothing.                                      *)
WriteReceipt(c, state) ==
    /\ ReceiptMay(receipt[c], state)
    /\ receipt' = [receipt EXCEPT ![c] = state]
    /\ UNCHANGED faults

Fault == faults < MaxFaults /\ faults' = faults + 1

WriteFails(c, state) ==
    /\ \/ ~ReceiptMay(receipt[c], state) /\ UNCHANGED faults
       \/ Fault
    /\ UNCHANGED receipt

Go(c, next) == stage' = [stage EXCEPT ![c] = next]
Answer(c, what) == answer' = [answer EXCEPT ![c] = what]
Found(c, what) == outcome' = [outcome EXCEPT ![c] = what]
SetLog(c, kind, n) == logFile' = [logFile EXCEPT ![c] = kind] /\ copies' = [copies EXCEPT ![c] = n]

(* The join handle is consumed or dropped: a body that still runs goes on   *)
(* with nobody waiting for it.                                              *)
Release(c) ==
    /\ body' = [body EXCEPT ![c] = IF body[c] = "running" THEN "detached" ELSE "taken"]
    /\ token' = token \ {c}

(* The task of the call is over. *)
Done(c) == Go(c, "done") /\ Found(c, "none")

(* The caller's task returns Err. *)
Fail(c) == Go(c, "done") /\ Answer(c, "error")

---------------------------------------------------------------------------
(* ToolExecutionSupervisor::execute *)

(* The pending receipt, and the error return when it cannot be written.     *)
Dispatch(c) ==
    /\ stage[c] = "new" /\ ~cancelled
    /\ \/ WriteReceipt(c, "Pending") /\ Go(c, "pending") /\ UNCHANGED answer
       \/ WriteFails(c, "Pending") /\ Fail(c)
    /\ UNCHANGED <<body, token, outcome, cancelled, ledger, announced, logVars, diskVars>>

(* The running receipt, the task log of a tool whose child writes it, then  *)
(* the body is spawned.                                                     *)
Start(c) ==
    /\ stage[c] = "pending"
    /\ \/ /\ WriteReceipt(c, "Running")
          /\ Go(c, "select")
          /\ body' = [body EXCEPT ![c] = "running"]
          /\ IF c \in Direct THEN SetLog(c, "direct", 1) ELSE UNCHANGED logVars
          /\ UNCHANGED answer
       \/ WriteFails(c, "Running") /\ Fail(c) /\ UNCHANGED <<body, logVars>>
    /\ UNCHANGED <<token, outcome, cancelled, ledger, announced, diskVars>>

(* The spawned task ends; a panic is a failure.  A tool that was asked to   *)
(* stop may report that it was cancelled.                                   *)
BodyEnds(c) ==
    /\ body[c] = "running"
    /\ \E result \in Results :
           /\ result = "Cancelled" => c \in token
           /\ body' = [body EXCEPT ![c] = result]
    /\ UNCHANGED <<stage, answer, token, outcome, cancelled, bookVars, logVars, diskVars, faults>>

Cancel ==
    /\ ~cancelled /\ cancelled' = TRUE
    /\ UNCHANGED <<stage, answer, body, token, outcome, bookVars, logVars, diskVars, faults>>

(* The select of execute: the result, the caller's cancellation, the        *)
(* deadline and the threshold race; one ready branch is taken.              *)
TakeResult(c) ==
    /\ stage[c] = "select" /\ body[c] \in Results
    /\ Found(c, body[c]) /\ Go(c, "close") /\ Release(c)
    /\ UNCHANGED <<answer, cancelled, bookVars, logVars, diskVars, faults>>

ObserveCancellation(c) ==
    /\ stage[c] = "select" /\ cancelled
    /\ token' = token \cup {c} /\ Go(c, "cancelGrace")
    /\ UNCHANGED <<answer, body, outcome, cancelled, bookVars, logVars, diskVars, faults>>

ObserveDeadline(c) ==
    /\ stage[c] = "select"
    /\ token' = token \cup {c} /\ Go(c, "deadlineGrace")
    /\ UNCHANGED <<answer, body, outcome, cancelled, bookVars, logVars, diskVars, faults>>

(* The call is registered, with the log it has or one opened now. *)
ReachThreshold(c) ==
    /\ stage[c] = "select" /\ c \in Promotable
    /\ ledger' = [ledger EXCEPT ![c] = "ForegroundWaiting"]
    /\ Go(c, "promote")
    /\ IF c \in Direct THEN UNCHANGED logVars ELSE SetLog(c, "indirect", 0)
    /\ UNCHANGED <<answer, body, token, outcome, cancelled, receipt, announced, diskVars, faults>>

(* cancellation_outcome: only a cooperative tool is waited for, and only    *)
(* for the grace period; otherwise the cleanup is unconfirmed.              *)
GraceOutcome(c, inTime) ==
    IF c \in Cooperative /\ body[c] \in Results THEN inTime ELSE "CancellationUnconfirmed"

ForegroundGrace(c) ==
    /\ stage[c] \in {"cancelGrace", "deadlineGrace"}
    /\ Found(c, GraceOutcome(c, IF stage[c] = "cancelGrace" THEN "Cancelled" ELSE "TimedOut"))
    /\ Go(c, "close") /\ Release(c)
    /\ UNCHANGED <<answer, cancelled, bookVars, logVars, diskVars, faults>>

(* The terminal receipt comes before the answer, and the log of a call that *)
(* stayed in the foreground is removed; without the receipt the call fails  *)
(* and the log stays.                                                       *)
CloseCall(c) ==
    /\ stage[c] = "close" /\ Done(c)
    /\ \/ WriteReceipt(c, outcome[c]) /\ Answer(c, outcome[c]) /\ SetLog(c, "none", 0)
       \/ WriteFails(c, outcome[c]) /\ Answer(c, "error") /\ UNCHANGED logVars
    /\ UNCHANGED <<body, token, cancelled, ledger, announced, diskVars>>

(* move_to_background: the receipt, the mark in the ledger, the detached    *)
(* driver and the placeholder.  When the receipt fails the call fails, and  *)
(* what was registered before it stays.                                     *)
Promote(c) ==
    /\ stage[c] = "promote"
    /\ \/ /\ WriteReceipt(c, "Backgrounded")
          /\ ledger' = IF RecordMay(ledger[c], "Backgrounded")
                       THEN [ledger EXCEPT ![c] = "Backgrounded"] ELSE ledger
          /\ Go(c, "background") /\ Answer(c, "placeholder")
          /\ UNCHANGED <<body, token>>
       \/ WriteFails(c, "Backgrounded") /\ Fail(c) /\ Release(c) /\ UNCHANGED ledger
    /\ UNCHANGED <<outcome, cancelled, announced, logVars, diskVars>>

(* run_tool_round_phase: the deadline of the run drops the future of the    *)
(* round and with it every foreground wait, a promotion that awaits its     *)
(* receipt included.  Nobody answers or closes these calls: the write they  *)
(* await is not published, their bodies run on with their tokens, and the   *)
(* log and the record of a promotion stay.                                  *)
RoundDropped ==
    LET dropped == {c \in Call : stage[c] \in Foreground}
    IN  /\ dropped # {}
        /\ stage' = [c \in Call |-> IF c \in dropped THEN "dropped" ELSE stage[c]]
        /\ outcome' = [c \in Call |-> IF c \in dropped THEN "none" ELSE outcome[c]]
        /\ body' = [c \in Call |->
              CASE c \in dropped /\ body[c] = "running" -> "detached"
                [] c \in dropped /\ body[c] \in Results -> "taken"
                [] OTHER -> body[c]]
        /\ token' = token \ dropped
        /\ UNCHANGED <<answer, cancelled, bookVars, logVars, diskVars, faults>>

(* stop_task: a request, answered with the present state.                   *)
StopTask(c) ==
    /\ Live(ledger[c]) /\ body[c] = "running" /\ c \notin token
    /\ token' = token \cup {c}
    /\ UNCHANGED <<stage, answer, body, outcome, cancelled, bookVars, logVars, diskVars, faults>>

---------------------------------------------------------------------------
(* The detached driver: it waits for the body and the deadline, no longer   *)
(* for the caller's cancellation.                                           *)
DriverResult(c) ==
    /\ stage[c] = "background" /\ body[c] \in Results
    /\ Found(c, body[c]) /\ Go(c, "finish") /\ Release(c)
    /\ UNCHANGED <<answer, cancelled, bookVars, logVars, diskVars, faults>>

(* Mutant: the deadline is left to tools that can be cancelled. *)
BuggyDriverDeadline(c) ==
    /\ stage[c] = "background" /\ c \in Cooperative
    /\ token' = token \cup {c} /\ Go(c, "backgroundGrace")
    /\ UNCHANGED <<answer, body, outcome, cancelled, bookVars, logVars, diskVars, faults>>

DriverDeadline(c) ==
    /\ stage[c] = "background"
    /\ token' = token \cup {c} /\ Go(c, "backgroundGrace")
    /\ UNCHANGED <<answer, body, outcome, cancelled, bookVars, logVars, diskVars, faults>>

(* Mutant: a call that reached its deadline is closed without an announcement. *)
BuggyDriverGrace(c) ==
    /\ stage[c] = "backgroundGrace"
    /\ Found(c, GraceOutcome(c, "TimedOut"))
    /\ Go(c, "receipt") /\ Release(c)
    /\ UNCHANGED <<answer, cancelled, bookVars, logVars, diskVars, faults>>

DriverGrace(c) ==
    /\ stage[c] = "backgroundGrace"
    /\ Found(c, GraceOutcome(c, "TimedOut"))
    /\ Go(c, "finish") /\ Release(c)
    /\ UNCHANGED <<answer, cancelled, bookVars, logVars, diskVars, faults>>

(* Mutant: every log gets the output. *)
BuggyAppendOutput(c) ==
    IF logFile[c] # "none" THEN SetLog(c, logFile[c], copies[c] + 1) ELSE UNCHANGED logVars

(* notify_terminal: the output goes to the log unless the child has written *)
(* it (terminal_output_text: a suspended call has none), then finish makes  *)
(* the record terminal; a repeated end goes no further.                     *)
AppendOutput(c) ==
    IF logFile[c] = "indirect" /\ outcome[c] # "Suspended"
    THEN SetLog(c, "indirect", copies[c] + 1)
    ELSE UNCHANGED logVars

Finish(c) ==
    /\ stage[c] = "finish"
    /\ AppendOutput(c)
    /\ IF RecordMay(ledger[c], KindOf(outcome[c]))
       THEN ledger' = [ledger EXCEPT ![c] = KindOf(outcome[c])] /\ Go(c, "snapshot")
       ELSE UNCHANGED ledger /\ Go(c, "receipt")
    /\ UNCHANGED <<answer, body, token, outcome, cancelled, receipt, announced, diskVars, faults>>

(* persist_snapshot: the whole ledger is read, then written; two writers    *)
(* are not ordered.  A failed write is only logged.                         *)
TakeSnapshot(c) ==
    /\ stage[c] = "snapshot" /\ Go(c, "save")
    /\ snapshot' = [snapshot EXCEPT ![c] = ledger]
    /\ UNCHANGED <<answer, body, token, outcome, cancelled, bookVars, logVars, saved, faults>>

SaveSnapshot(c) ==
    /\ stage[c] = "save" /\ Go(c, "announce")
    /\ snapshot' = [snapshot EXCEPT ![c] = NoLedger]
    /\ \/ saved' = snapshot[c] /\ UNCHANGED faults
       \/ Fault /\ UNCHANGED saved
    /\ UNCHANGED <<answer, body, token, outcome, cancelled, bookVars, logVars>>

(* The routes of CompletionNotify. *)
Announce(c) ==
    /\ stage[c] = "announce" /\ Go(c, "receipt")
    /\ announced' = announced \cup {c}
    /\ UNCHANGED <<answer, body, token, outcome, cancelled, receipt, ledger, logVars, diskVars, faults>>

(* Mutant: the receipt of a background call is always a success. *)
BuggyDriverReceipt(c) ==
    /\ stage[c] = "receipt" /\ Done(c)
    /\ WriteReceipt(c, "Returned") \/ WriteFails(c, "Returned")
    /\ UNCHANGED <<answer, body, token, cancelled, ledger, announced, logVars, diskVars>>

(* The terminal receipt is the last thing; a failure is only logged.        *)
DriverReceipt(c) ==
    /\ stage[c] = "receipt" /\ Done(c)
    /\ WriteReceipt(c, outcome[c]) \/ WriteFails(c, outcome[c])
    /\ UNCHANGED <<answer, body, token, cancelled, ledger, announced, logVars, diskVars>>

---------------------------------------------------------------------------
(* Restart: the tasks and the bodies are gone; restore_records takes the    *)
(* saved ledger and invalidates what had not ended.                         *)
Restored ==
    [c \in Call |-> IF Live(saved[c]) THEN "Invalidated" ELSE saved[c]]

Restart ==
    /\ Fault
    /\ ledger' = Restored
    /\ stage' = [c \in Call |-> IF stage[c] = "new" THEN "new" ELSE "gone"]
    /\ body' = [c \in Call |-> IF body[c] = "none" THEN "none" ELSE "taken"]
    /\ outcome' = [c \in Call |-> "none"]
    /\ token' = {} /\ cancelled' = FALSE
    /\ snapshot' = [c \in Call |-> NoLedger]
    /\ UNCHANGED <<answer, receipt, announced, logVars, saved>>

---------------------------------------------------------------------------
Init ==
    /\ stage = [c \in Call |-> "new"]
    /\ answer = [c \in Call |-> "none"]
    /\ body = [c \in Call |-> "none"]
    /\ outcome = [c \in Call |-> "none"]
    /\ token = {} /\ cancelled = FALSE
    /\ receipt = [c \in Call |-> "none"]
    /\ ledger = NoLedger /\ saved = NoLedger
    /\ snapshot = [c \in Call |-> NoLedger]
    /\ announced = {}
    /\ logFile = [c \in Call |-> "none"]
    /\ copies = [c \in Call |-> 0]
    /\ faults = 0

(* What the task of a call does once it has been dispatched. *)
Supervise(c) ==
    \/ Start(c) \/ TakeResult(c) \/ ObserveCancellation(c) \/ ObserveDeadline(c)
    \/ ReachThreshold(c) \/ ForegroundGrace(c) \/ CloseCall(c) \/ Promote(c)
    \/ DriverResult(c) \/ DriverDeadline(c) \/ DriverGrace(c) \/ Finish(c)
    \/ TakeSnapshot(c) \/ SaveSnapshot(c) \/ Announce(c) \/ DriverReceipt(c)

Next ==
    \/ \E c \in Call : Dispatch(c) \/ BodyEnds(c) \/ StopTask(c) \/ Supervise(c)
    \/ Cancel
    \/ RoundDropped
    \/ Restart

Spec == Init /\ [][Next]_vars

(* The tasks are polled and every call has a deadline (the timeout of its   *)
(* descriptor at the least), so each wait ends.  Bodies need not end.       *)
FairSpec == Spec /\ \A c \in Call : WF_vars(Supervise(c))

---------------------------------------------------------------------------
(* Type correctness. *)
SupervisorTypeOK ==
    /\ stage \in [Call -> Stages]
    /\ answer \in [Call -> Outcomes \cup {"none", "error", "placeholder"}]
    /\ body \in [Call -> Results \cup {"none", "running", "taken", "detached"}]
    /\ outcome \in [Call -> Outcomes \cup {"none"}]
    /\ token \subseteq Call /\ cancelled \in BOOLEAN
    /\ receipt \in [Call -> Outcomes \cup {"none", "Pending", "Running", "Backgrounded"}]
    /\ ledger \in [Call -> Ends \cup {"none", "ForegroundWaiting", "Backgrounded", "Invalidated"}]
    /\ announced \subseteq Call
    /\ logFile \in [Call -> {"none", "direct", "indirect"}] /\ copies \in [Call -> Nat]
    /\ faults \in 0 .. MaxFaults

(* placeholder_tool_result promises "Result will be delivered on            *)
(* completion": after the placeholder there is a driver until the end has   *)
(* been announced, however the threshold, the end of the body, the deadline *)
(* and a stop fall together; only a restart takes the driver away.          *)
PlaceholderKept ==
    \A c \in Call : answer[c] = "placeholder" =>
        stage[c] \in Driving \cup {"gone"} \/ c \in announced

(* The receipt in the session and the record in the ledger tell the same    *)
(* end of a call, and a call that the foreground has closed is not in the   *)
(* ledger at all.                                                           *)
BooksAgree ==
    \A c \in Call : stage[c] # "gone" /\ receipt[c] \in Outcomes =>
        ledger[c] = IF answer[c] = "placeholder" THEN KindOf(receipt[c]) ELSE "none"

(* A process that the ledger shows as running has a task that will end it.  *)
(* The exceptions: a call whose promotion failed on the receipt, or was     *)
(* dropped there by the deadline of the run, leaves its record waiting for  *)
(* ever.                                                                    *)
RunningHasTask ==
    \A c \in Call : Live(ledger[c]) =>
        \/ stage[c] = "promote" \/ stage[c] \in Driving
        \/ stage[c] = "done" /\ answer[c] = "error"
        \/ stage[c] = "dropped" /\ ledger[c] = "ForegroundWaiting"

(* notify_terminal: the log holds the output once (a child that writes its  *)
(* own log is not copied again; a suspended call, which ends as stopped,    *)
(* has none), and a call answered in the foreground leaves no log behind.   *)
LogHoldsOutputOnce ==
    \A c \in Call :
        /\ copies[c] <= 1
        /\ ledger[c] \in Ends /\ stage[c] # "gone" =>
              \/ copies[c] = 1
              \/ /\ ledger[c] = "Stopped" /\ logFile[c] = "indirect"
                 /\ outcome[c] \in {"Suspended", "none"}
        /\ answer[c] \in Outcomes => logFile[c] = "none"

(* A call that was dispatched is closed: its task ends, whatever the body   *)
(* does and whoever cancels it, unless its run or its process ends first.   *)
EveryCallCloses ==
    \A c \in Call : stage[c] # "new" ~> stage[c] \in {"done", "dropped", "gone"}

(* The state is well typed, and the log of a process holds its output once. *)
SupervisorOK == SupervisorTypeOK /\ LogHoldsOutputOnce

(* Somebody finishes every call that is open: what the model was promised   *)
(* and what the ledger shows as running have a task that will end them.     *)
SomeoneFinishes == PlaceholderKept /\ RunningHasTask

=============================================================================
