------------------------ MODULE BackgroundProofs ----------------------------
(***************************************************************************)
(* The books of the supervisor agree for every set of tool calls and any   *)
(* number of faults.  The invariant says, stage by stage of a call's task, *)
(* what its receipt, its record, its answer and its log are (CallOK), and  *)
(* that a ledger on disk or about to be saved knows only calls that have   *)
(* been dispatched (LedgersOK), which is what a restart relies on.         *)
(*                                                                         *)
(* The second half follows a completion from there to the model: it is     *)
(* dropped only where the code drops it, and never waits between two runs  *)
(* without having been signalled.                                          *)
(***************************************************************************)
EXTENDS ToolSupervisor, CompletionNotify, FiniteSetTheorems, TLAPS

Record == Ends \cup {"none", "ForegroundWaiting", "Backgrounded", "Invalidated"}

(* The log of a call before its output is appended, and after. *)
LogOpen(c) ==
    IF c \in Direct THEN logFile[c] = "direct" /\ copies[c] = 1
    ELSE logFile[c] = "indirect" /\ copies[c] = 0
NoLog(c) == logFile[c] = "none" /\ copies[c] = 0
ForegroundLog(c) == IF c \in Direct THEN LogOpen(c) ELSE NoLog(c)

(* The books of a call while its task is at a stage. *)
Books(c, state, record, reply) ==
    receipt[c] = state /\ ledger[c] = record /\ answer[c] = reply

Closed(c) ==
    \/ answer[c] = "error" /\ receipt[c] \notin Outcomes
          /\ ledger[c] \in {"none", "ForegroundWaiting"}
    \/ answer[c] \in Outcomes /\ Books(c, answer[c], "none", answer[c]) /\ NoLog(c)
    \/ /\ answer[c] = "placeholder" /\ c \in announced
       /\ ledger[c] \in Ends /\ outcome[c] = "none"
       /\ copies[c] = 1 \/ (ledger[c] = "Stopped" /\ logFile[c] = "indirect")
       /\ receipt[c] \in Outcomes => ledger[c] = KindOf(receipt[c])

CallOK(c) ==
    /\ copies[c] \in {0, 1}
    /\ stage[c] = "new" => Books(c, "none", "none", "none") /\ NoLog(c)
    /\ stage[c] = "pending" => Books(c, "Pending", "none", "none") /\ NoLog(c)
    /\ stage[c] \in {"select", "cancelGrace", "deadlineGrace", "close"} =>
          Books(c, "Running", "none", "none") /\ ForegroundLog(c)
    /\ stage[c] = "promote" =>
          Books(c, "Running", "ForegroundWaiting", "none") /\ LogOpen(c)
    /\ stage[c] \in {"background", "backgroundGrace", "finish"} =>
          Books(c, "Backgrounded", "Backgrounded", "placeholder") /\ LogOpen(c)
    /\ stage[c] \in {"snapshot", "save", "announce", "receipt"} =>
          /\ Books(c, "Backgrounded", KindOf(outcome[c]), "placeholder")
          /\ copies[c] = 1 \/ (outcome[c] = "Suspended" /\ logFile[c] = "indirect")
    /\ stage[c] \in {"close", "finish", "snapshot", "save", "announce", "receipt"} =>
          outcome[c] \in Outcomes
    /\ stage[c] = "receipt" => c \in announced
    /\ stage[c] = "done" => Closed(c)
    /\ stage[c] = "dropped" =>
          /\ answer[c] = "none" /\ receipt[c] \notin Outcomes
          /\ ledger[c] \in {"none", "ForegroundWaiting"}
    /\ stage[c] = "gone" =>
          ~Live(ledger[c]) /\ (answer[c] \in Outcomes => logFile[c] = "none")

(* A ledger that was read, or written to disk, holds only calls that began. *)
LedgersOK ==
    /\ saved \in [Call -> Record] /\ snapshot \in [Call -> [Call -> Record]]
    /\ \A c \in Call :
          (saved[c] # "none" \/ \E d \in Call : snapshot[d][c] # "none") => stage[c] # "new"

SupervisorInv == SupervisorTypeOK /\ LedgersOK /\ \A c \in Call : CallOK(c)
-----------------------------------------------------------------------------
(* The inductive invariant implies what the run checks. *)
LEMMA InvImplies == SupervisorInv => SupervisorOK /\ SomeoneFinishes /\ BooksAgree
  <1> SUFFICES ASSUME SupervisorInv PROVE SupervisorOK /\ SomeoneFinishes /\ BooksAgree
    OBVIOUS
  <1> USE DEF SupervisorInv, SupervisorTypeOK, CallOK, Closed, Books, LogOpen, NoLog, ForegroundLog
  <1> USE DEF Stages, Foreground, Driving, Outcomes, Results, Ends, KindOf
  <1>1. LogHoldsOutputOnce BY DEF LogHoldsOutputOnce
  <1>2. PlaceholderKept BY DEF PlaceholderKept
  <1>3. RunningHasTask BY DEF RunningHasTask, Live
  <1>4. BooksAgree BY DEF BooksAgree
  <1>5. QED BY <1>1, <1>2, <1>3, <1>4 DEF SupervisorOK, SomeoneFinishes

(* A call has the outcome of its task. *)
LEMMA KindOfEnds == \A found \in Outcomes : KindOf(found) \in Ends
  BY DEF KindOf, Outcomes, Results, Ends

(* A step of one call leaves the books of the others alone. *)
Same(d) ==
    /\ stage'[d] = stage[d] /\ answer'[d] = answer[d] /\ outcome'[d] = outcome[d]
    /\ receipt'[d] = receipt[d] /\ ledger'[d] = ledger[d]
    /\ logFile'[d] = logFile[d] /\ copies'[d] = copies[d]
    /\ d \in announced => d \in announced'

LEMMA SameKeeps == ASSUME NEW d \in Call, CallOK(d), Same(d) PROVE CallOK(d)'
  BY DEF Same, CallOK, Closed, Books, LogOpen, NoLog, ForegroundLog

(* So it is enough to look at that call, unless ledgers are read or saved. *)
LEMMA OneCall ==
  ASSUME SupervisorInv, NEW c \in Call, SupervisorTypeOK', CallOK(c)', UNCHANGED diskVars,
         stage'[c] # "new" \/ stage[c] = "new", \A d \in Call : d # c => Same(d)
  PROVE  SupervisorInv'
  <1>1. LedgersOK'
    BY DEF SupervisorInv, LedgersOK, diskVars, Same
  <1>2. QED BY <1>1, SameKeeps DEF SupervisorInv

(* What every action of a call's task, of its body and of the user does. *)
LEMMA CallKeeps ==
  ASSUME SupervisorInv, NEW c \in Call,
         Dispatch(c) \/ BodyEnds(c) \/ StopTask(c) \/ Supervise(c)
  PROVE  SupervisorInv'
  <1> USE CallAssumption, FaultAssumption
      DEF SupervisorTypeOK, Stages, Foreground, Driving, Outcomes, Results, Ends
  <1> USE DEF bookVars, logVars, diskVars
  <1>1. CASE Dispatch(c)
    <2>1. SupervisorTypeOK'
      BY <1>1 DEF Dispatch, WriteReceipt, WriteFails, Fault, ReceiptMay, Go, Fail, Answer,
         SupervisorInv
    <2>2. CallOK(c)'
      BY <1>1 DEF Dispatch, WriteReceipt, WriteFails, Fault, ReceiptMay, Go, Fail, Answer,
         SupervisorInv, CallOK, Closed, Books, LogOpen, NoLog, ForegroundLog
    <2>3. UNCHANGED diskVars /\ (stage'[c] # "new" \/ stage[c] = "new")
          /\ \A e \in Call : e # c => Same(e)
      BY <1>1 DEF Dispatch, WriteReceipt, WriteFails, Fault, ReceiptMay, Go, Fail, Answer,
         SupervisorInv, Same
    <2>4. QED BY <2>1, <2>2, <2>3, OneCall
  <1>2. CASE BodyEnds(c)
    <2>1. SupervisorTypeOK'
      BY <1>2 DEF BodyEnds, SupervisorInv
    <2>2. CallOK(c)'
      BY <1>2 DEF BodyEnds, SupervisorInv, CallOK, Closed, Books, LogOpen, NoLog,
         ForegroundLog
    <2>3. UNCHANGED diskVars /\ (stage'[c] # "new" \/ stage[c] = "new")
          /\ \A e \in Call : e # c => Same(e)
      BY <1>2 DEF BodyEnds, SupervisorInv, Same
    <2>4. QED BY <2>1, <2>2, <2>3, OneCall
  <1>3. CASE StopTask(c)
    <2>1. SupervisorTypeOK'
      BY <1>3 DEF StopTask, SupervisorInv
    <2>2. CallOK(c)'
      BY <1>3 DEF StopTask, SupervisorInv, CallOK, Closed, Books, LogOpen, NoLog,
         ForegroundLog
    <2>3. UNCHANGED diskVars /\ (stage'[c] # "new" \/ stage[c] = "new")
          /\ \A e \in Call : e # c => Same(e)
      BY <1>3 DEF StopTask, SupervisorInv, Same
    <2>4. QED BY <2>1, <2>2, <2>3, OneCall
  <1>4. CASE Start(c)
    <2>1. SupervisorTypeOK'
      BY <1>4 DEF Start, WriteReceipt, WriteFails, Fault, ReceiptMay, Go, Fail, Answer,
         SetLog, SupervisorInv
    <2>2. CallOK(c)'
      BY <1>4 DEF Start, WriteReceipt, WriteFails, Fault, ReceiptMay, Go, Fail, Answer,
         SetLog, SupervisorInv, CallOK, Closed, Books, LogOpen, NoLog, ForegroundLog
    <2>3. UNCHANGED diskVars /\ (stage'[c] # "new" \/ stage[c] = "new")
          /\ \A e \in Call : e # c => Same(e)
      BY <1>4 DEF Start, WriteReceipt, WriteFails, Fault, ReceiptMay, Go, Fail, Answer,
         SetLog, SupervisorInv, Same
    <2>4. QED BY <2>1, <2>2, <2>3, OneCall
  <1>5. CASE TakeResult(c)
    <2>1. SupervisorTypeOK'
      BY <1>5 DEF TakeResult, Found, Go, Release, SupervisorInv
    <2>2. CallOK(c)'
      BY <1>5 DEF TakeResult, Found, Go, Release, SupervisorInv, CallOK, Closed, Books,
         LogOpen, NoLog, ForegroundLog
    <2>3. UNCHANGED diskVars /\ (stage'[c] # "new" \/ stage[c] = "new")
          /\ \A e \in Call : e # c => Same(e)
      BY <1>5 DEF TakeResult, Found, Go, Release, SupervisorInv, Same
    <2>4. QED BY <2>1, <2>2, <2>3, OneCall
  <1>6. CASE ObserveCancellation(c)
    <2>1. SupervisorTypeOK'
      BY <1>6 DEF ObserveCancellation, Go, SupervisorInv
    <2>2. CallOK(c)'
      BY <1>6 DEF ObserveCancellation, Go, SupervisorInv, CallOK, Closed, Books, LogOpen,
         NoLog, ForegroundLog
    <2>3. UNCHANGED diskVars /\ (stage'[c] # "new" \/ stage[c] = "new")
          /\ \A e \in Call : e # c => Same(e)
      BY <1>6 DEF ObserveCancellation, Go, SupervisorInv, Same
    <2>4. QED BY <2>1, <2>2, <2>3, OneCall
  <1>7. CASE ObserveDeadline(c)
    <2>1. SupervisorTypeOK'
      BY <1>7 DEF ObserveDeadline, Go, SupervisorInv
    <2>2. CallOK(c)'
      BY <1>7 DEF ObserveDeadline, Go, SupervisorInv, CallOK, Closed, Books, LogOpen,
         NoLog, ForegroundLog
    <2>3. UNCHANGED diskVars /\ (stage'[c] # "new" \/ stage[c] = "new")
          /\ \A e \in Call : e # c => Same(e)
      BY <1>7 DEF ObserveDeadline, Go, SupervisorInv, Same
    <2>4. QED BY <2>1, <2>2, <2>3, OneCall
  <1>8. CASE ReachThreshold(c)
    <2>1. SupervisorTypeOK'
      BY <1>8 DEF ReachThreshold, Go, SetLog, SupervisorInv
    <2>2. CallOK(c)'
      BY <1>8 DEF ReachThreshold, Go, SetLog, SupervisorInv, CallOK, Closed, Books,
         LogOpen, NoLog, ForegroundLog
    <2>3. UNCHANGED diskVars /\ (stage'[c] # "new" \/ stage[c] = "new")
          /\ \A e \in Call : e # c => Same(e)
      BY <1>8 DEF ReachThreshold, Go, SetLog, SupervisorInv, Same
    <2>4. QED BY <2>1, <2>2, <2>3, OneCall
  <1>9. CASE ForegroundGrace(c)
    <2>1. SupervisorTypeOK'
      BY <1>9 DEF ForegroundGrace, Found, GraceOutcome, Go, Release, SupervisorInv
    <2>2. CallOK(c)'
      BY <1>9 DEF ForegroundGrace, Found, GraceOutcome, Go, Release, SupervisorInv, CallOK,
         Closed, Books, LogOpen, NoLog, ForegroundLog
    <2>3. UNCHANGED diskVars /\ (stage'[c] # "new" \/ stage[c] = "new")
          /\ \A e \in Call : e # c => Same(e)
      BY <1>9 DEF ForegroundGrace, Found, GraceOutcome, Go, Release, SupervisorInv, Same
    <2>4. QED BY <2>1, <2>2, <2>3, OneCall
  <1>10. CASE CloseCall(c)
    <2>1. SupervisorTypeOK'
      BY <1>10 DEF CloseCall, Done, Go, Found, Answer, SetLog, WriteReceipt, WriteFails,
         Fault, ReceiptMay, SupervisorInv
    <2>2. CallOK(c)'
      BY <1>10 DEF CloseCall, Done, Go, Found, Answer, SetLog, WriteReceipt, WriteFails,
         Fault, ReceiptMay, SupervisorInv, CallOK, Closed, Books, LogOpen, NoLog,
         ForegroundLog
    <2>3. UNCHANGED diskVars /\ (stage'[c] # "new" \/ stage[c] = "new")
          /\ \A e \in Call : e # c => Same(e)
      BY <1>10 DEF CloseCall, Done, Go, Found, Answer, SetLog, WriteReceipt, WriteFails,
         Fault, ReceiptMay, SupervisorInv, Same
    <2>4. QED BY <2>1, <2>2, <2>3, OneCall
  <1>11. CASE Promote(c)
    <2>1. SupervisorTypeOK'
      BY <1>11 DEF Promote, WriteReceipt, WriteFails, Fault, ReceiptMay, RecordMay, Go,
         Answer, Fail, Release, SupervisorInv
    <2>2. CallOK(c)'
      BY <1>11 DEF Promote, WriteReceipt, WriteFails, Fault, ReceiptMay, RecordMay, Go,
         Answer, Fail, Release, SupervisorInv, CallOK, Closed, Books, LogOpen, NoLog,
         ForegroundLog
    <2>3. UNCHANGED diskVars /\ (stage'[c] # "new" \/ stage[c] = "new")
          /\ \A e \in Call : e # c => Same(e)
      BY <1>11 DEF Promote, WriteReceipt, WriteFails, Fault, ReceiptMay, RecordMay, Go,
         Answer, Fail, Release, SupervisorInv, Same
    <2>4. QED BY <2>1, <2>2, <2>3, OneCall
  <1>12. CASE DriverResult(c)
    <2>1. SupervisorTypeOK'
      BY <1>12 DEF DriverResult, Found, Go, Release, SupervisorInv
    <2>2. CallOK(c)'
      BY <1>12 DEF DriverResult, Found, Go, Release, SupervisorInv, CallOK, Closed, Books,
         LogOpen, NoLog, ForegroundLog
    <2>3. UNCHANGED diskVars /\ (stage'[c] # "new" \/ stage[c] = "new")
          /\ \A e \in Call : e # c => Same(e)
      BY <1>12 DEF DriverResult, Found, Go, Release, SupervisorInv, Same
    <2>4. QED BY <2>1, <2>2, <2>3, OneCall
  <1>13. CASE DriverDeadline(c)
    <2>1. SupervisorTypeOK'
      BY <1>13 DEF DriverDeadline, Go, SupervisorInv
    <2>2. CallOK(c)'
      BY <1>13 DEF DriverDeadline, Go, SupervisorInv, CallOK, Closed, Books, LogOpen,
         NoLog, ForegroundLog
    <2>3. UNCHANGED diskVars /\ (stage'[c] # "new" \/ stage[c] = "new")
          /\ \A e \in Call : e # c => Same(e)
      BY <1>13 DEF DriverDeadline, Go, SupervisorInv, Same
    <2>4. QED BY <2>1, <2>2, <2>3, OneCall
  <1>14. CASE DriverGrace(c)
    <2>1. SupervisorTypeOK'
      BY <1>14 DEF DriverGrace, Found, GraceOutcome, Go, Release, SupervisorInv
    <2>2. CallOK(c)'
      BY <1>14 DEF DriverGrace, Found, GraceOutcome, Go, Release, SupervisorInv, CallOK,
         Closed, Books, LogOpen, NoLog, ForegroundLog
    <2>3. UNCHANGED diskVars /\ (stage'[c] # "new" \/ stage[c] = "new")
          /\ \A e \in Call : e # c => Same(e)
      BY <1>14 DEF DriverGrace, Found, GraceOutcome, Go, Release, SupervisorInv, Same
    <2>4. QED BY <2>1, <2>2, <2>3, OneCall
  <1>15. CASE Finish(c)
    <2>1. SupervisorTypeOK'
      BY <1>15 DEF Finish, AppendOutput, SetLog, RecordMay, Go, SupervisorInv, KindOf,
         RecordMay
    <2>5. /\ Books(c, "Backgrounded", "Backgrounded", "placeholder") /\ LogOpen(c)
          /\ outcome[c] \in Outcomes /\ copies[c] \in {0, 1} /\ stage[c] = "finish"
      BY <1>15 DEF Finish, SupervisorInv, CallOK
    <2>6. RecordMay(ledger[c], KindOf(outcome[c]))
      BY <2>5, KindOfEnds DEF RecordMay, Terminal, Books
    <2>7. /\ copies'[c] \in {0, 1}
          /\ copies'[c] = 1 \/ (outcome[c] = "Suspended" /\ logFile'[c] = "indirect")
      BY <1>15, <2>5 DEF Finish, AppendOutput, SetLog, LogOpen, SupervisorInv
    <2>8. stage'[c] = "snapshot" /\ ledger'[c] = KindOf(outcome[c])
          /\ UNCHANGED <<receipt, answer, outcome>>
      BY <1>15, <2>6 DEF Finish, Go, SupervisorInv
    <2>2. CallOK(c)'
      BY <2>5, <2>7, <2>8 DEF CallOK, Books
    <2>3. UNCHANGED diskVars /\ (stage'[c] # "new" \/ stage[c] = "new")
          /\ \A e \in Call : e # c => Same(e)
      BY <1>15 DEF Finish, AppendOutput, SetLog, RecordMay, Go, SupervisorInv, Same
    <2>4. QED BY <2>1, <2>2, <2>3, OneCall
  <1>16. CASE Announce(c)
    <2>1. SupervisorTypeOK'
      BY <1>16 DEF Announce, Go, SupervisorInv
    <2>2. CallOK(c)'
      BY <1>16 DEF Announce, Go, SupervisorInv, CallOK, Closed, Books, LogOpen, NoLog,
         ForegroundLog
    <2>3. UNCHANGED diskVars /\ (stage'[c] # "new" \/ stage[c] = "new")
          /\ \A e \in Call : e # c => Same(e)
      BY <1>16 DEF Announce, Go, SupervisorInv, Same
    <2>4. QED BY <2>1, <2>2, <2>3, OneCall
  <1>17. CASE DriverReceipt(c)
    <2>1. SupervisorTypeOK'
      BY <1>17 DEF DriverReceipt, Done, Go, Found, WriteReceipt, WriteFails, Fault,
         ReceiptMay, SupervisorInv
    <2>2. CallOK(c)'
      BY <1>17 DEF DriverReceipt, Done, Go, Found, WriteReceipt, WriteFails, Fault,
         ReceiptMay, SupervisorInv, CallOK, Closed, Books, LogOpen, NoLog, ForegroundLog,
         KindOf
    <2>3. UNCHANGED diskVars /\ (stage'[c] # "new" \/ stage[c] = "new")
          /\ \A e \in Call : e # c => Same(e)
      BY <1>17 DEF DriverReceipt, Done, Go, Found, WriteReceipt, WriteFails, Fault,
         ReceiptMay, SupervisorInv, Same
    <2>4. QED BY <2>1, <2>2, <2>3, OneCall
  <1>18. CASE TakeSnapshot(c)
    <2>1. SupervisorTypeOK' BY <1>18 DEF TakeSnapshot, Go, SupervisorInv
    <2>2. \A d \in Call : CallOK(d)'
      BY <1>18 DEF TakeSnapshot, Go, SupervisorInv, CallOK, Closed, Books, LogOpen, NoLog,
         ForegroundLog
    <2>3. \A d \in Call : ledger[d] # "none" => stage[d] # "new"
      BY DEF SupervisorInv, CallOK, Books
    <2>4. LedgersOK' BY <1>18, <2>3 DEF TakeSnapshot, Go, SupervisorInv, LedgersOK, Record
    <2>5. QED BY <2>1, <2>2, <2>4 DEF SupervisorInv
  <1>19. CASE SaveSnapshot(c)
    <2>1. SupervisorTypeOK' BY <1>19 DEF SaveSnapshot, Go, Fault, SupervisorInv
    <2>2. \A d \in Call : CallOK(d)'
      BY <1>19 DEF SaveSnapshot, Go, SupervisorInv, CallOK, Closed, Books, LogOpen, NoLog,
         ForegroundLog
    <2>3. LedgersOK'
      BY <1>19 DEF SaveSnapshot, Go, Fault, SupervisorInv, LedgersOK, NoLedger, Record
    <2>4. QED BY <2>1, <2>2, <2>3 DEF SupervisorInv
  <1>20. QED
    BY <1>1, <1>2, <1>3, <1>4, <1>5, <1>6, <1>7, <1>8, <1>9, <1>10, <1>11, <1>12, <1>13,
       <1>14, <1>15, <1>16, <1>17, <1>18, <1>19 DEF Supervise

(* A restart loses the tasks and keeps the books: what the saved ledger      *)
(* shows as running is invalidated.                                          *)
LEMMA RestartKeeps == SupervisorInv /\ Restart => SupervisorInv'
  <1> SUFFICES ASSUME SupervisorInv, Restart PROVE SupervisorInv'
    OBVIOUS
  <1> USE FaultAssumption DEF Stages, Outcomes, Results, Ends, logVars
  <1>1. \A c \in Call : Restored[c] \in Record /\ ~Live(Restored[c])
    BY DEF SupervisorInv, LedgersOK, Restored, Live, Record
  <1>2. SupervisorTypeOK'
    <2>1. ledger' \in [Call -> Record]
      BY <1>1 DEF Restart, Restored
    <2>2. /\ stage' \in [Call -> Stages] /\ faults' \in 0 .. MaxFaults
          /\ body' \in [Call -> Results \cup {"none", "running", "taken", "detached"}]
          /\ outcome' \in [Call -> Outcomes \cup {"none"}]
      BY DEF Restart, Fault, SupervisorInv, SupervisorTypeOK
    <2>3. token' \subseteq Call /\ cancelled' \in BOOLEAN
          /\ UNCHANGED <<answer, receipt, announced, logFile, copies>>
      BY DEF Restart
    <2>4. QED BY <2>1, <2>2, <2>3 DEF SupervisorInv, SupervisorTypeOK, Record
  <1>3. LedgersOK'
    BY DEF Restart, SupervisorInv, LedgersOK, NoLedger, Record
  <1>4. ASSUME NEW c \in Call, stage[c] = "new" PROVE CallOK(c)'
    <2>1. Restored[c] = "none"
      BY <1>4 DEF SupervisorInv, LedgersOK, Restored, Live
    <2>2. QED
      BY <1>4, <2>1 DEF Restart, SupervisorInv, SupervisorTypeOK, CallOK, Books, NoLog
  <1>5. ASSUME NEW c \in Call, stage[c] # "new" PROVE CallOK(c)'
    BY <1>1, <1>5 DEF Restart, SupervisorInv, SupervisorTypeOK, CallOK, Closed, Books,
       NoLog,
       Foreground, Driving, LogOpen, ForegroundLog
  <1>6. QED BY <1>2, <1>3, <1>4, <1>5 DEF SupervisorInv

(* The deadline of the run drops the foreground waits: no answer and no end. *)
LEMMA DropRoundKeeps == SupervisorInv /\ RoundDropped => SupervisorInv'
  <1> SUFFICES ASSUME SupervisorInv, RoundDropped PROVE SupervisorInv'
    OBVIOUS
  <1>1. UNCHANGED <<answer, cancelled, receipt, ledger, announced, logFile, copies,
                    snapshot, saved, faults>>
    BY DEF RoundDropped, bookVars, logVars, diskVars
  <1>2. \A c \in Call : IF stage[c] \in Foreground
                        THEN stage'[c] = "dropped"
                        ELSE stage'[c] = stage[c] /\ outcome'[c] = outcome[c]
    BY DEF RoundDropped
  <1>3. SupervisorTypeOK'
    <2>1. stage' \in [Call -> Stages] /\ outcome' \in [Call -> Outcomes \cup {"none"}]
      BY DEF RoundDropped, SupervisorInv, SupervisorTypeOK, Stages
    <2>2. body' \in [Call -> Results \cup {"none", "running", "taken", "detached"}]
      BY DEF RoundDropped, SupervisorInv, SupervisorTypeOK
    <2>3. token' \subseteq Call
      BY DEF RoundDropped, SupervisorInv, SupervisorTypeOK
    <2>4. QED BY <1>1, <2>1, <2>2, <2>3 DEF SupervisorInv, SupervisorTypeOK
  <1>4. LedgersOK'
    BY <1>1, <1>2 DEF SupervisorInv, LedgersOK
  <1>5. ASSUME NEW c \in Call, stage[c] \notin Foreground PROVE CallOK(c)'
    BY <1>1, <1>2, <1>5, SameKeeps DEF SupervisorInv, Same
  <1>6. ASSUME NEW c \in Call, stage[c] \in Foreground PROVE CallOK(c)'
    BY <1>1, <1>2, <1>6 DEF SupervisorInv, CallOK, Foreground, Books, Outcomes, Results
  <1>7. QED BY <1>3, <1>4, <1>5, <1>6 DEF SupervisorInv

(* Every step keeps the invariant. *)
LEMMA NextKeeps == SupervisorInv /\ [Next]_vars => SupervisorInv'
  <1>1. ASSUME SupervisorInv, Cancel \/ UNCHANGED vars PROVE SupervisorInv'
    <2>1. UNCHANGED <<stage, answer, body, token, outcome, bookVars, logVars, diskVars, faults>>
          /\ cancelled' \in {cancelled, TRUE}
      BY <1>1 DEF Cancel, vars, callVars
    <2>2. SupervisorTypeOK' /\ LedgersOK'
      BY <1>1, <2>1 DEF SupervisorInv, SupervisorTypeOK, LedgersOK, bookVars, logVars,
         diskVars
    <2>3. \A c \in Call : Same(c)
      BY <2>1 DEF Same, bookVars, logVars
    <2>4. QED BY <1>1, <2>2, <2>3, SameKeeps DEF SupervisorInv
  <1>2. QED BY <1>1, CallKeeps, DropRoundKeeps, RestartKeeps DEF Next

(* Nothing has been dispatched at first. *)
LEMMA InitHolds == Init => SupervisorInv
  <1> SUFFICES ASSUME Init PROVE SupervisorInv
    OBVIOUS
  <1>1. SupervisorTypeOK
    <2>1. faults \in 0 .. MaxFaults BY FaultAssumption DEF Init
    <2>2. QED BY <2>1 DEF Init, SupervisorTypeOK, NoLedger, Stages
  <1>2. LedgersOK
    BY DEF Init, LedgersOK, NoLedger, Record
  <1>3. \A c \in Call : CallOK(c)
    BY DEF Init, CallOK, Books, NoLog, NoLedger
  <1>4. QED BY <1>1, <1>2, <1>3 DEF SupervisorInv

(* However the end of a body, the deadline, the threshold, a stop, a        *)
(* cancellation, the deadline of the run, failed writes and restarts fall   *)
(* together: the log of an ended call holds its output once, if it has any; *)
(* what the placeholder promised and what the ledger shows as running has a *)
(* task that ends it, except where a promotion failed or was dropped; and   *)
(* receipt and record of a call tell the same end.                          *)
THEOREM SupervisorCorrect == Spec => [](SupervisorOK /\ SomeoneFinishes /\ BooksAgree)
  BY InitHolds, NextKeeps, InvImplies, PTL DEF Spec
-----------------------------------------------------------------------------
(***************************************************************************)
(* Completions reach the model.  The invariant adds to the types where a   *)
(* run has its pipeline and is registered (RunOK), what the notifier of a  *)
(* process holds at each of its stages (NotifierOK), that whatever the     *)
(* last injected entry named is told or about to be (ShownOK), and, for    *)
(* the end of a run, that an entry which outlives the drained keys is in   *)
(* one of the books (DrainOK).                                             *)
(***************************************************************************)

WithPipeline == RunPhases \cup {"clear", "drain", "unmark", "drop"}

RunOK ==
    /\ active <=> phase \in RunPhases \cup {"clear"}
    /\ pipeline <=> phase \in WithPipeline
    /\ keys # {} => phase \in {"startMark", "setup", "unmark"}
    /\ lastShown \subseteq Process
    /\ ~pipeline => queue = <<>> /\ pending = {} /\ lastShown = {}

NotifierOK(p) ==
    /\ held[p] # {} <=> notifier[p] \in {"mark", "push"}
    /\ notifier[p] \in {"peek", "mark", "push"} => target[p] # "none"
    /\ target[p] = "live" => pipeline

ShownOK == phase \in RunPhases => lastShown \subseteq pending \cup told

Held == UNION {held[p] : p \in Process}

DrainOK ==
    /\ phase = "unmark" => Queued \subseteq keys \cup told \cup lost
    /\ phase = "drop" => Queued \cap notified \subseteq told \cup lost \cup Held

NotifyInv ==
    /\ NotifyTypeOK /\ RunOK /\ ShownOK /\ DrainOK /\ DroppedOnlyThere
    /\ \A p \in Process : NotifierOK(p)
-----------------------------------------------------------------------------
(* What is in no queue, in a queue of one entry, and in one that grew. *)
LEMMA NoEntries == UNION Range(<<>>) = {}
  BY DEF Range

LEMMA OneEntry == ASSUME NEW entry PROVE UNION Range(<<entry>>) = entry
  <1>1. DOMAIN <<entry>> = {1} /\ <<entry>>[1] = entry OBVIOUS
  <1>2. Range(<<entry>>) = {entry} BY <1>1 DEF Range
  <1>3. QED BY <1>2

LEMMA OneMoreEntry ==
  ASSUME NEW S, NEW q \in Seq(S), NEW entry
  PROVE  UNION Range(Append(q, entry)) = (UNION Range(q)) \cup entry
  <1> DEFINE more == Append(q, entry)
  <1>1. DOMAIN more = DOMAIN q \cup {Len(q) + 1} /\ more[Len(q) + 1] = entry
        /\ \A i \in DOMAIN q : more[i] = q[i]
    OBVIOUS
  <1>2. Range(more) = Range(q) \cup {entry} BY <1>1 DEF Range
  <1>3. QED BY <1>2

(* Where a completion marked as delivered may be found, as one set. *)
InBooks == told \cup lost \cup Queued \cup pending \cup keys \cup Held

LEMMA BooksHoldNotified == DroppedOnlyThere <=> notified \subseteq InBooks
  BY DEF DroppedOnlyThere, OnItsWay, InBooks, Held

LEMMA BooksHoldNotifiedAfter == DroppedOnlyThere' <=> notified' \subseteq InBooks'
  BY DEF DroppedOnlyThere, OnItsWay, InBooks, Held

(* The deferred entries make a queue again. *)
LEMMA DeferredQueue ==
  ASSUME NotifyTypeOK, DeferInjection
  PROVE  /\ queue' \in Seq((SUBSET Process) \ {{}})
         /\ Range(queue') = {queue[n] : n \in Deferred}
  <1>1. DOMAIN queue = 1 .. Len(queue) /\ Len(queue) \in Nat
    BY DEF NotifyTypeOK
  <1>2. IsFiniteSet(1 .. Len(queue)) BY <1>1, FS_Interval
  <1>3. Deferred \subseteq 1 .. Len(queue) BY <1>1 DEF Deferred, Fresh
  <1>4. IsFiniteSet(Deferred) BY <1>2, <1>3, FS_Subset
  <1>5. Cardinality(Deferred) \in Nat BY <1>4, FS_CardinalityType
  <1>6. PICK f \in [1 .. Cardinality(Deferred) -> Deferred] :
            Range(f) = Deferred /\ queue' = [i \in DOMAIN f |-> queue[f[i]]]
    BY DEF DeferInjection
  <1>7. \A n \in Deferred : queue[n] \in (SUBSET Process) \ {{}}
    BY <1>1, <1>3 DEF NotifyTypeOK
  <1>8. queue' \in [1 .. Cardinality(Deferred) -> (SUBSET Process) \ {{}}]
    BY <1>6, <1>7
  <1>9. queue' \in Seq((SUBSET Process) \ {{}})
    BY <1>5, <1>8
  <1>10. Range(queue') = {queue[n] : n \in Deferred}
    BY <1>6 DEF Range
  <1>11. QED BY <1>9, <1>10

(* What a window does to the pipeline: an entry that leaves the queue is    *)
(* injected now or is the one injected last.                                *)
LEMMA InjectKeeps ==
  ASSUME NotifyTypeOK, RunOK, ShownOK, phase \in RunPhases, Inject
  PROVE  /\ queue' \in Seq((SUBSET Process) \ {{}})
         /\ pending' \subseteq Process /\ pending \subseteq pending'
         /\ lastShown' \subseteq pending' \cup told
         /\ lastShown' \subseteq Process
         /\ Queued \subseteq Queued' \cup pending' \cup told
  <1>1. \A n \in DOMAIN queue : queue[n] \subseteq Process
    BY DEF NotifyTypeOK
  <1>2. Shown \subseteq DOMAIN queue /\ Fresh \subseteq DOMAIN queue
    BY DEF Shown, Fresh
  <1>3. pending' = pending \cup UNION {queue[n] : n \in Shown}
    BY DEF Inject, ConfirmInjection
  <1>4. pending' \subseteq Process /\ pending \subseteq pending'
    BY <1>1, <1>2, <1>3 DEF NotifyTypeOK
  <1>5. lastShown' \subseteq pending' \cup told /\ lastShown' \subseteq Process
    <2>1. CASE UNCHANGED lastShown BY <1>4, <2>1 DEF RunOK, ShownOK
    <2>2. CASE \E n \in Shown : lastShown' = queue[n] BY <1>1, <1>2, <1>3, <2>2
    <2>3. QED BY <2>1, <2>2 DEF Inject, ConfirmInjection
  <1>6. queue' \in Seq((SUBSET Process) \ {{}}) /\ Range(queue') = {queue[n] : n \in Deferred}
    BY DeferredQueue DEF Inject
  <1>7. ASSUME NEW p \in Queued PROVE p \in Queued' \cup pending' \cup told
    <2>1. PICK n \in DOMAIN queue : p \in queue[n] BY <1>7 DEF Queued, Range
    <2>2. CASE n \notin Fresh
      <3>1. queue[n] = lastShown BY <2>2 DEF Fresh
      <3>2. QED BY <2>1, <3>1, <1>4 DEF ShownOK
    <2>3. CASE n \in Shown BY <2>1, <2>3, <1>3
    <2>4. CASE n \in Deferred
      <3>1. queue[n] \in Range(queue') BY <2>4, <1>6
      <3>2. QED BY <2>1, <3>1 DEF Queued
    <2>5. QED BY <2>2, <2>3, <2>4 DEF Deferred
  <1>8. QED BY <1>4, <1>5, <1>6, <1>7

(* A step of the engine leaves the run, the notifiers and their books alone, *)
(* so the pipeline and the history are all there is to look at.              *)
LEMMA EngineKeeps ==
  ASSUME NotifyInv, phase \in RunPhases, phase' \in RunPhases,
         UNCHANGED <<noteVars, notified, active, pipeline, keys, wakeVars>>,
         retried' \in BOOLEAN, queue' \in Seq((SUBSET Process) \ {{}}),
         pending' \subseteq Process, told' \subseteq Process, lost' \subseteq Process,
         lastShown' \subseteq Process, lastShown' \subseteq pending' \cup told',
         told \subseteq told', lost \subseteq lost', pending \subseteq pending' \cup told',
         Queued \subseteq Queued' \cup pending' \cup told' \cup lost'
  PROVE  NotifyInv'
  <1> USE DEF RunPhases, SessionPhases
  <1>1. pipeline /\ active BY DEF NotifyInv, RunOK, WithPipeline
  <1>2. NotifyTypeOK'
    <2>1. {retried, active, pipeline}' \subseteq BOOLEAN
      BY DEF NotifyInv, NotifyTypeOK
    <2>2. pipeline' /\ phase' \in RunPhases \cup SessionPhases BY <1>1
    <2>3. QED BY <2>1, <2>2 DEF NotifyInv, NotifyTypeOK, noteVars, wakeVars
  <1>3. RunOK' BY <1>1 DEF NotifyInv, RunOK, WithPipeline
  <1>4. ShownOK' BY DEF ShownOK
  <1>5. DrainOK' BY DEF DrainOK
  <1>6. DroppedOnlyThere'
    <2>1. Held' = Held BY DEF Held, noteVars
    <2>2. InBooks \subseteq InBooks' BY <2>1 DEF InBooks
    <2>3. notified' \subseteq InBooks' BY <2>2, BooksHoldNotified DEF NotifyInv
    <2>4. QED BY <2>3, BooksHoldNotifiedAfter
  <1>7. \A p \in Process : NotifierOK(p)' BY DEF NotifyInv, NotifierOK, noteVars
  <1>8. QED BY <1>2, <1>3, <1>4, <1>5, <1>6, <1>7 DEF NotifyInv

(* The engine: windows, compactions, and the ends of a step. *)
LEMMA EngineStepKeeps == NotifyInv /\ (Engine \/ StepCancelled) => NotifyInv'
  <1> SUFFICES ASSUME NotifyInv, Engine \/ StepCancelled PROVE NotifyInv'
    OBVIOUS
  <1> DEFINE quiet == UNCHANGED <<noteVars, notified, active, pipeline, keys, wakeVars>>
  <1>1. quiet /\ phase \in RunPhases /\ phase' \in RunPhases
    BY DEF Engine, BuildWindow, DecideCompaction, CompactCommitted, CompactSkipped, CheckUsage,
       RebuildWindow, StepCompletes, ContextTooLong, StepCancelled, EngineStep, RunPhases
  <1>2. retried' \in BOOLEAN
    <2>1. retried \in BOOLEAN BY DEF NotifyInv, NotifyTypeOK
    <2>2. retried' \in {retried, TRUE, FALSE}
      BY DEF Engine, BuildWindow, DecideCompaction, CompactCommitted, CompactSkipped, CheckUsage,
         RebuildWindow, StepCompletes, ContextTooLong, StepCancelled, pipeVars
    <2>3. QED BY <2>1, <2>2
  <1>3. NotifyTypeOK /\ RunOK /\ ShownOK BY DEF NotifyInv
  <1>4. {pending, told, lost, lastShown} \subseteq SUBSET Process
        /\ queue \in Seq((SUBSET Process) \ {{}}) /\ lastShown \subseteq pending \cup told
    BY <1>1, <1>3 DEF NotifyTypeOK, RunOK, ShownOK
  <1>5. CASE Inject /\ UNCHANGED <<told, lost>>
    <2>1. /\ queue' \in Seq((SUBSET Process) \ {{}})
          /\ pending' \subseteq Process /\ pending \subseteq pending'
          /\ lastShown' \subseteq pending' \cup told
          /\ lastShown' \subseteq Process
          /\ Queued \subseteq Queued' \cup pending' \cup told
      BY <1>1, <1>3, <1>5, InjectKeeps
    <2>2. told' = told /\ lost' = lost BY <1>5
    <2>3. QED BY <1>1, <1>2, <1>4, <2>1, <2>2, EngineKeeps
  <1>6. CASE CompactCommitted
    <2>1. queue' = <<>> /\ lastShown' \in {lastShown, {}} /\ UNCHANGED <<pending, told>>
          /\ lost' = lost \cup (Queued \ told)
      BY <1>6 DEF CompactCommitted, Lose
    <2>2. Queued \subseteq Process BY <1>4 DEF Queued, Range
    <2>3. Queued \subseteq told' \cup lost' BY <2>1
    <2>4. queue' \in Seq((SUBSET Process) \ {{}}) BY <2>1
    <2>5. lost' \subseteq Process /\ lastShown' \subseteq Process
          /\ lastShown' \subseteq pending' \cup told'
      BY <1>4, <2>1, <2>2
    <2>6. QED BY <1>1, <1>2, <1>4, <2>1, <2>3, <2>4, <2>5, EngineKeeps
  <1>7. CASE UNCHANGED <<pipeVars, told, lost>>
    <2>1. UNCHANGED <<queue, lastShown, pending, told, lost>> /\ Queued' = Queued
      BY <1>7 DEF pipeVars, Queued
    <2>2. QED BY <1>1, <1>2, <1>4, <2>1, EngineKeeps
  <1>8. CASE told' = told \cup pending /\ pending' = {} /\ UNCHANGED <<queue, lastShown, lost>>
    <2>1. Queued' = Queued BY <1>8 DEF Queued
    <2>2. QED BY <1>1, <1>2, <1>4, <1>8, <2>1, EngineKeeps
  <1>9. QED
    BY <1>5, <1>6, <1>7, <1>8 DEF Engine, BuildWindow, DecideCompaction, CompactSkipped,
       CheckUsage, RebuildWindow, StepCompletes, ContextTooLong, StepCancelled, pipeVars

(* A failed append: what it took out of the pipeline is lost.                *)
LEMMA AppendFailsKeeps == NotifyInv /\ AppendFails => NotifyInv'
  <1> SUFFICES ASSUME NotifyInv, AppendFails PROVE NotifyInv'
    OBVIOUS
  <1> USE DEF RunPhases, SessionPhases, WithPipeline
  <1>1. NotifyTypeOK /\ RunOK BY DEF NotifyInv
  <1>2. /\ phase \in RunPhases /\ phase' = "clear"
        /\ pending' = {} /\ lost' = lost \cup (pending \ told)
        /\ UNCHANGED <<noteVars, notified, active, pipeline, keys, wakeVars, queue,
                       lastShown, retried, told>>
    BY DEF AppendFails, EngineStep, Lose
  <1>3. NotifyTypeOK'
    <2>1. {retried, active, pipeline}' \subseteq BOOLEAN BY <1>1, <1>2 DEF NotifyTypeOK
    <2>2. lost' \subseteq Process BY <1>1, <1>2 DEF NotifyTypeOK
    <2>3. QED BY <1>1, <1>2, <2>1, <2>2 DEF NotifyTypeOK, noteVars, wakeVars
  <1>4. RunOK' BY <1>1, <1>2 DEF RunOK
  <1>5. ShownOK' /\ DrainOK' BY <1>2 DEF ShownOK, DrainOK
  <1>6. DroppedOnlyThere'
    <2>1. Held' = Held /\ Queued' = Queued BY <1>2 DEF Held, Queued, noteVars
    <2>2. InBooks \subseteq InBooks' BY <1>2, <2>1 DEF InBooks
    <2>3. notified' \subseteq InBooks' BY <1>2, <2>2, BooksHoldNotified DEF NotifyInv
    <2>4. QED BY <2>3, BooksHoldNotifiedAfter
  <1>7. \A p \in Process : NotifierOK(p)' BY <1>2 DEF NotifyInv, NotifierOK, noteVars
  <1>8. QED BY <1>3, <1>4, <1>5, <1>6, <1>7 DEF NotifyInv

(* A step of a notifier that changes neither queue nor history: the books    *)
(* may only gain completions, and those that become notified are held.       *)
LEMMA QuietNotifierKeeps ==
  ASSUME NotifyInv, NEW p \in Process, NEW next \in NotifierStages,
         UNCHANGED <<pipeVars, runVars, told, lost>>,
         notifier' = [notifier EXCEPT ![p] = next],
         signals' \in Nat, signaled' \subseteq Process, notified' \subseteq Process,
         held' \in [Process -> SUBSET Process],
         target' \in [Process -> {"none", "live", "gone"}],
         Held \subseteq Held', notified' \subseteq notified \cup Held',
         NotifierOK(p)', \A q \in Process : q # p => held'[q] = held[q] /\ target'[q] = target[q]
  PROVE  NotifyInv'
  <1>1. UNCHANGED <<queue, lastShown, pending, phase, retried, active, pipeline, keys, Queued>>
    BY DEF pipeVars, runVars, Queued
  <1>2. NotifyTypeOK'
    <2>1. {retried, active, pipeline}' \subseteq BOOLEAN BY <1>1 DEF NotifyInv, NotifyTypeOK
    <2>2. notifier' \in [Process -> NotifierStages] BY DEF NotifyInv, NotifyTypeOK
    <2>3. QED BY <1>1, <2>1, <2>2 DEF NotifyInv, NotifyTypeOK
  <1>3. RunOK' /\ ShownOK' BY <1>1 DEF NotifyInv, RunOK, ShownOK
  <1>4. DrainOK'
    <2>1. ASSUME phase = "drop" PROVE Queued \cap notified' \subseteq told \cup lost \cup Held'
      BY <2>1 DEF NotifyInv, DrainOK
    <2>2. QED BY <1>1, <2>1 DEF NotifyInv, DrainOK
  <1>5. DroppedOnlyThere'
    <2>1. InBooks \subseteq InBooks' /\ Held' \subseteq InBooks' BY <1>1 DEF InBooks
    <2>2. notified' \subseteq InBooks' BY <2>1, BooksHoldNotified DEF NotifyInv
    <2>3. QED BY <2>2, BooksHoldNotifiedAfter
  <1>6. \A q \in Process : NotifierOK(q)'
    <2>1. ASSUME NEW q \in Process, q # p PROVE NotifierOK(q)'
      BY <1>1, <2>1 DEF NotifyInv, NotifyTypeOK, NotifierOK
    <2>2. QED BY <2>1
  <1>7. QED BY <1>2, <1>3, <1>4, <1>5, <1>6 DEF NotifyInv

(* A completion is announced, routed, peeked and marked. *)
LEMMA AnnounceKeeps ==
  ASSUME NotifyInv, NEW p \in Process,
         Completes(p) \/ RecordRoute(p) \/ NotifyRoute(p) \/ PeekFact(p) \/ MarkFact(p)
            \/ SignalWakeup(p)
  PROVE  NotifyInv'
  <1> USE DEF NotifierStages, NotifierGoes
  <1>1. NotifierOK(p) /\ NotifyTypeOK /\ RunOK BY DEF NotifyInv
  <1>2. /\ signals \in Nat /\ signaled \subseteq Process /\ notified \subseteq Process
        /\ held \in [Process -> SUBSET Process]
        /\ target \in [Process -> {"none", "live", "gone"}]
        /\ notifier \in [Process -> NotifierStages]
    BY <1>1 DEF NotifyTypeOK
  <1>3. CASE Completes(p) \/ RecordRoute(p) \/ SignalWakeup(p)
    <2>1. UNCHANGED <<held, target, notified, pipeVars, runVars, told, lost>>
      BY <1>3 DEF Completes, RecordRoute, SignalWakeup, wakeVars
    <2>2. signals' \in Nat /\ signaled' \subseteq Process
      BY <1>2, <1>3 DEF Completes, RecordRoute, SignalWakeup, wakeVars
    <2>3. PICK next \in {"record", "route", "done"} :
              notifier' = [notifier EXCEPT ![p] = next]
      BY <1>3 DEF Completes, RecordRoute, SignalWakeup
    <2>4. notifier[p] \in {"running", "record", "wakeup"}
      BY <1>3 DEF Completes, RecordRoute, SignalWakeup
    <2>5. NotifierOK(p)'
      BY <1>1, <1>2, <2>1, <2>3, <2>4 DEF NotifierOK, runVars
    <2>6. Held' = Held BY <2>1 DEF Held
    <2>7. QED BY <1>2, <2>1, <2>2, <2>3, <2>5, <2>6, QuietNotifierKeeps
  <1>4. CASE NotifyRoute(p)
    <2>1. UNCHANGED <<held, notified, pipeVars, runVars, wakeVars, told, lost>>
      BY <1>4 DEF NotifyRoute
    <2>2. PICK next \in {"peek", "wakeup"} : notifier' = [notifier EXCEPT ![p] = next]
             /\ next = IF active THEN "peek" ELSE "wakeup"
      BY <1>4 DEF NotifyRoute
    <2>3. target' = [target EXCEPT ![p] = IF active THEN "live" ELSE "none"]
          /\ notifier[p] = "route"
      BY <1>4 DEF NotifyRoute
    <2>4. target' \in [Process -> {"none", "live", "gone"}] BY <1>2, <2>3
    <2>5. active => pipeline BY <1>1 DEF NotifyTypeOK
    <2>6. NotifierOK(p)'
      <3>1. held[p] = {} BY <1>1, <2>3 DEF NotifierOK
      <3>2. CASE active
        <4>1. target'[p] = "live" /\ notifier'[p] = "peek" BY <1>2, <2>2, <2>3, <3>2
        <4>2. pipeline' BY <2>1, <2>5, <3>2 DEF runVars
        <4>3. QED BY <2>1, <3>1, <4>1, <4>2 DEF NotifierOK
      <3>3. CASE ~active
        <4>1. target'[p] = "none" /\ notifier'[p] = "wakeup" BY <1>2, <2>2, <2>3, <3>3
        <4>2. QED BY <2>1, <3>1, <4>1 DEF NotifierOK
      <3>4. QED BY <3>2, <3>3
    <2>7. Held' = Held BY <2>1 DEF Held
    <2>8. \A q \in Process : q # p => target'[q] = target[q] BY <1>2, <2>3
    <2>9. QED BY <1>2, <2>1, <2>2, <2>4, <2>6, <2>7, <2>8, QuietNotifierKeeps DEF wakeVars
  <1>5. CASE PeekFact(p)
    <2>1. UNCHANGED <<notified, pipeVars, runVars, wakeVars, told, lost>>
          /\ notifier[p] = "peek" /\ held' = [held EXCEPT ![p] = Unnotified]
      BY <1>5 DEF PeekFact
    <2>2. PICK next \in {"done", "mark"} : notifier' = [notifier EXCEPT ![p] = next]
             /\ next = IF Unnotified = {} THEN "done" ELSE "mark"
      BY <1>5 DEF PeekFact
    <2>3. target' = [target EXCEPT ![p] = IF Unnotified = {} THEN "none" ELSE target[p]]
      BY <1>5 DEF PeekFact
    <2>4. Unnotified \subseteq Process BY DEF Unnotified
    <2>5. held' \in [Process -> SUBSET Process]
          /\ target' \in [Process -> {"none", "live", "gone"}]
      BY <1>2, <2>1, <2>3, <2>4
    <2>6. NotifierOK(p)'
      BY <1>1, <1>2, <2>1, <2>2, <2>3 DEF NotifierOK, runVars
    <2>7. Held \subseteq Held'
      <3>1. held[p] = {} BY <1>1, <2>1 DEF NotifierOK
      <3>2. \A q \in Process : held[q] \subseteq held'[q] BY <1>2, <2>1, <3>1
      <3>3. QED BY <3>2 DEF Held
    <2>8. \A q \in Process : q # p => target'[q] = target[q] /\ held'[q] = held[q]
      BY <1>2, <2>1, <2>3
    <2>9. QED BY <1>2, <2>1, <2>2, <2>5, <2>6, <2>7, <2>8, QuietNotifierKeeps DEF wakeVars
  <1>6. CASE MarkFact(p)
    <2>1. UNCHANGED <<held, target, pipeVars, runVars, wakeVars, told, lost>>
          /\ notified' = notified \cup held[p] /\ notifier[p] = "mark"
          /\ notifier' = [notifier EXCEPT ![p] = "push"]
      BY <1>6 DEF MarkFact
    <2>2. Held' = Held /\ held[p] \subseteq Held BY <2>1 DEF Held
    <2>3. notified' \subseteq Process BY <1>2, <2>1
    <2>4. NotifierOK(p)' BY <1>1, <1>2, <2>1 DEF NotifierOK, runVars
    <2>5. QED BY <1>2, <2>1, <2>2, <2>3, <2>4, QuietNotifierKeeps DEF wakeVars
  <1>7. QED BY <1>3, <1>4, <1>5, <1>6

(* What the notifier held is an entry of the pipeline, or lost with it. *)
LEMMA PushKeeps == ASSUME NotifyInv, NEW p \in Process, PushFact(p) PROVE NotifyInv'
  <1>1. NotifierOK(p) /\ NotifyTypeOK /\ RunOK /\ ShownOK /\ DrainOK BY DEF NotifyInv
  <1>2. /\ UNCHANGED <<notified, lastShown, pending, runVars, wakeVars, told>>
        /\ notifier[p] = "push" /\ notifier' = [notifier EXCEPT ![p] = "done"]
        /\ held' = [held EXCEPT ![p] = {}] /\ target' = [target EXCEPT ![p] = "none"]
        /\ queue' = IF target[p] = "live" THEN Append(queue, held[p]) ELSE queue
        /\ lost' = IF target[p] = "gone" \/ phase \in {"unmark", "drop"}
                   THEN lost \cup (held[p] \ told) ELSE lost
    BY DEF PushFact, NotifierGoes, Lose
  <1>3. /\ held \in [Process -> SUBSET Process]
        /\ target \in [Process -> {"none", "live", "gone"}]
        /\ notifier \in [Process -> NotifierStages]
        /\ queue \in Seq((SUBSET Process) \ {{}})
    BY <1>1 DEF NotifyTypeOK
  <1>4. held[p] # {} /\ target[p] \in {"live", "gone"} /\ (target[p] = "live" => pipeline)
    BY <1>1, <1>2, <1>3 DEF NotifierOK
  <1>5. queue' \in Seq((SUBSET Process) \ {{}})
    BY <1>2, <1>3, <1>4
  <1>6. Queued' = IF target[p] = "live" THEN Queued \cup held[p] ELSE Queued
    BY <1>2, <1>3, OneMoreEntry DEF Queued
  <1>7. lost \subseteq lost' /\ lost' \subseteq Process /\ held[p] \subseteq Process
    BY <1>1, <1>2, <1>3 DEF NotifyTypeOK
  <1>8. NotifyTypeOK'
    <2>1. {retried, active, pipeline}' \subseteq BOOLEAN /\ UNCHANGED <<phase, keys>>
      BY <1>1, <1>2 DEF NotifyTypeOK, runVars
    <2>2. /\ notifier' \in [Process -> NotifierStages]
          /\ held' \in [Process -> SUBSET Process]
          /\ target' \in [Process -> {"none", "live", "gone"}]
      BY <1>2, <1>3 DEF NotifierStages
    <2>3. ~pipeline' => queue' = <<>> /\ pending' = {}
      BY <1>1, <1>2, <1>4 DEF NotifyTypeOK, runVars
    <2>4. QED BY <1>1, <1>2, <1>5, <1>7, <2>1, <2>2, <2>3 DEF NotifyTypeOK, wakeVars, runVars
  <1>9. RunOK'
    BY <1>1, <1>2, <1>4 DEF RunOK, runVars
  <1>10. ShownOK' BY <1>1, <1>2 DEF ShownOK, runVars
  <1>11. ASSUME NEW x \in held[p] PROVE x \in told \cup lost' \cup Queued'
    BY <1>2, <1>4, <1>6
  <1>12. ASSUME NEW x \in Held PROVE x \in Held' \cup held[p]
    <2>1. PICK q \in Process : x \in held[q] BY <1>12 DEF Held
    <2>2. CASE q = p BY <2>1, <2>2
    <2>3. CASE q # p
      <3>1. held'[q] = held[q] BY <1>2, <1>3, <2>3
      <3>2. QED BY <2>1, <3>1 DEF Held
    <2>4. QED BY <2>2, <2>3
  <1>13. DrainOK'
    <2>1. phase' = phase /\ keys' = keys /\ notified' = notified /\ told' = told
      BY <1>2 DEF runVars
    <2>2. phase \in {"unmark", "drop"} => held[p] \subseteq told \cup lost' BY <1>2
    <2>3. Queued' \subseteq Queued \cup held[p] BY <1>6
    <2>4. phase = "unmark" => Queued' \subseteq keys \cup told \cup lost'
      BY <1>1, <1>7, <2>2, <2>3 DEF DrainOK
    <2>5. phase = "drop" => Queued' \cap notified \subseteq told \cup lost' \cup Held'
      BY <1>1, <1>7, <1>12, <2>2, <2>3 DEF DrainOK
    <2>6. QED BY <2>1, <2>4, <2>5 DEF DrainOK
  <1>14. DroppedOnlyThere'
    <2>1. InBooks \subseteq InBooks'
      BY <1>2, <1>6, <1>7, <1>11, <1>12 DEF InBooks, runVars
    <2>2. notified' \subseteq InBooks' BY <1>2, <2>1, BooksHoldNotified DEF NotifyInv
    <2>3. QED BY <2>2, BooksHoldNotifiedAfter
  <1>15. ASSUME NEW q \in Process PROVE NotifierOK(q)'
    <2>1. NotifierOK(q) BY DEF NotifyInv
    <2>2. pipeline' = pipeline BY <1>2 DEF runVars
    <2>3. CASE q = p
      <3>1. held'[q] = {} /\ target'[q] = "none" /\ notifier'[q] = "done" BY <1>2, <1>3, <2>3
      <3>2. QED BY <3>1 DEF NotifierOK
    <2>4. CASE q # p
      <3>1. held'[q] = held[q] /\ target'[q] = target[q] /\ notifier'[q] = notifier[q]
        BY <1>2, <1>3, <2>4
      <3>2. QED BY <2>1, <2>2, <3>1 DEF NotifierOK
    <2>5. QED BY <2>3, <2>4
  <1>16. QED BY <1>8, <1>9, <1>10, <1>13, <1>14, <1>15 DEF NotifyInv

(* The session driver before and after a run: the pipeline is not touched,   *)
(* and no notifier is.                                                       *)
LEMMA SessionKeeps ==
  ASSUME NotifyInv, UNCHANGED <<notifier, held, target, pipeVars, retried, told, lost>>,
         phase' \in SessionPhases, pipeline' = pipeline,
         active' = active \/ active' = FALSE,
         signals' \in Nat, signaled' \subseteq Process,
         keys' \subseteq Process, notified' \subseteq Process,
         active' <=> phase' \in RunPhases \cup {"clear"},
         pipeline' <=> phase' \in WithPipeline,
         keys' # {} => phase' \in {"startMark", "setup", "unmark"},
         DrainOK', DroppedOnlyThere'
  PROVE  NotifyInv'
  <1>1. UNCHANGED <<queue, lastShown, pending>> BY DEF pipeVars
  <1>2. NotifyTypeOK /\ RunOK /\ ShownOK BY DEF NotifyInv
  <1>3. NotifyTypeOK'
    <2>1. {retried, active, pipeline}' \subseteq BOOLEAN
      BY <1>2 DEF NotifyTypeOK
    <2>2. active' => pipeline'
      BY DEF WithPipeline
    <2>3. QED BY <1>1, <1>2, <2>1, <2>2 DEF NotifyTypeOK
  <1>4. RunOK' /\ ShownOK' BY <1>1, <1>2 DEF RunOK, ShownOK, RunPhases, SessionPhases
  <1>5. \A p \in Process : NotifierOK(p)' BY DEF NotifyInv, NotifierOK
  <1>6. QED BY <1>3, <1>4, <1>5 DEF NotifyInv

LEMMA DriverKeeps ==
  ASSUME NotifyInv,
         \/ UserInput \/ TakeSignal \/ StartPeek \/ StartMark
         \/ RunReturns \/ ClearActive \/ DrainKeys \/ MarkUnnotified \/ SignalStranded
  PROVE  NotifyInv'
  <1> USE DEF RunPhases, SessionPhases, WithPipeline, Session
  <1>1. NotifyTypeOK /\ RunOK /\ DrainOK BY DEF NotifyInv
  <1>2. /\ signals \in Nat /\ signaled \subseteq Process
        /\ keys \subseteq Process /\ notified \subseteq Process
        /\ phase \in RunPhases \cup SessionPhases
        /\ queue \in Seq((SUBSET Process) \ {{}})
    BY <1>1 DEF NotifyTypeOK
  <1>3. /\ active <=> phase \in RunPhases \cup {"clear"}
        /\ pipeline <=> phase \in WithPipeline
        /\ keys # {} => phase \in {"startMark", "setup", "unmark"}
    BY <1>1 DEF RunOK
  <1>4. Queued \subseteq Process /\ Unnotified \subseteq Process
    BY <1>2 DEF Queued, Range, Unnotified
  <1>5. UNCHANGED <<notifier, held, target, pipeVars, retried, told, lost, pipeline>>
    BY DEF UserInput, TakeSignal, StartPeek, StartMark, RunReturns, ClearActive, DrainKeys,
       MarkUnnotified, SignalStranded
  <1>6. UNCHANGED <<Queued, Held, told, lost, pending>>
    BY <1>5 DEF Queued, Held, pipeVars
  <1>7. notified \subseteq InBooks BY BooksHoldNotified DEF NotifyInv
  <1>8. CASE UserInput \/ TakeSignal \/ RunReturns \/ ClearActive \/ SignalStranded
    <2>1. notified' = notified /\ keys' = keys
      BY <1>8 DEF UserInput, TakeSignal, RunReturns, ClearActive, SignalStranded
    <2>2. signals' \in Nat /\ signaled' \subseteq Process
      BY <1>2, <1>4, <1>8 DEF UserInput, TakeSignal, RunReturns, ClearActive, SignalStranded,
         wakeVars
    <2>3. /\ phase \in {"idle", "clear", "signal"} \cup RunPhases
          /\ phase' \in {"idle", "start", "clear", "drain"}
      BY <1>8 DEF UserInput, TakeSignal, RunReturns, ClearActive, SignalStranded
    <2>4. keys = {} BY <1>3, <2>3
    <2>5. active' <=> phase' \in RunPhases \cup {"clear"}
      BY <1>3, <1>8 DEF UserInput, TakeSignal, RunReturns, ClearActive, SignalStranded
    <2>6. pipeline' <=> phase' \in WithPipeline
      BY <1>3, <1>5, <1>8 DEF UserInput, TakeSignal, RunReturns, ClearActive, SignalStranded
    <2>7. active' = active \/ active' = FALSE
      BY <1>8 DEF UserInput, TakeSignal, RunReturns, ClearActive, SignalStranded
    <2>8. DrainOK' BY <2>3 DEF DrainOK
    <2>9. DroppedOnlyThere'
      BY <1>6, <1>7, <2>1, BooksHoldNotifiedAfter DEF InBooks
    <2>10. QED BY <1>2, <1>5, <2>1, <2>2, <2>3, <2>4, <2>5, <2>6, <2>7, <2>8, <2>9, SessionKeeps
  <1>9. CASE StartPeek
    <2>1. /\ phase = "start" /\ phase' = "startMark" /\ keys' = Unnotified
          /\ UNCHANGED <<notified, active, wakeVars>>
      BY <1>9 DEF StartPeek
    <2>2. keys = {} BY <1>3, <2>1
    <2>3. DrainOK' BY <2>1 DEF DrainOK
    <2>4. DroppedOnlyThere'
      BY <1>6, <1>7, <2>1, <2>2, BooksHoldNotifiedAfter DEF InBooks
    <2>5. QED BY <1>2, <1>3, <1>4, <1>5, <2>1, <2>3, <2>4, SessionKeeps DEF wakeVars
  <1>10. CASE StartMark
    <2>1. /\ phase = "startMark" /\ phase' = "setup" /\ notified' = notified \cup keys
          /\ UNCHANGED <<keys, active, wakeVars>>
      BY <1>10 DEF StartMark
    <2>2. DrainOK' BY <2>1 DEF DrainOK
    <2>3. DroppedOnlyThere'
      BY <1>6, <1>7, <2>1, BooksHoldNotifiedAfter DEF InBooks
    <2>4. notified' \subseteq Process BY <1>2, <2>1
    <2>5. QED BY <1>2, <1>3, <1>5, <2>1, <2>2, <2>3, <2>4, SessionKeeps DEF wakeVars
  <1>11. CASE DrainKeys
    <2>1. /\ phase = "drain" /\ phase' = "unmark" /\ keys' = Queued
          /\ UNCHANGED <<notified, active, wakeVars>>
      BY <1>11 DEF DrainKeys
    <2>2. keys = {} BY <1>3, <2>1
    <2>3. DrainOK' BY <1>6, <2>1 DEF DrainOK
    <2>4. DroppedOnlyThere'
      BY <1>6, <1>7, <2>1, <2>2, BooksHoldNotifiedAfter DEF InBooks
    <2>5. QED BY <1>2, <1>3, <1>4, <1>5, <2>1, <2>3, <2>4, SessionKeeps DEF wakeVars
  <1>12. CASE MarkUnnotified
    <2>1. /\ phase = "unmark" /\ phase' = "drop" /\ notified' = notified \ keys /\ keys' = {}
          /\ UNCHANGED <<active, wakeVars>>
      BY <1>12 DEF MarkUnnotified
    <2>2. Queued \subseteq keys \cup told \cup lost BY <1>1, <2>1 DEF DrainOK
    <2>3. DrainOK' BY <1>6, <2>1, <2>2 DEF DrainOK
    <2>4. DroppedOnlyThere'
      BY <1>6, <1>7, <2>1, BooksHoldNotifiedAfter DEF InBooks
    <2>5. notified' \subseteq Process BY <1>2, <2>1
    <2>6. QED BY <1>2, <1>3, <1>5, <2>1, <2>3, <2>4, <2>5, SessionKeeps DEF wakeVars
  <1>13. QED BY <1>8, <1>9, <1>10, <1>11, <1>12

(* A run starts with what was peeked for it as the first entry. *)
LEMMA LaunchKeeps == NotifyInv /\ Launch => NotifyInv'
  <1> SUFFICES ASSUME NotifyInv, Launch PROVE NotifyInv'
    OBVIOUS
  <1> USE DEF RunPhases, SessionPhases, WithPipeline
  <1>1. NotifyTypeOK /\ RunOK /\ ShownOK BY DEF NotifyInv
  <1>2. /\ phase = "setup" /\ phase' = "step" /\ pipeline' = TRUE /\ active' = TRUE
        /\ queue' = IF keys = {} THEN <<>> ELSE <<keys>>
        /\ keys' = {}
        /\ UNCHANGED <<notifier, held, retried, told, notified, target, lastShown, pending,
                       wakeVars, lost>>
    BY DEF Launch, Session
  <1>3. keys \subseteq Process /\ queue = <<>>
    BY <1>1, <1>2 DEF NotifyTypeOK, RunOK
  <1>4. queue' \in Seq((SUBSET Process) \ {{}})
    <2>1. CASE keys = {} BY <1>2, <2>1
    <2>2. CASE keys # {}
      <3>1. keys \in (SUBSET Process) \ {{}} BY <1>3, <2>2
      <3>2. QED BY <1>2, <2>2, <3>1
    <2>3. QED BY <2>1, <2>2
  <1>5. Queued' = keys /\ Queued = {}
    <2>1. Queued = {} BY <1>3, NoEntries DEF Queued
    <2>2. CASE keys = {} BY <1>2, <2>1, <2>2, NoEntries DEF Queued
    <2>3. CASE keys # {} BY <1>2, <2>1, <2>3, OneEntry DEF Queued
    <2>4. QED BY <2>2, <2>3
  <1>6. NotifyTypeOK'
    <2>1. {retried, active, pipeline}' \subseteq BOOLEAN BY <1>1, <1>2 DEF NotifyTypeOK
    <2>2. QED BY <1>1, <1>2, <1>4, <2>1 DEF NotifyTypeOK, wakeVars
  <1>7. RunOK' /\ ShownOK' /\ DrainOK' BY <1>1, <1>2 DEF RunOK, ShownOK, DrainOK
  <1>8. DroppedOnlyThere'
    <2>1. Held' = Held BY <1>2 DEF Held
    <2>2. InBooks' = InBooks BY <1>2, <1>5, <2>1 DEF InBooks
    <2>3. QED BY <1>2, <2>2, BooksHoldNotified, BooksHoldNotifiedAfter DEF NotifyInv
  <1>9. \A p \in Process : NotifierOK(p)' BY <1>2 DEF NotifyInv, NotifierOK
  <1>10. QED BY <1>6, <1>7, <1>8, <1>9 DEF NotifyInv

(* The end of the pipeline: its entries are in other books by now, and what *)
(* was injected and not appended is lost.                                   *)
LEMMA DropKeeps == NotifyInv /\ DropPipeline => NotifyInv'
  <1> SUFFICES ASSUME NotifyInv, DropPipeline PROVE NotifyInv'
    OBVIOUS
  <1> USE DEF RunPhases, SessionPhases, WithPipeline
  <1>1. NotifyTypeOK /\ RunOK /\ DrainOK BY DEF NotifyInv
  <1>2. /\ phase = "drop" /\ phase' = "signal" /\ pipeline' = FALSE
        /\ queue' = <<>> /\ lastShown' = {} /\ pending' = {}
        /\ target' = [p \in Process |-> IF target[p] = "live" THEN "gone" ELSE target[p]]
        /\ lost' = lost \cup (pending \ told)
        /\ UNCHANGED <<notifier, held, retried, told, notified, active, keys, wakeVars>>
    BY DEF DropPipeline, Session, Lose
  <1>3. /\ target \in [Process -> {"none", "live", "gone"}]
        /\ keys = {} /\ ~active
    BY <1>1, <1>2 DEF NotifyTypeOK, RunOK
  <1>4. NotifyTypeOK'
    <2>1. {retried, active, pipeline}' \subseteq BOOLEAN BY <1>1, <1>2 DEF NotifyTypeOK
    <2>2. target' \in [Process -> {"none", "live", "gone"}] BY <1>2, <1>3
    <2>3. lost' \subseteq Process /\ queue' \in Seq((SUBSET Process) \ {{}})
      BY <1>1, <1>2 DEF NotifyTypeOK
    <2>4. QED BY <1>1, <1>2, <1>3, <2>1, <2>2, <2>3 DEF NotifyTypeOK, wakeVars
  <1>5. RunOK' /\ ShownOK' /\ DrainOK' BY <1>1, <1>2, <1>3 DEF RunOK, ShownOK, DrainOK
  <1>6. DroppedOnlyThere'
    <2>1. Held' = Held BY <1>2 DEF Held
    <2>2. Queued \cap notified \subseteq told \cup lost \cup Held BY <1>1, <1>2 DEF DrainOK
    <2>3. notified \subseteq InBooks BY BooksHoldNotified DEF NotifyInv
    <2>4. notified' \subseteq InBooks' BY <1>2, <1>3, <2>1, <2>2, <2>3 DEF InBooks
    <2>5. QED BY <2>4, BooksHoldNotifiedAfter
  <1>7. ASSUME NEW p \in Process PROVE NotifierOK(p)'
    <2>1. target'[p] # "live" /\ (target[p] # "none" => target'[p] # "none")
      BY <1>2
    <2>2. QED BY <1>2, <2>1 DEF NotifyInv, NotifierOK
  <1>8. QED BY <1>4, <1>5, <1>6, <1>7 DEF NotifyInv

LEMMA NotifyNextKeeps == NotifyInv /\ [NotifyNext]_notifyVars => NotifyInv'
  <1>1. ASSUME NotifyInv, UNCHANGED notifyVars PROVE NotifyInv'
    <2> USE <1>1 DEF notifyVars, noteVars, pipeVars, runVars, wakeVars
    <2>1. NotifyTypeOK'
      <3>1. {retried, active, pipeline}' \subseteq BOOLEAN BY DEF NotifyInv, NotifyTypeOK
      <3>2. QED BY <3>1 DEF NotifyInv, NotifyTypeOK
    <2>2. UNCHANGED <<Queued, Held>> BY DEF Queued, Held
    <2>3. RunOK' /\ ShownOK' /\ DrainOK' BY <2>2 DEF NotifyInv, RunOK, ShownOK, DrainOK
    <2>4. DroppedOnlyThere'
      BY <2>2, BooksHoldNotified, BooksHoldNotifiedAfter DEF NotifyInv, InBooks
    <2>5. \A p \in Process : NotifierOK(p)' BY DEF NotifyInv, NotifierOK
    <2>6. QED BY <2>1, <2>3, <2>4, <2>5 DEF NotifyInv
  <1>2. QED
    BY <1>1, EngineStepKeeps, AppendFailsKeeps, AnnounceKeeps, PushKeeps, DriverKeeps,
       LaunchKeeps, DropKeeps DEF NotifyNext, Notify, Driver

(* Nothing has completed at first. *)
LEMMA NotifyInitHolds == NotifyInit => NotifyInv
  <1> SUFFICES ASSUME NotifyInit PROVE NotifyInv
    OBVIOUS
  <1> USE DEF RunPhases, SessionPhases, WithPipeline, NotifierStages
  <1>1. NotifyTypeOK
    <2>1. {retried, active, pipeline} \subseteq BOOLEAN BY DEF NotifyInit
    <2>2. signals \in Nat /\ queue \in Seq((SUBSET Process) \ {{}}) BY DEF NotifyInit
    <2>3. QED BY <2>1, <2>2 DEF NotifyInit, NotifyTypeOK
  <1>2. RunOK /\ ShownOK /\ DrainOK BY DEF NotifyInit, RunOK, ShownOK, DrainOK
  <1>3. DroppedOnlyThere BY DEF NotifyInit, DroppedOnlyThere
  <1>4. \A p \in Process : NotifierOK(p) BY DEF NotifyInit, NotifierOK
  <1>5. QED BY <1>1, <1>2, <1>3, <1>4 DEF NotifyInv

(* Between two runs the ledger gains no record unless a signal was noted    *)
(* for it: a process that completes is at "record", and goes on from there  *)
(* with no run active.  Marks are taken back before the runs that end are   *)
(* done signalling.                                                         *)
BetweenRuns == {"idle", "start", "startMark", "setup"}

LEMMA ForgottenStep ==
  ASSUME NotifyInv, NeverForgotten,
         phase' \in BetweenRuns => phase \in BetweenRuns,
         Unnotified' \subseteq Unnotified,
         signaled \subseteq signaled',
         \A p \in Process : notifier[p] = "record" => notifier'[p] = "record" \/ p \in signaled'
  PROVE  NeverForgotten'
  BY DEF NeverForgotten, Unnotified, BetweenRuns

LEMMA NeverForgottenKeeps ==
  NotifyInv /\ NeverForgotten /\ [NotifyNext]_notifyVars => NeverForgotten'
  <1> SUFFICES ASSUME NotifyInv, NeverForgotten, [NotifyNext]_notifyVars
               PROVE  NeverForgotten'
    OBVIOUS
  <1> USE DEF BetweenRuns, noteVars, pipeVars, runVars, wakeVars
  <1>1. notifier \in [Process -> NotifierStages] /\ RunOK
    BY DEF NotifyInv, NotifyTypeOK
  <1>2. CASE UNCHANGED notifyVars
    BY <1>2, ForgottenStep DEF notifyVars, Unnotified, Completed
  <1>3. ASSUME NEW p \in Process, Completes(p) PROVE NeverForgotten'
    <2>1. \A q \in Process : q # p => notifier'[q] = notifier[q]
      BY <1>1, <1>3 DEF Completes, NotifierGoes
    <2>2. notifier'[p] = "record" BY <1>1, <1>3 DEF Completes, NotifierGoes
    <2>3. UNCHANGED <<phase, notified, signaled>> BY <1>3 DEF Completes
    <2>4. QED BY <2>1, <2>2, <2>3 DEF NeverForgotten, Unnotified, Completed
  <1>4. ASSUME NEW p \in Process, RecordRoute(p) PROVE NeverForgotten'
    <2>1. \A q \in Process : q # p => notifier'[q] = notifier[q]
      BY <1>1, <1>4 DEF RecordRoute, NotifierGoes
    <2>2. notifier[p] = "record" BY <1>4 DEF RecordRoute
    <2>3. UNCHANGED <<phase, notified>> /\ signaled \subseteq signaled'
      BY <1>4 DEF RecordRoute
    <2>4. phase \in BetweenRuns => p \in signaled'
      <3>1. phase \in BetweenRuns => ~active BY <1>1 DEF RunOK, RunPhases
      <3>2. ~active => p \in signaled' BY <1>4 DEF RecordRoute
      <3>3. QED BY <3>1, <3>2
    <2>5. QED BY <2>1, <2>2, <2>3, <2>4 DEF NeverForgotten, Unnotified, Completed
  <1>5. ASSUME NEW p \in Process, NEW next \in NotifierStages,
               NotifierGoes(p, next), notifier[p] \notin {"running", "record"},
               UNCHANGED <<phase, signaled>>, notified \subseteq notified'
        PROVE  NeverForgotten'
    <2>1. \A q \in Process : q # p => notifier'[q] = notifier[q]
      BY <1>1, <1>5 DEF NotifierGoes
    <2>2. Unnotified' \subseteq Unnotified BY <1>5, <2>1 DEF Unnotified, Completed
    <2>3. \A q \in Process : notifier[q] = "record" => notifier'[q] = "record"
      BY <1>5, <2>1
    <2>4. QED BY <1>5, <2>2, <2>3, ForgottenStep
  <1>6. ASSUME NEW p \in Process,
               NotifyRoute(p) \/ PeekFact(p) \/ MarkFact(p) \/ PushFact(p) \/ SignalWakeup(p)
        PROVE  NeverForgotten'
    <2> USE DEF NotifierStages
    <2>1. CASE NotifyRoute(p)
      <3>1. \E next \in NotifierStages : NotifierGoes(p, next) BY <2>1 DEF NotifyRoute
      <3>2. QED BY <1>5, <2>1, <3>1 DEF NotifyRoute
    <2>2. CASE PeekFact(p)
      <3>1. \E next \in NotifierStages : NotifierGoes(p, next) BY <2>2 DEF PeekFact
      <3>2. QED BY <1>5, <2>2, <3>1 DEF PeekFact
    <2>3. CASE MarkFact(p)
      <3>1. notified \subseteq notified' BY <2>3 DEF MarkFact
      <3>2. QED BY <1>5, <2>3, <3>1 DEF MarkFact
    <2>4. CASE PushFact(p) BY <1>5, <2>4 DEF PushFact
    <2>5. CASE SignalWakeup(p) BY <1>5, <2>5 DEF SignalWakeup
    <2>6. QED BY <1>6, <2>1, <2>2, <2>3, <2>4, <2>5
  <1>7. CASE Engine \/ StepCancelled \/ AppendFails \/ RunReturns \/ Launch \/ ClearActive
             \/ DrainKeys \/ MarkUnnotified \/ DropPipeline
    <2>1. phase' \notin BetweenRuns
      BY <1>7 DEF Engine, StepCancelled, AppendFails, EngineStep, BuildWindow, DecideCompaction,
         CompactCommitted, CompactSkipped, CheckUsage, RebuildWindow, StepCompletes,
         ContextTooLong, RunReturns, Launch, ClearActive, DrainKeys, MarkUnnotified,
         DropPipeline, Session
    <2>2. QED BY <2>1 DEF NeverForgotten
  <1>8. CASE UserInput \/ TakeSignal \/ StartPeek \/ StartMark
    <2>1. phase \in BetweenRuns /\ UNCHANGED <<notifier, signaled>>
          /\ notified \subseteq notified'
      BY <1>8 DEF UserInput, TakeSignal, StartPeek, StartMark, Session
    <2>2. QED BY <2>1, ForgottenStep DEF Unnotified, Completed
  <1>9. CASE SignalStranded
    <2>1. Unnotified \subseteq signaled'
      <3>1. CASE Unnotified \subseteq signaled BY <1>9, <3>1 DEF SignalStranded
      <3>2. CASE ~(Unnotified \subseteq signaled) BY <1>9, <3>2 DEF SignalStranded
      <3>3. QED BY <3>1, <3>2
    <2>2. Unnotified' = Unnotified BY <1>9 DEF SignalStranded, Session, Unnotified, Completed
    <2>3. QED BY <2>1, <2>2 DEF NeverForgotten
  <1>10. QED
    BY <1>2, <1>3, <1>4, <1>6, <1>7, <1>8, <1>9 DEF NotifyNext, Notify, Driver

(* For any number of background processes and any budget of a window,       *)
(* however completions, windows, compactions and the starts and ends of     *)
(* runs fall together: a completion marked as delivered is in the history,  *)
(* on its way there, or was dropped at one of the four places where the     *)
(* code drops it (a committed compaction, an entry pushed after the keys    *)
(* were drained, a run that ends between a window and its append, an append *)
(* that fails); and one that waits between two runs has had its signal, or  *)
(* its notifier is about to see that no run is active.                      *)
THEOREM CompletionsDroppedOnlyThere == NotifySpec => []NotifyOK
  <1>1. NotifyInv /\ NeverForgotten => NotifyOK BY DEF NotifyInv, NotifyOK
  <1>2. NotifyInit => NotifyInv /\ NeverForgotten
    <2>1. NotifyInit => NeverForgotten BY DEF NotifyInit, NeverForgotten, Unnotified, Completed
    <2>2. QED BY <2>1, NotifyInitHolds
  <1>3. NotifyInv /\ NeverForgotten /\ [NotifyNext]_notifyVars => NotifyInv' /\ NeverForgotten'
    BY NotifyNextKeeps, NeverForgottenKeeps
  <1>4. QED BY <1>1, <1>2, <1>3, PTL DEF NotifySpec
=============================================================================
