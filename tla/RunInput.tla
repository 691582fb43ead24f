------------------------------ MODULE RunInput ------------------------------
(***************************************************************************)
(* How what the user types reaches a run: the channel of the UI, the       *)
(* session's mailbox (session/ingress.rs), the buffer of the run with its  *)
(* drain-or-seal contract (run_input_buffer.rs), the adapter between them  *)
(* (BufferedInputAdapter, input_strategy.rs), the observer that reads the  *)
(* mailbox while the model is called (main_run_port.rs) and, of the loop   *)
(* engine and the session driver, the part that calls the adapter.         *)
(*                                                                         *)
(* A user message is a model value and is sent once.  Messages collected   *)
(* together are folded into one text in their order (batched_user_input);  *)
(* the model keeps the sequence of the folded parts.                       *)
(*                                                                         *)
(* A drain is one synchronous piece of code except for the immediate       *)
(* query, which awaits: there, and while it is parked, the future can be   *)
(* dropped, and with it the events it holds.                               *)
(***************************************************************************)
EXTENDS Naturals, Sequences, FiniteSets, SequencesExt

CONSTANTS
    Message,        \* user messages
    Skills,         \* those of them that are skill requests
    Controls,       \* what may happen besides messages: what the user does,
                    \* and "launch", a run that cannot be created
    MaxDisturbances, \* how many of these happen
    EpochModulus    \* drain epochs are counted modulo this (2^64)

ASSUME InputAssumption ==
    /\ Skills \subseteq Message
    /\ Message \cap {"withdraw", "command", "query"} = {}
    /\ Controls \subseteq {"withdraw", "command", "query", "cancel", "interrupt", "launch"}
    /\ MaxDisturbances \in Nat
    /\ EpochModulus \in Nat \ {0}

VARIABLES
    source,         \* events in the channel of the UI
    closed,         \* the UI has dropped its end of the channel
    deferred,       \* SessionInputMailboxState.deferred
    pendingInput,   \* PendingInputBuffer: commands for the next idle gate
    buffer,         \* RunInputBuffer.events (user inputs only)
    sealed,         \* RunInputBuffer.sealed
    bufferEpoch,    \* RunInputBuffer.current_epoch
    runEpoch,       \* Run.next_drain_epoch = the engine's expected_epoch
    continuation,   \* InputContinuationState: what has been scheduled
    inflight,       \* events a drain has taken and not yet looked at
    phase,          \* where the session driver and the engine are
    mode,           \* "drain", "await", "response": who called the drain
    single,         \* the run is a manual compaction or reflection
    outcome,        \* DrainOutcome the engine is about to handle
    sent,           \* history: messages in the order they were sent
    consumed,       \* history: messages in the order the run took them
    withdrawn,      \* history: messages given back to the user
    discarded,      \* history: messages taken from their queue and dropped
    disturbances    \* history: which of Controls happened so far

mailboxVars == <<source, closed, deferred, pendingInput>>
bufferVars == <<buffer, sealed, bufferEpoch>>
historyVars == <<sent, consumed, withdrawn, discarded, disturbances>>
inputVars == <<mailboxVars, bufferVars, runEpoch, continuation, inflight,
               phase, mode, single, outcome, historyVars>>

Continuations == {"StopHookFeedback", "ToolResults", "BackgroundProcessWakeup"}
NoOutcome == [kind |-> "none", batch |-> <<>>]
Outcome(k, b) == [kind |-> k, batch |-> b]
NextDrainEpoch(e) == (e + 1) % EpochModulus

InputInit ==
    /\ source = <<>> /\ closed = FALSE /\ deferred = <<>> /\ pendingInput = <<>>
    /\ buffer = <<>> /\ sealed = FALSE /\ bufferEpoch = 0 /\ runEpoch = 0
    /\ continuation = {} /\ inflight = <<>>
    /\ phase = "idle" /\ mode = "drain" /\ single = FALSE /\ outcome = NoOutcome
    /\ sent = <<>> /\ consumed = <<>> /\ withdrawn = {} /\ discarded = {}
    /\ disturbances = <<>>
-----------------------------------------------------------------------------
(* The user. *)
SendMessage(m) ==
    /\ ~closed /\ ~Contains(sent, m)
    /\ source' = Append(source, m)
    /\ sent' = Append(sent, m)
    /\ UNCHANGED <<closed, deferred, pendingInput, bufferVars, runEpoch,
                   continuation, inflight, phase, mode, single, outcome,
                   consumed, withdrawn, discarded, disturbances>>

SendControl(k) ==
    /\ k \in {"withdraw", "command", "query"}
    /\ ~closed /\ Len(disturbances) < MaxDisturbances
    /\ source' = Append(source, k)
    /\ disturbances' = Append(disturbances, k)
    /\ UNCHANGED <<closed, deferred, pendingInput, bufferVars, runEpoch,
                   continuation, inflight, phase, mode, single, outcome,
                   sent, consumed, withdrawn, discarded>>

CloseChannel ==
    /\ ~closed
    /\ closed' = TRUE
    /\ UNCHANGED <<source, deferred, pendingInput, bufferVars, runEpoch,
                   continuation, inflight, phase, mode, single, outcome,
                   historyVars>>
-----------------------------------------------------------------------------
(* The session is idle: it takes one event from the mailbox, deferred ones *)
(* first, or starts a run on the signal of a background process.           *)
MailboxHead == Head(deferred \o source)
MailboxHasNext == deferred \o source # <<>>
TakeMailboxHead ==
    IF deferred # <<>> THEN deferred' = Tail(deferred) /\ UNCHANGED source
    ELSE source' = Tail(source) /\ UNCHANGED deferred

FreshRun(seed, k, isSingle) ==
    /\ buffer' = seed /\ sealed' = FALSE /\ bufferEpoch' = 0 /\ runEpoch' = 0
    /\ continuation' = k /\ single' = isSingle
    /\ phase' = "loop"
    /\ UNCHANGED <<closed, pendingInput, inflight, mode, outcome, historyVars>>

IdleStartsConversation ==
    /\ phase = "idle" /\ MailboxHasNext /\ MailboxHead \in Message
    /\ TakeMailboxHead
    /\ FreshRun(<<MailboxHead>>, {}, FALSE)

IdleStartsManualRun ==
    /\ phase = "idle" /\ MailboxHasNext /\ MailboxHead = "command"
    /\ TakeMailboxHead
    /\ FreshRun(<<>>, {}, TRUE)

IdleStartsWakeupRun ==
    /\ phase = "idle"
    /\ FreshRun(<<>>, {"BackgroundProcessWakeup"}, FALSE)
    /\ UNCHANGED <<source, deferred>>

(* prepare_main_run or create_main_run fails: the error is logged, the       *)
(* session is idle again and the accepted input is gone.                     *)
LaunchFails ==
    /\ "launch" \in Controls /\ Len(disturbances) < MaxDisturbances
    /\ phase = "idle" /\ MailboxHasNext /\ MailboxHead \in Message
    /\ TakeMailboxHead
    /\ discarded' = discarded \cup {MailboxHead}
    /\ disturbances' = Append(disturbances, "launch")
    /\ UNCHANGED <<closed, pendingInput, bufferVars, runEpoch, continuation,
                   inflight, phase, mode, single, outcome, sent, consumed, withdrawn>>

(* A command that starts no run or whose run cannot be created, a query, a  *)
(* withdrawal of nothing.                                                   *)
IdleHandlesControl ==
    /\ phase = "idle" /\ MailboxHasNext /\ MailboxHead \notin Message
    /\ TakeMailboxHead
    /\ UNCHANGED <<closed, pendingInput, bufferVars, runEpoch, continuation,
                   inflight, phase, mode, single, outcome, historyVars>>

(* The channel is closed and everything in it is handled: IdleResult::Shutdown. *)
IdleShutsDown ==
    /\ phase = "idle" /\ closed /\ ~MailboxHasNext
    /\ phase' = "shutdown"
    /\ UNCHANGED <<mailboxVars, bufferVars, runEpoch, continuation, inflight,
                   mode, single, outcome, historyVars>>

Done == phase = "shutdown" /\ UNCHANGED inputVars
-----------------------------------------------------------------------------
(* drain_collect_continuations and the observer's on_response: everything  *)
(* available is taken at once ...                                          *)
(* Mutant: what was deferred is read after the newer events. *)
BuggyDrainAvailable == source \o deferred

DrainAvailable == deferred \o source

Collect(m) ==
    /\ m = "response" => phase = "step" /\ ~single
    /\ m = "drain" => phase = "loop"
    /\ m = "await" => phase = "awaiting"
    /\ inflight' = DrainAvailable
    /\ deferred' = <<>> /\ source' = <<>>
    /\ phase' = "collect" /\ mode' = m
    /\ UNCHANGED <<closed, pendingInput, bufferVars, runEpoch, continuation,
                   single, outcome, historyVars>>

(* ... and admitted in order.  admit_user_message: a sealed buffer rejects, *)
(* and what it rejects goes back to the mailbox, behind rest.               *)
AdmitUserMessage(m, rest) ==
    IF sealed THEN deferred' = Append(rest, m) /\ UNCHANGED buffer
    ELSE buffer' = Append(buffer, m) /\ deferred' = rest

(* WithdrawAll empties the buffer of the run and the command queue.  The    *)
(* texts of the buffered messages go back to the user, skill requests        *)
(* included; drain_for_withdraw takes every queued event and returns those   *)
(* with a display text, and a skill request has none.                        *)
(* Mutant: the messages are reported and stay in the buffer. *)
BuggyWithdrawAll ==
    /\ withdrawn' = withdrawn \cup ToSet(buffer)
    /\ discarded' = discarded \cup (ToSet(pendingInput) \cap Message)
    /\ pendingInput' = <<>> /\ UNCHANGED buffer

WithdrawAll ==
    /\ withdrawn' = withdrawn \cup ToSet(buffer)
    /\ discarded' = discarded \cup (ToSet(pendingInput) \cap Message)
    /\ buffer' = <<>> /\ pendingInput' = <<>>

(* One event that is no query.  The observer (busy) takes a skill request   *)
(* for a command.                                                           *)
HandleEvent(e, busy, rest) ==
    \/ /\ e \in Message /\ ~(busy /\ e \in Skills)
       /\ AdmitUserMessage(e, rest)
       /\ UNCHANGED <<pendingInput, withdrawn, discarded>>
    \/ /\ e = "withdraw"
       /\ WithdrawAll
       /\ deferred' = rest
    \/ /\ e = "command" \/ (busy /\ e \in Skills)
       /\ pendingInput' = Append(pendingInput, e)
       /\ deferred' = rest
       /\ UNCHANGED <<buffer, withdrawn, discarded>>

AdmitNext ==
    /\ phase = "collect" /\ inflight # <<>>
    /\ HandleEvent(Head(inflight), mode = "response", deferred)
    /\ inflight' = Tail(inflight)
    /\ UNCHANGED <<source, closed, sealed, bufferEpoch, runEpoch, continuation,
                   phase, mode, single, outcome, sent, consumed, disturbances>>

(* dispatch_immediate_query: awaits the configuration and the model list.  *)
(* A query met while parked is followed by waiting on.                     *)
BeginQuery ==
    /\ phase = "collect" /\ inflight # <<>> /\ Head(inflight) = "query"
    /\ inflight' = Tail(inflight)
    /\ phase' = "query"
    /\ UNCHANGED <<mailboxVars, bufferVars, runEpoch, continuation, mode,
                   single, outcome, historyVars>>

FinishQuery ==
    /\ phase = "query"
    /\ phase' = IF mode = "park" THEN "parked" ELSE "collect"
    /\ UNCHANGED <<mailboxVars, bufferVars, runEpoch, continuation, inflight,
                   mode, single, outcome, historyVars>>

(* pump_while_invoking: one event at a time while the model answers. *)
PumpWhileInvoking ==
    /\ phase = "step" /\ ~single /\ MailboxHasNext
    /\ source' = IF deferred = <<>> THEN Tail(source) ELSE source
    /\ LET rest == IF deferred = <<>> THEN deferred ELSE Tail(deferred)
       IN  \/ HandleEvent(MailboxHead, TRUE, rest)
           \/ /\ MailboxHead = "query"
              /\ deferred' = rest
              /\ UNCHANGED <<pendingInput, buffer, withdrawn, discarded>>
    /\ UNCHANGED <<closed, sealed, bufferEpoch, runEpoch, continuation,
                   inflight, phase, mode, single, outcome, sent, consumed,
                   disturbances>>
-----------------------------------------------------------------------------
(* The decision at the end of a drain.  A buffer that is sealed, or whose   *)
(* epoch is not the expected one, gives nothing away.                       *)
Refused == sealed \/ runEpoch # bufferEpoch

DrainUserInputs(kind, contents) ==
    /\ outcome' = IF sealed THEN Outcome("EmptyAndSealed", <<>>)
                  ELSE IF Refused THEN Outcome("EpochMismatch", <<>>)
                  ELSE Outcome(kind, contents)
    /\ buffer' = IF Refused THEN contents ELSE <<>>
    /\ bufferEpoch' = IF Refused THEN bufferEpoch ELSE NextDrainEpoch(bufferEpoch)
    /\ phase' = "decided"

Collected(m) == phase = "collect" /\ inflight = <<>> /\ mode = m

ResponseCollected ==
    /\ Collected("response")
    /\ phase' = "step"
    /\ UNCHANGED <<mailboxVars, bufferVars, runEpoch, continuation, inflight,
                   mode, single, outcome, historyVars>>

(* StopHookFeedback > ToolResults > BackgroundProcessWakeup. *)
FirstContinuation ==
    IF "StopHookFeedback" \in continuation THEN "StopHookFeedback"
    ELSE IF "ToolResults" \in continuation THEN "ToolResults"
    ELSE "BackgroundProcessWakeup"

TakeInternalContinuation ==
    /\ Collected("drain") \/ Collected("await")
    /\ continuation # {}
    /\ continuation' = continuation \ {FirstContinuation}
    /\ DrainUserInputs("InternalContinuation", buffer)
    /\ UNCHANGED <<mailboxVars, sealed, runEpoch, inflight, mode, single,
                   historyVars>>

DrainOrSeal ==
    /\ Collected("drain") /\ continuation = {}
    /\ DrainUserInputs(IF buffer = <<>> THEN "EmptyAndSealed" ELSE "Ready", buffer)
    /\ sealed' = (sealed \/ (~Refused /\ buffer = <<>>))
    /\ UNCHANGED <<mailboxVars, runEpoch, continuation, inflight, mode, single,
                   historyVars>>

(* await_user_input: what is buffered, or park; nothing is sealed. *)
TryDrainUnsealed ==
    /\ Collected("await") /\ continuation = {}
    /\ IF buffer = <<>> /\ ~Refused
       THEN /\ phase' = "parked" /\ mode' = "park"
            /\ UNCHANGED <<bufferVars, outcome>>
       ELSE DrainUserInputs("Ready", buffer) /\ UNCHANGED <<sealed, mode>>
    /\ UNCHANGED <<mailboxVars, runEpoch, continuation, inflight, single,
                   historyVars>>

(* Parked: the next event decides.  A message is pushed and drained, an     *)
(* immediate query is answered, anything else is kept for the session and   *)
(* ends the wait, and so does the end of the channel.                       *)
ParkedReceives ==
    /\ phase = "parked" /\ MailboxHasNext
    /\ TakeMailboxHead
    /\ \/ /\ MailboxHead \in Message
          /\ DrainUserInputs("Ready", Append(buffer, MailboxHead))
          /\ UNCHANGED pendingInput
       \/ /\ MailboxHead = "query" /\ phase' = "query"
          /\ UNCHANGED <<pendingInput, buffer, bufferEpoch, outcome>>
       \/ /\ MailboxHead \in {"withdraw", "command"}
          /\ pendingInput' = Append(pendingInput, MailboxHead)
          /\ outcome' = Outcome("EmptyAndSealed", <<>>) /\ phase' = "decided"
          /\ UNCHANGED <<buffer, bufferEpoch>>
    /\ UNCHANGED <<closed, sealed, runEpoch, continuation, inflight, mode,
                   single, historyVars>>

ParkedSeesClosed ==
    /\ phase = "parked" /\ closed /\ ~MailboxHasNext
    /\ outcome' = Outcome("EmptyAndSealed", <<>>) /\ phase' = "decided"
    /\ UNCHANGED <<mailboxVars, bufferVars, runEpoch, continuation, inflight,
                   mode, single, historyVars>>
-----------------------------------------------------------------------------
(* The engine handles the outcome (run_loop_body). *)
Awaiting == mode \in {"await", "park"}

EngineHandles(k) ==
    /\ phase = "decided" /\ outcome.kind = k
    /\ outcome' = NoOutcome
    /\ UNCHANGED <<source, closed, pendingInput, bufferVars, continuation,
                   inflight, mode, single, sent, withdrawn, discarded, disturbances>>

(* Mutant: the expected epoch is advanced only when a step begins. *)
BuggyEngineDefers ==
    /\ Awaiting \/ single
    /\ EngineHandles("Ready")
    /\ deferred' = deferred \o outcome.batch
    /\ phase' = IF Awaiting THEN "awaiting" ELSE "loop"
    /\ UNCHANGED <<consumed, runEpoch>>

(* A batch a single-purpose run, or a run that waits for an answer, cannot  *)
(* use goes back to the mailbox.                                            *)
EngineDefers ==
    /\ \/ EngineHandles("Ready") /\ (Awaiting \/ single)
       \/ EngineHandles("InternalContinuation") /\ Awaiting /\ outcome.batch # <<>>
    /\ runEpoch' = NextDrainEpoch(runEpoch)
    /\ deferred' = deferred \o outcome.batch
    /\ phase' = IF Awaiting THEN "awaiting" ELSE "loop"
    /\ UNCHANGED consumed

EngineBeginsStep ==
    /\ ~Awaiting
    /\ \/ EngineHandles("Ready") /\ ~single
       \/ EngineHandles("InternalContinuation")
    /\ runEpoch' = NextDrainEpoch(runEpoch)
    /\ consumed' = consumed \o outcome.batch
    /\ phase' = "step"
    /\ UNCHANGED deferred

EngineExits ==
    /\ \/ EngineHandles("EmptyAndSealed")
       \/ EngineHandles("EpochMismatch")
       \/ EngineHandles("InternalContinuation") /\ Awaiting /\ outcome.batch = <<>>
    /\ runEpoch' = IF outcome.kind = "EpochMismatch"
                      \/ (Awaiting /\ outcome.kind = "EmptyAndSealed")
                   THEN runEpoch ELSE NextDrainEpoch(runEpoch)
    /\ phase' = "ended"
    /\ UNCHANGED <<deferred, consumed>>

(* The end of a step: an answer, tool results, the feedback of a stop hook, *)
(* or a question the run waits for.                                         *)
StepEnds ==
    /\ phase = "step"
    /\ \/ phase' = "loop" /\ continuation' \in
              {continuation, continuation \cup {"ToolResults"},
               continuation \cup {"StopHookFeedback"}}
       \/ phase' = "awaiting" /\ UNCHANGED continuation
    /\ UNCHANGED <<mailboxVars, bufferVars, runEpoch, inflight, mode, single,
                   outcome, historyVars>>

(* The answer to the question, which is polled before the input: a drain    *)
(* that is suspended or parked is dropped with what it holds.               *)
InteractionAnswered ==
    /\ \/ phase = "awaiting"
       \/ phase = "query" /\ Awaiting
       \/ phase = "parked"
    /\ phase' = "loop" /\ mode' = "drain"
    /\ inflight' = <<>>
    /\ continuation' \in {continuation, continuation \cup {"ToolResults"}}
    /\ UNCHANGED <<mailboxVars, bufferVars, runEpoch, single, outcome, historyVars>>

(* The user cancels the step: a model call is dropped, and on_response with *)
(* it; the run goes on.                                                     *)
CancelStep ==
    /\ "cancel" \in Controls /\ Len(disturbances) < MaxDisturbances
    /\ phase = "step" \/ (phase = "query" /\ mode = "response")
    /\ phase' = "loop" /\ inflight' = <<>>
    /\ disturbances' = Append(disturbances, "cancel")
    /\ UNCHANGED <<mailboxVars, bufferVars, runEpoch, continuation, mode,
                   single, outcome, sent, consumed, withdrawn, discarded>>

(* The run is terminated, times out or fails at an await or at the top of   *)
(* the loop.                                                                *)
Interrupt ==
    /\ "interrupt" \in Controls /\ Len(disturbances) < MaxDisturbances
    /\ phase \in {"loop", "awaiting", "query", "parked", "step"}
    /\ phase' = "ended" /\ inflight' = <<>>
    /\ disturbances' = Append(disturbances, "interrupt")
    /\ UNCHANGED <<mailboxVars, bufferVars, runEpoch, continuation, mode,
                   single, outcome, sent, consumed, withdrawn, discarded>>

(* Mutant: only the commands go back. *)
BuggyDrainRemainingEvents ==
    /\ phase = "ended"
    /\ deferred' = deferred \o pendingInput
    /\ buffer' = <<>> /\ pendingInput' = <<>> /\ continuation' = {}
    /\ phase' = "idle" /\ mode' = "drain" /\ single' = FALSE
    /\ UNCHANGED <<source, closed, sealed, bufferEpoch, runEpoch, inflight,
                   outcome, historyVars>>

(* drop_queued_reflect_now: f picks what stays in q, in its order; nothing   *)
(* is dropped but commands, those that are /reflect-now.                    *)
Retains(f, q) ==
    /\ \A i, j \in DOMAIN f : i < j => f[i] < f[j]
    /\ \A k \in DOMAIN q : q[k] = "command" \/ \E i \in DOMAIN f : f[i] = k

(* drain_remaining_events: what the run did not use goes to the mailbox.    *)
DrainRemainingEvents ==
    /\ phase = "ended"
    /\ \E n \in 0 .. Len(pendingInput) : \E f \in [1 .. n -> DOMAIN pendingInput] :
          /\ Retains(f, pendingInput)
          /\ deferred' = deferred \o buffer \o [i \in 1 .. n |-> pendingInput[f[i]]]
    /\ buffer' = <<>> /\ pendingInput' = <<>> /\ continuation' = {}
    /\ phase' = "idle" /\ mode' = "drain" /\ single' = FALSE
    /\ UNCHANGED <<source, closed, sealed, bufferEpoch, runEpoch, inflight,
                   outcome, historyVars>>
-----------------------------------------------------------------------------
User ==
    \/ \E m \in Message : SendMessage(m)
    \/ \E k \in Controls : SendControl(k)
    \/ CloseChannel
    \/ CancelStep
    \/ Interrupt

Engine ==
    \/ IdleStartsConversation \/ IdleStartsManualRun \/ IdleHandlesControl
    \/ IdleShutsDown
    \/ \E m \in {"drain", "await"} : Collect(m)
    \/ AdmitNext \/ BeginQuery \/ FinishQuery \/ ResponseCollected
    \/ TakeInternalContinuation \/ DrainOrSeal \/ TryDrainUnsealed
    \/ ParkedReceives \/ ParkedSeesClosed
    \/ EngineDefers \/ EngineBeginsStep \/ EngineExits
    \/ StepEnds
    \/ DrainRemainingEvents

InputNext ==
    \/ User
    \/ Engine
    \/ IdleStartsWakeupRun
    \/ LaunchFails
    \/ PumpWhileInvoking
    \/ Collect("response")
    \/ InteractionAnswered
    \/ Done

InputSpec == InputInit /\ [][InputNext]_inputVars

(* The engine's task is scheduled, every step ends, and a question is      *)
(* answered in the end: the answer is polled again in every round.         *)
FairInputSpec ==
    /\ InputSpec
    /\ WF_inputVars(Engine)
    /\ SF_inputVars(StepEnds)
    /\ SF_inputVars(InteractionAnswered)
-----------------------------------------------------------------------------
Event == Message \cup {"withdraw", "command", "query"}

(* Queues hold events, the buffer and the histories messages only; both      *)
(* epochs stay below the modulus of the counter.                             *)
InputTypeOK ==
    /\ source \in Seq(Event) /\ deferred \in Seq(Event)
    /\ inflight \in Seq(Event) /\ pendingInput \in Seq(Event)
    /\ buffer \in Seq(Message) /\ sent \in Seq(Message)
    /\ consumed \in Seq(Message)
    /\ withdrawn \subseteq Message /\ discarded \subseteq Message
    /\ closed \in BOOLEAN /\ sealed \in BOOLEAN /\ single \in BOOLEAN
    /\ {bufferEpoch, runEpoch} \subseteq 0 .. (EpochModulus - 1)
    /\ continuation \subseteq Continuations
    /\ phase \in {"idle", "loop", "step", "awaiting", "collect", "query",
                  "parked", "decided", "ended", "shutdown"}
    /\ mode \in {"drain", "await", "park", "response"}
    /\ outcome.batch \in Seq(Message)
    /\ disturbances \in Seq(Controls) /\ Len(disturbances) <= MaxDisturbances

(* Where a message can be, in the order in which a run will see it, among    *)
(* the other events. *)
Pipeline ==
    consumed \o outcome.batch \o buffer \o deferred \o inflight \o source

Occurrences(m, q) == Cardinality({i \in DOMAIN q : q[i] = m})

(* Taken out of the queues without reaching a step. *)
Gone == withdrawn \cup discarded

(* No message is ever seen twice, whatever is withdrawn, deferred to the    *)
(* next run, or dropped: not in two queues, and not in a queue once it was  *)
(* given back to the user or dropped.                                       *)
NeverDuplicated ==
    \A m \in Message :
        Occurrences(m, Pipeline \o pendingInput) <= IF m \in Gone THEN 0 ELSE 1

(* A message is in exactly one place until a step has taken it or the user  *)
(* has it back.                                                             *)
Kept(m) == m \in withdrawn \/ Occurrences(m, Pipeline \o pendingInput) = 1

(* No message is lost, across seals, deferrals, cancellations and the end   *)
(* of the run: dropping a drain (input_strategy.rs: cancel and timeout are  *)
(* handled by dropping the future) drops no message, and a withdrawal gives *)
(* back everything that is pending (drain_for_withdraw).                    *)
NeverLost == \A m \in ToSet(sent) : Kept(m)

(* A message is lost in three ways only: a drain is dropped while it        *)
(* answers an immediate query, a withdrawal meets a skill request in the    *)
(* command queue, or the run it was to start cannot be created.  Otherwise  *)
(* everything is kept, with withdrawals, manual runs, cancels and           *)
(* interrupts at any point; and when the session has shut down every        *)
(* message was taken by a step, given back, or lost like this.              *)
OnlyKnownLosses ==
    /\ "launch" \notin ToSet(disturbances) => discarded \subseteq Skills
    /\ "query" \notin ToSet(disturbances) =>
           \A m \in ToSet(sent) :
               /\ m \in discarded \/ Kept(m)
               /\ phase = "shutdown" => m \in Gone \cup ToSet(consumed)

SentAt(m) == CHOOSE i \in 1 .. Len(sent) : sent[i] = m

(* Messages are observed in the order they were sent, also across the end   *)
(* of a run and when a run has to give back what it took                    *)
(* (SessionInputMailbox: "preserving producer identity and FIFO order       *)
(* across Run boundaries"), with two exceptions the code has: a skill       *)
(* request that was queued as a command while the model answered, and a run *)
(* that was interrupted after it had deferred something.                    *)
OrderKept ==
    "interrupt" \notin ToSet(disturbances) =>
        \A i, j \in {k \in DOMAIN Pipeline : Pipeline[k] \in Message} :
            i < j /\ SentAt(Pipeline[i]) > SentAt(Pipeline[j]) => Pipeline[j] \in Skills

(* The engine and the buffer agree on the epoch whenever the engine asks:   *)
(* the error "drain epoch mismatch" never happens, although the two         *)
(* counters are advanced by different tasks of the loop.                    *)
EpochsAgree ==
    /\ outcome.kind # "EpochMismatch"
    /\ phase \in {"loop", "awaiting", "parked"} => runEpoch = bufferEpoch

(* drain_all: a sealed buffer holds no user message, so none is stranded    *)
(* between the seal and the end of the run.                                 *)
SealedMeansEmpty == sealed => buffer = <<>>

(* Every message reaches a step of some run, goes back to the user, or is   *)
(* dropped by a launch that fails: none stays in a queue for good, if       *)
(* cancellations and interrupts come to an end.                             *)
EveryMessageSettled ==
    \A m \in Message :
        m \in ToSet(sent) ~> m \in ToSet(consumed) \cup Gone

(* The queues are well typed, nothing is stranded in a sealed buffer, and   *)
(* the epochs of run and buffer agree whenever the engine asks.             *)
InputOK == InputTypeOK /\ SealedMeansEmpty /\ EpochsAgree

=============================================================================
