------------------------- MODULE InteractionBridge --------------------------
(***************************************************************************)
(* Questions to the user and tool approvals: the bridge of the session     *)
(* (InteractionPort), the engines of the runs that register requests there *)
(* and wait for them, and the client that answers or cancels them.         *)
(*                                                                         *)
(* The oneshot channel of a request is split into what was sent and where  *)
(* its receiver is.  A reply that does not fit the body of its request is  *)
(* turned away and changes nothing, so only fitting replies are actions.   *)
(* A run of ParentMediated mode registers through its own adapter, which   *)
(* passes the request on; the client always addresses the bridge.          *)
(***************************************************************************)
EXTENDS Naturals, FiniteSets

CONSTANTS
    Run,            \* the main run and its sub runs
    Unavailable,    \* runs with the port that refuses every request
    Request,        \* request ids, fresh ones (new_v7)
    RunOf,          \* the run that uses an id
    MaxQueue,       \* bound: calls of a round that wait behind the first
    NoRequest

ASSUME BridgeAssumption ==
    /\ Unavailable \subseteq Run
    /\ RunOf \in [Request -> Run]
    /\ MaxQueue \in Nat
    /\ NoRequest \notin Request

VARIABLES
    pending,    \* BridgeState::pending
    completed,  \* BridgeState::completed
    channel,    \* what was sent to the receiver of a request
    receiver,   \* where it is: "none", "local", "mailbox" or "dropped"
    verdict,    \* history: what the command that resolved the request was told
    published,  \* requests the client knows
    taken,      \* history: requests whose completion the run handled
    phase,      \* where the engine of a run is
    waiting,    \* Run::pending_interaction
    queue       \* PendingInteractionWork: calls that wait behind the current one

bridgeVars == <<pending, completed, channel, verdict>>
runVars == <<phase, waiting, queue>>
vars == <<bridgeVars, receiver, published, taken, runVars>>

Phases == {"working", "begin", "publish", "store", "await", "select", "over", "gone"}
Fresh(r) == {q \in Request : RunOf[q] = r /\ q \notin pending \cup completed}
Over(r) == phase[r] \in {"over", "gone"}

Goto(r, next) == phase' = [phase EXCEPT ![r] = next]
Hold(q, where) == receiver' = [receiver EXCEPT ![q] = where]

---------------------------------------------------------------------------
(* The engine of a run *)

(* A tool round suspends on calls that need the user: the first is asked,   *)
(* the rest is queued.                                                      *)
Suspend(r) ==
    /\ phase[r] = "working" /\ Goto(r, "begin")
    /\ \E n \in 0..MaxQueue : queue' = [queue EXCEPT ![r] = n]
    /\ UNCHANGED <<bridgeVars, receiver, published, taken, waiting>>

(* InteractionCoordinator::begin: register, then the run waits.  The run    *)
(* never refuses here (RefusedOnlyInToolRound of module LoopEngine).        *)
Begin(r) ==
    /\ phase[r] = "begin" /\ r \notin Unavailable
    /\ \E q \in Fresh(r) :
           /\ pending' = pending \cup {q}
           /\ Hold(q, "local")
           /\ waiting' = [waiting EXCEPT ![r] = q]
    /\ Goto(r, "publish")
    /\ UNCHANGED <<completed, channel, verdict, published, taken, queue>>

BeginRefused(r) ==
    /\ phase[r] = "begin" /\ r \in Unavailable /\ Goto(r, "over")
    /\ UNCHANGED <<bridgeVars, receiver, published, taken, waiting, queue>>

(* start_interaction_activity and publish_interaction; an error of either   *)
(* leaves the round and fails the run, with the request still registered.   *)
Publish(r) ==
    /\ phase[r] = "publish" /\ Goto(r, "store")
    /\ published' = published \cup {waiting[r]}
    /\ UNCHANGED <<bridgeVars, receiver, taken, waiting, queue>>

PublishFails(r) ==
    /\ phase[r] = "publish" /\ Goto(r, "over")
    /\ Hold(waiting[r], "dropped")
    /\ UNCHANGED <<bridgeVars, published, taken, waiting, queue>>

InMailbox(r) == {q \in Request : RunOf[q] = r /\ receiver[q] = "mailbox"}

(* store_mailbox_receiver, which refuses a second receiver.                 *)
Store(r) ==
    /\ phase[r] = "store"
    /\ InMailbox(r) = {}
    /\ Hold(waiting[r], "mailbox") /\ Goto(r, "await")
    /\ UNCHANGED <<bridgeVars, published, taken, waiting, queue>>

(* await_run_ingress takes the receiver out of the mailbox for the select.  *)
Select(r) ==
    /\ phase[r] = "await" /\ Goto(r, "select")
    /\ \E q \in InMailbox(r) : Hold(q, "local")
    /\ UNCHANGED <<bridgeVars, published, taken, waiting, queue>>

(* Mutant: only an answer wakes the run, a cancellation does not. *)
BuggyTakeCompletion(r) ==
    LET q == waiting[r] IN
    /\ phase[r] = "select" /\ channel[q] = "Replied"
    /\ Hold(q, "dropped")
    /\ taken' = taken \cup {q}
    /\ waiting' = [waiting EXCEPT ![r] = NoRequest]
    /\ queue' = [queue EXCEPT ![r] = IF @ = 0 THEN 0 ELSE @ - 1]
    /\ Goto(r, IF queue[r] = 0 THEN "working" ELSE "begin")
    /\ UNCHANGED <<bridgeVars, published>>

(* The completion is looked at first (biased).  After it comes the next     *)
(* queued call, or the round is finished.                                   *)
TakeCompletion(r) ==
    LET q == waiting[r] IN
    /\ phase[r] = "select" /\ channel[q] # "empty"
    /\ Hold(q, "dropped")
    /\ taken' = taken \cup {q}
    /\ waiting' = [waiting EXCEPT ![r] = NoRequest]
    /\ queue' = [queue EXCEPT ![r] = IF @ = 0 THEN 0 ELSE @ - 1]
    /\ Goto(r, IF queue[r] = 0 THEN "working" ELSE "begin")
    /\ UNCHANGED <<bridgeVars, published>>

(* Mutant: the receiver is dropped with the select. *)
BuggyInputArrives(r) ==
    /\ phase[r] = "select" /\ channel[waiting[r]] = "empty"
    /\ Hold(waiting[r], "dropped") /\ Goto(r, "await")
    /\ UNCHANGED <<bridgeVars, published, taken, waiting, queue>>

(* Session input wakes the select: the receiver goes back and the messages  *)
(* are deferred.                                                            *)
InputArrives(r) ==
    /\ phase[r] = "select" /\ channel[waiting[r]] = "empty"
    /\ Hold(waiting[r], "mailbox") /\ Goto(r, "await")
    /\ UNCHANGED <<bridgeVars, published, taken, waiting, queue>>

(* Mutant: the select that ends leaves the interaction, not the run.        *)
BuggySelectEnds(r) ==
    /\ phase[r] = "select" /\ channel[waiting[r]] = "empty"
    /\ Hold(waiting[r], "dropped") /\ Goto(r, "working")
    /\ waiting' = [waiting EXCEPT ![r] = NoRequest]
    /\ UNCHANGED <<bridgeVars, published, taken, queue>>

(* The select ends with the run: cancelled, terminated, timed out or no     *)
(* more input, with the receiver back in the mailbox; or an error, with the *)
(* receiver dropped.  drain_run is not called.                              *)
SelectEnds(r) ==
    /\ phase[r] = "select" /\ channel[waiting[r]] = "empty"
    /\ \E where \in {"mailbox", "dropped"} : Hold(waiting[r], where)
    /\ Goto(r, "over")
    /\ UNCHANGED <<bridgeVars, published, taken, waiting, queue>>

(* The run ends outside an interaction, or at the top of the loop before    *)
(* the select.                                                              *)
RunEnds(r) ==
    /\ phase[r] \in {"working", "await"} /\ Goto(r, "over")
    /\ UNCHANGED <<bridgeVars, receiver, published, taken, waiting, queue>>

(* The RunInstance is dropped, and its mailbox with it. *)
DropRun(r) ==
    /\ phase[r] = "over" /\ Goto(r, "gone")
    /\ receiver' = [q \in Request |-> IF q \in InMailbox(r) THEN "dropped" ELSE receiver[q]]
    /\ UNCHANGED <<bridgeVars, published, taken, waiting, queue>>

---------------------------------------------------------------------------
(* The client: reply_interaction and cancel_interaction through the ingress *)

(* Mutant: the request stays registered. *)
BuggyResolve(q, what) ==
    /\ q \in pending
    /\ completed' = completed \cup {q}
    /\ IF receiver[q] = "dropped"
       THEN UNCHANGED channel /\ verdict' = [verdict EXCEPT ![q] = "RunCancelling"]
       ELSE /\ channel' = [channel EXCEPT ![q] = what]
            /\ verdict' = [verdict EXCEPT ![q] = "Accepted"]
    /\ UNCHANGED <<pending, receiver, published, taken, runVars>>

(* The first command that finds the request pending takes it; later ones    *)
(* are told AlreadyCompleted and change nothing.                            *)
Resolve(q, what) ==
    /\ q \in pending
    /\ pending' = pending \ {q}
    /\ completed' = completed \cup {q}
    /\ IF receiver[q] = "dropped"
       THEN UNCHANGED channel /\ verdict' = [verdict EXCEPT ![q] = "RunCancelling"]
       ELSE /\ channel' = [channel EXCEPT ![q] = what]
            /\ verdict' = [verdict EXCEPT ![q] = "Accepted"]
    /\ UNCHANGED <<receiver, published, taken, runVars>>

Reply(q) == q \in published /\ Resolve(q, "Replied")
Cancel(q) == q \in published /\ Resolve(q, "Cancelled")

---------------------------------------------------------------------------
BridgeInit ==
    /\ pending = {} /\ completed = {} /\ published = {} /\ taken = {}
    /\ channel = [q \in Request |-> "empty"]
    /\ receiver = [q \in Request |-> "none"]
    /\ verdict = [q \in Request |-> "none"]
    /\ phase = [r \in Run |-> "working"]
    /\ waiting = [r \in Run |-> NoRequest]
    /\ queue = [r \in Run |-> 0]

Wait(r) == Store(r) \/ Select(r) \/ TakeCompletion(r)

BridgeNext ==
    \/ \E r \in Run :
          \/ Suspend(r) \/ Begin(r) \/ BeginRefused(r) \/ Publish(r) \/ PublishFails(r)
          \/ Wait(r) \/ InputArrives(r) \/ SelectEnds(r) \/ RunEnds(r) \/ DropRun(r)
    \/ \E q \in Request : Reply(q) \/ Cancel(q)

BridgeSpec == BridgeInit /\ [][BridgeNext]_vars

(* The engine of a run that waits goes on; no one has to answer. *)
FairBridgeSpec == BridgeSpec /\ \A r \in Run : WF_vars(Wait(r))

---------------------------------------------------------------------------
(* Properties *)

(* The state is well formed, and a request is never both open and closed at *)
(* the bridge: reply and cancel move it from one map to the other.          *)
BridgeTypeOK ==
    /\ {pending, completed, published, taken} \subseteq SUBSET Request
    /\ pending \cap completed = {}
    /\ channel \in [Request -> {"empty", "Replied", "Cancelled"}]
    /\ receiver \in [Request -> {"none", "local", "mailbox", "dropped"}]
    /\ verdict \in [Request -> {"none", "Accepted", "RunCancelling"}]
    /\ phase \in [Run -> Phases]
    /\ waiting \in [Run -> Request \cup {NoRequest}]
    /\ queue \in [Run -> 0..MaxQueue]

(* A run that waits holds the receiver of the request it waits for, and the *)
(* request is open at the bridge or its completion is in the channel: the   *)
(* mailbox is never empty in await_run_ingress nor full in                  *)
(* store_mailbox_receiver, and the branch for a closed channel, the only    *)
(* caller of cleanup_run, is never taken.                                   *)
WaitsOnLiveRequest ==
    \A r \in Run :
        /\ phase[r] = "store" => InMailbox(r) = {}
        /\ phase[r] \in {"await", "select"} =>
              LET q == waiting[r] IN
              /\ q # NoRequest
              /\ receiver[q] = IF phase[r] = "await" THEN "mailbox" ELSE "local"
              /\ q \in pending \/ (q \in completed /\ channel[q] # "empty")

(* While a run goes on, the bridge holds no request of it but the one it    *)
(* waits for: requests are left over only by runs that have ended.          *)
NoStrayRequest ==
    \A q \in pending : waiting[RunOf[q]] = q \/ Over(RunOf[q])

(* A waiter is resolved once: reply and cancel of one request race, the     *)
(* first decides, and nothing is sent after it (the receiver "MUST be       *)
(* resolved exactly once", port.rs).                                        *)
ResolvedOnce ==
    [][\A q \in completed :
          channel'[q] = channel[q] /\ verdict'[q] = verdict[q] /\ q \notin pending']_vars

(* A command that is told Accepted has woken the run: the run handles the   *)
(* completion unless it ends before.                                        *)
AcceptedIsTaken ==
    \A q \in Request :
        (verdict[q] = "Accepted") ~> (q \in taken \/ Over(RunOf[q]))

(* The maps of the bridge are sound: well typed, disjoint, and without a    *)
(* request that a run in progress has left behind.                          *)
BridgeOK == BridgeTypeOK /\ NoStrayRequest

=============================================================================
