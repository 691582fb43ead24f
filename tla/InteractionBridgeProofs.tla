---------------------- MODULE InteractionBridgeProofs ----------------------
(***************************************************************************)
(* The bridge keeps its promises for every set of runs and requests and    *)
(* every length of a round.  What a run waits for is live (Live), the      *)
(* receiver of a request is where the phase of its run says (Receivers),   *)
(* and with these the invariants the run checks are inductive.             *)
(***************************************************************************)
EXTENDS InteractionBridge, TLAPS

(* From begin to the completion a run has a request of its own, which is    *)
(* open at the bridge or has its completion in the channel; the receiver is *)
(* in the hands of the run.                                                 *)
Asking == {"publish", "store", "await", "select"}

Live ==
    \A r \in Run : phase[r] \in Asking =>
        /\ waiting[r] \in Request
        /\ receiver[waiting[r]] = IF phase[r] = "await" THEN "mailbox" ELSE "local"
        /\ \/ waiting[r] \in pending
           \/ waiting[r] \in completed /\ channel[waiting[r]] # "empty"

(* A run never waits for the request of another one, and between requests   *)
(* it waits for none.                                                       *)
OwnRequest ==
    \A r \in Run : /\ waiting[r] # NoRequest => RunOf[waiting[r]] = r
                   /\ phase[r] \in {"working", "begin"} => waiting[r] = NoRequest

(* Only the receiver of the current request is in the mailbox of a run, and *)
(* only while the run awaits it or has just ended.                          *)
Receivers ==
    \A q \in Request : receiver[q] = "mailbox" =>
        waiting[RunOf[q]] = q /\ phase[RunOf[q]] \in {"await", "over"}

(* Nothing is sent to a request that is not completed. *)
Sent == \A q \in Request : channel[q] # "empty" => q \in completed

BridgeInv == BridgeTypeOK /\ NoStrayRequest /\ Live /\ OwnRequest /\ Receivers /\ Sent

-----------------------------------------------------------------------------
(* The inductive invariant implies what the run checks. *)
LEMMA InvImplies == BridgeInv => BridgeOK /\ WaitsOnLiveRequest
  <1> SUFFICES ASSUME BridgeInv PROVE BridgeOK /\ WaitsOnLiveRequest
    OBVIOUS
  <1>1. BridgeOK
    BY DEF BridgeInv, BridgeOK
  <1>2. ASSUME NEW r \in Run, phase[r] = "store" PROVE InMailbox(r) = {}
    BY <1>2 DEF BridgeInv, Receivers, InMailbox
  <1>3. ASSUME NEW r \in Run, phase[r] \in {"await", "select"}
        PROVE  /\ waiting[r] # NoRequest
               /\ receiver[waiting[r]] = IF phase[r] = "await" THEN "mailbox" ELSE "local"
               /\ \/ waiting[r] \in pending
                  \/ waiting[r] \in completed /\ channel[waiting[r]] # "empty"
    BY <1>3, BridgeAssumption DEF BridgeInv, Live, Asking
  <1>4. QED BY <1>1, <1>2, <1>3 DEF WaitsOnLiveRequest

(* No request is registered when the session starts. *)
LEMMA InitHolds == BridgeInit => BridgeInv
  BY BridgeAssumption DEF BridgeInit, BridgeInv, BridgeTypeOK, NoStrayRequest, Live,
     OwnRequest, Receivers, Sent, Asking, Phases

(* What a step of the engine of one run does to the invariant. *)
LEMMA EngineKeeps ==
  ASSUME BridgeInv, NEW r \in Run,
         \/ Suspend(r) \/ Begin(r) \/ BeginRefused(r) \/ Publish(r) \/ PublishFails(r)
         \/ Wait(r) \/ InputArrives(r) \/ SelectEnds(r) \/ RunEnds(r) \/ DropRun(r)
  PROVE  BridgeInv'
  <1> USE BridgeAssumption DEF BridgeInv, bridgeVars, Goto, Hold
  <1> USE DEF BridgeTypeOK, NoStrayRequest, Live, OwnRequest, Receivers, Sent, Asking, Phases,
         Over
  <1>1. CASE Suspend(r) BY <1>1 DEF Suspend
  <1>2. CASE Begin(r) BY <1>2 DEF Begin, Fresh
  <1>3. CASE BeginRefused(r) BY <1>3 DEF BeginRefused
  <1>4. CASE Publish(r) BY <1>4 DEF Publish
  <1>5. CASE PublishFails(r) BY <1>5 DEF PublishFails
  <1>6. CASE Store(r) BY <1>6 DEF Store
  <1>7. CASE Select(r) BY <1>7 DEF Select, InMailbox
  <1>8. CASE TakeCompletion(r)
    <2>1. queue' \in [Run -> 0..MaxQueue]
      BY <1>8 DEF TakeCompletion
    <2>2. phase' = [phase EXCEPT ![r] = "working"] \/ phase' = [phase EXCEPT ![r] = "begin"]
      BY <1>8 DEF TakeCompletion
    <2>3. /\ receiver' = [receiver EXCEPT ![waiting[r]] = "dropped"]
          /\ waiting' = [waiting EXCEPT ![r] = NoRequest]
          /\ taken' = taken \cup {waiting[r]} /\ waiting[r] \in Request
          /\ UNCHANGED <<pending, completed, channel, verdict, published>>
      BY <1>8 DEF TakeCompletion
    <2>4. BridgeTypeOK' BY <2>1, <2>2, <2>3
    <2>5. waiting[r] \notin pending /\ phase[r] = "select"
      BY <1>8 DEF TakeCompletion
    <2>6. \A p \in Run : p # r => phase'[p] = phase[p] /\ waiting'[p] = waiting[p]
      BY <2>2, <2>3
    <2>7. phase'[r] \in {"working", "begin"} /\ waiting'[r] = NoRequest
      BY <2>2, <2>3
    <2>8. NoStrayRequest' BY <2>3, <2>5, <2>6, <2>7
    <2>9. Live' BY <2>3, <2>6, <2>7
    <2>10. OwnRequest' /\ Sent' BY <2>3, <2>6, <2>7
    <2>11. Receivers' BY <2>3, <2>6
    <2>12. QED BY <2>4, <2>8, <2>9, <2>10, <2>11
  <1>9. CASE InputArrives(r) BY <1>9 DEF InputArrives
  <1>10. CASE SelectEnds(r) BY <1>10 DEF SelectEnds
  <1>11. CASE RunEnds(r) BY <1>11 DEF RunEnds
  <1>12. CASE DropRun(r) BY <1>12 DEF DropRun, InMailbox
  <1>13. QED
    BY <1>1, <1>2, <1>3, <1>4, <1>5, <1>6, <1>7, <1>8, <1>9, <1>10, <1>11, <1>12 DEF Wait

(* The client only moves a request from one map of the bridge to the other, *)
(* and sends its completion if the receiver is still there.                 *)
LEMMA ClientKeeps ==
  ASSUME BridgeInv, NEW q \in Request, Reply(q) \/ Cancel(q)
  PROVE  BridgeInv'
  <1>1. PICK what \in {"Replied", "Cancelled"} : Resolve(q, what)
    BY DEF Reply, Cancel
  <1>2. BridgeTypeOK'
    BY <1>1 DEF Resolve, BridgeInv, BridgeTypeOK, runVars
  <1>3. Live'
    BY <1>1 DEF Resolve, BridgeInv, BridgeTypeOK, Live, Asking, runVars
  <1>4. NoStrayRequest' /\ OwnRequest' /\ Receivers' /\ Sent'
    BY <1>1 DEF Resolve, BridgeInv, BridgeTypeOK, NoStrayRequest, Over, OwnRequest,
       Receivers,
       Sent, runVars
  <1>5. QED BY <1>2, <1>3, <1>4 DEF BridgeInv

(* Every step keeps the invariant. *)
LEMMA NextKeeps == BridgeInv /\ [BridgeNext]_vars => BridgeInv'
  <1>1. ASSUME BridgeInv, UNCHANGED vars PROVE BridgeInv'
    BY <1>1 DEF vars, bridgeVars, runVars, BridgeInv, BridgeTypeOK, NoStrayRequest, Live,
       OwnRequest, Receivers, Sent, Over
  <1>2. QED BY <1>1, EngineKeeps, ClientKeeps DEF BridgeNext

(* The maps of the bridge stay disjoint and hold no request that a run in   *)
(* progress has left behind, and a run that waits holds the receiver of a   *)
(* request that is open or answered: await_run_ingress never finds an empty *)
(* mailbox, store_mailbox_receiver never a full one.                        *)
THEOREM BridgeCorrect == BridgeSpec => [](BridgeOK /\ WaitsOnLiveRequest)
  BY InitHolds, NextKeeps, InvImplies, PTL DEF BridgeSpec

(* A reply and a cancel of one request race and the first decides: once a   *)
(* request is completed, no step sends to its channel, changes the verdict  *)
(* or opens it again.                                                       *)
THEOREM ResolvedOnceHolds == BridgeSpec => ResolvedOnce
  <1>1. BridgeInv /\ [BridgeNext]_vars =>
          [\A q \in completed :
             channel'[q] = channel[q] /\ verdict'[q] = verdict[q] /\ q \notin pending']_vars
    <2> SUFFICES ASSUME BridgeInv, BridgeNext, NEW q \in completed
                 PROVE  /\ channel'[q] = channel[q] /\ verdict'[q] = verdict[q]
                        /\ q \notin pending'
      OBVIOUS
    <2>1. q \notin pending /\ q \in Request
      BY DEF BridgeInv, BridgeTypeOK
    <2>2. ASSUME NEW r \in Run, Begin(r) PROVE UNCHANGED <<channel, verdict>> /\ q \notin pending'
      BY <2>1, <2>2 DEF Begin, Fresh
    <2>3. ASSUME NEW p \in Request, Reply(p) \/ Cancel(p)
          PROVE  /\ channel'[q] = channel[q] /\ verdict'[q] = verdict[q]
                 /\ q \notin pending'
      BY <2>1, <2>3 DEF Reply, Cancel, Resolve, BridgeInv, BridgeTypeOK
    <2>4. CASE UNCHANGED bridgeVars
      BY <2>1, <2>4 DEF bridgeVars
    <2>5. QED
      BY <2>2, <2>3, <2>4 DEF BridgeNext, Wait, Suspend, BeginRefused, Publish,
         PublishFails,
         Store, Select, TakeCompletion, InputArrives, SelectEnds, RunEnds, DropRun
  <1>2. QED BY <1>1, InitHolds, NextKeeps, PTL DEF BridgeSpec, ResolvedOnce

(* A command that was told Accepted is not forgotten: until the run has     *)
(* handled the completion or has ended, it waits for that very request with *)
(* the completion in the channel, so its next step can only be towards it.  *)
AcceptedIsHeld ==
    \A q \in Request : verdict[q] = "Accepted" =>
        \/ q \in taken \/ Over(RunOf[q])
        \/ /\ waiting[RunOf[q]] = q /\ phase[RunOf[q]] \in Asking
           /\ channel[q] # "empty"

(* The safety part of AcceptedIsTaken: between the verdict of               *)
(* reply_interaction or cancel_interaction and the select of                *)
(* await_run_ingress nothing takes the completion away from the run.        *)
THEOREM AcceptedIsHeldHolds == BridgeSpec => []AcceptedIsHeld
  <1>1. BridgeInit => AcceptedIsHeld
    BY DEF BridgeInit, AcceptedIsHeld
  <1>2. BridgeInv /\ AcceptedIsHeld /\ [BridgeNext]_vars => AcceptedIsHeld'
    <2> SUFFICES ASSUME BridgeInv, AcceptedIsHeld, [BridgeNext]_vars, NEW q \in Request,
                        verdict'[q] = "Accepted"
                 PROVE  \/ q \in taken' \/ Over(RunOf[q])'
                        \/ /\ waiting'[RunOf[q]] = q /\ phase'[RunOf[q]] \in Asking
                           /\ channel'[q] # "empty"
      BY DEF AcceptedIsHeld
    <2> DEFINE o == RunOf[q]
    <2>1. o \in Run BY BridgeAssumption
    <2> HIDE DEF o
    <2> USE DEF BridgeInv, BridgeTypeOK, OwnRequest, Asking, Phases, Over, Goto, Hold, bridgeVars
    <2>2. ASSUME NEW p \in Request, NEW what \in {"Replied", "Cancelled"}, Resolve(p, what)
          PROVE  \/ q \in taken' \/ Over(o)'
                 \/ waiting'[o] = q /\ phase'[o] \in Asking /\ channel'[q] # "empty"
      <3>1. CASE p # q
        BY <2>1, <2>2, <3>1 DEF Resolve, runVars, AcceptedIsHeld, o
      <3>2. CASE p = q
        <4>1. waiting[o] = q \/ Over(o)
          BY <2>2, <3>2 DEF Resolve, NoStrayRequest, o
        <4>2. waiting[o] = q => phase[o] \in Asking \/ Over(o)
          BY <2>1, BridgeAssumption
        <4>3. channel'[q] # "empty"
          BY <2>2, <3>2 DEF Resolve
        <4>4. QED BY <2>1, <2>2, <4>1, <4>2, <4>3 DEF Resolve, runVars
      <3>3. QED BY <3>1, <3>2
    <2>3. ASSUME NEW p \in Request, Reply(p) \/ Cancel(p)
          PROVE  \/ q \in taken' \/ Over(o)'
                 \/ waiting'[o] = q /\ phase'[o] \in Asking /\ channel'[q] # "empty"
      BY <2>2, <2>3 DEF Reply, Cancel
    <2>4. ASSUME UNCHANGED <<channel, verdict>>
          PROVE  \/ q \in taken \/ Over(o)
                 \/ waiting[o] = q /\ phase[o] \in Asking /\ channel[q] # "empty"
      BY <2>4 DEF AcceptedIsHeld, o
    <2>5. ASSUME NEW r \in Run,
                 \/ Suspend(r) \/ Begin(r) \/ BeginRefused(r) \/ Publish(r) \/ PublishFails(r)
                 \/ Wait(r) \/ InputArrives(r) \/ SelectEnds(r) \/ RunEnds(r) \/ DropRun(r)
          PROVE  \/ q \in taken' \/ Over(o)'
                 \/ waiting'[o] = q /\ phase'[o] \in Asking /\ channel'[q] # "empty"
      <3>1. CASE r = o
        <4>1. CASE Suspend(o) \/ Begin(o)
          BY <2>1, <2>4, <4>1, BridgeAssumption DEF Suspend, Begin
        <4>2. CASE Publish(o) \/ Store(o) \/ Select(o)
          BY <2>1, <2>4, <4>2 DEF Publish, Store, Select
        <4>3. CASE TakeCompletion(o)
          BY <2>1, <2>4, <4>3 DEF TakeCompletion
        <4>4. CASE InputArrives(o)
          BY <2>1, <2>4, <4>4 DEF InputArrives
        <4>5. CASE BeginRefused(o) \/ PublishFails(o) \/ SelectEnds(o) \/ RunEnds(o) \/ DropRun(o)
          BY <2>1, <4>5 DEF BeginRefused, PublishFails, SelectEnds, RunEnds, DropRun
        <4>6. QED BY <2>5, <3>1, <4>1, <4>2, <4>3, <4>4, <4>5 DEF Wait
      <3>2. CASE r # o
        BY <2>1, <2>4, <2>5, <3>2 DEF Suspend, Begin, BeginRefused, Publish,
           PublishFails, Wait, Store, Select, TakeCompletion, InputArrives, SelectEnds, RunEnds,
           DropRun
      <3>3. QED BY <3>1, <3>2
    <2>6. CASE UNCHANGED vars
      BY <2>4, <2>6 DEF vars, runVars, o
    <2>7. QED BY <2>3, <2>5, <2>6 DEF BridgeNext, o
  <1>3. QED BY <1>1, <1>2, InitHolds, NextKeeps, PTL DEF BridgeSpec
=============================================================================
