---------------------------- MODULE DatasetStore ----------------------------
(***************************************************************************)
(* What AtomicDatasetPort promises its callers: one dataset is a current   *)
(* and a previous version, and an operation changes them in one step.      *)
(*                                                                         *)
(* call is the caller's operation while its own part is executed, after    *)
(* the recovery that precedes it; it is NoCall during recovery, past the   *)
(* commit point and when nobody holds the lock.  A version is replaced or  *)
(* dropped only by a call that asks for it.                                *)
(*                                                                         *)
(* undo is empty when the last transaction is certain.  Otherwise it holds *)
(* the versions before a transaction that recovery may still take back.    *)
(* evidence is set once stored bytes have been damaged: what recovery then *)
(* does to the two versions is left open here.                             *)
(***************************************************************************)
CONSTANTS Version, None

VARIABLES cur, prev, undo, evidence, call

storeVars == <<cur, prev, undo, evidence, call>>

MaybeVersion == Version \cup {None}
Before == {[cur |-> cur, prev |-> prev]}
Call == [kind : {"none", "read", "commit", "promote", "quarantine", "delete"},
         version : MaybeVersion, gen : {"primary", "previous"}]
NoCall == [kind |-> "none", version |-> None, gen |-> "primary"]

StoreInit ==
    cur = None /\ prev = None /\ undo = {} /\ evidence = FALSE /\ call = NoCall

(* A call gets to its own part, or leaves it without a change.             *)
Turn ==
    /\ (call = NoCall /\ call' \in Call) \/ call' = NoCall
    /\ UNCHANGED <<cur, prev, undo, evidence>>

(* A commit replaces the current version, which becomes the previous one;  *)
(* with no current version the previous one stays.                         *)
Commit(v) ==
    /\ call.kind = "commit" /\ call.version = v /\ call' = NoCall
    /\ cur' = v
    /\ prev' = IF cur = None THEN prev ELSE cur
    /\ UNCHANGED <<undo, evidence>>

(* A commit whose journal is in place and whose caller was told otherwise. *)
DoubtfulCommit(v) ==
    /\ call.kind = "commit" /\ call.version = v /\ call' = NoCall
    /\ cur' = v
    /\ prev' \in {prev, cur}
    /\ undo' = Before
    /\ UNCHANGED evidence

(* The previous version becomes current; never certain when there is no    *)
(* current version to swap it with.                                        *)
Promote ==
    /\ call.kind = "promote" /\ call' = NoCall
    /\ prev # None
    /\ cur' = prev
    /\ prev' = cur
    /\ undo' \in {{}, Before} /\ (cur = None => undo' = Before)
    /\ UNCHANGED evidence

(* Recovery settles a transaction in doubt, applied or not; what is staged *)
(* for it may be taken away first, while its journal cannot be.            *)
Settle ==
    /\ call = NoCall /\ call' \in Call
    /\ \E u \in undo :
        /\ cur' \in {cur, u.cur}
        /\ prev' \in {prev, u.prev}
        /\ undo' \in {{}, undo}
        /\ UNCHANGED evidence

(* Quarantine of a generation by the caller and deletion.                  *)
Asks(g) == call.kind = "delete" \/ (call.kind = "quarantine" /\ call.gen = g)
DropCurrent ==
    /\ Asks("primary") /\ call' \in {call, NoCall}
    /\ cur' = None /\ UNCHANGED <<prev, undo, evidence>>
DropPrevious ==
    /\ Asks("previous") /\ call' \in {call, NoCall}
    /\ prev' = None /\ UNCHANGED <<cur, undo, evidence>>

(* Bytes are damaged, and what recovery makes of it.                       *)
Damaged ==
    /\ evidence' = TRUE
    /\ cur' \in MaybeVersion /\ prev' \in MaybeVersion
    /\ undo' \in SUBSET [cur : MaybeVersion, prev : MaybeVersion]
    /\ call' \in Call

StoreNext ==
    \/ \E v \in Version : Commit(v) \/ DoubtfulCommit(v)
    \/ Turn \/ Promote \/ Settle \/ DropCurrent \/ DropPrevious
    \/ Damaged

StoreSpec == StoreInit /\ [][StoreNext]_storeVars
=============================================================================
