--------------------------- MODULE TaskStoreProofs ---------------------------
(***************************************************************************)
(* The task store is coherent for every width of its counters and every    *)
(* range of the clock.  Three invariants are inductive together: the       *)
(* dependency graph (GraphCoherent), the books of tasks and batches        *)
(* (BooksOK) and, as long as stamps reach the store in order, timestamps   *)
(* (StampsOK).  A snapshot then always passes its validation.              *)
(***************************************************************************)
EXTENDS TaskStore, TLAPS, WellFoundedInduction

(* Tasks and batches in the maps were created with ids below the counters;  *)
(* a task is in a batch that exists, and its number is at most its id,      *)
(* which keeps next_seq within the width of an id.                          *)
TaskFiled(t) ==
    status[t] # "none" =>
        /\ t < nextTask
        /\ taskOf[t].batch \in BatchId /\ batches[taskOf[t].batch] # "none"
        /\ taskOf[t].seq \in 1..t

BooksOK ==
    /\ \A t \in TaskId : TaskFiled(t)
    /\ \A b \in BatchId : batches[b] # "none" => b < nextBatch
    /\ OneActiveBatch /\ SeqUnique

(* As long as stamps reach the store in order, the last change of a task is *)
(* not later than the last stamp.                                           *)
StampsOK ==
    outOfOrder \/ \A t \in TaskId : Live(t) =>
                      ValidTaskTimestamps(t) /\ stamps[t].updated <= clock

TaskStoreInv == TaskStoreTypeOK /\ GraphCoherent /\ BooksOK /\ StampsOK
-----------------------------------------------------------------------------
(* The sets of tasks that Acyclic speaks of. *)
LEMMA NonEmpty ==
  ASSUME NEW S, NEW T
  PROVE  T \in (SUBSET S) \ {{}} <=> T \subseteq S /\ \E x : x \in T
  <1>1. T # {} <=> \E x : x \in T OBVIOUS
  <1>2. T \in SUBSET S <=> T \subseteq S OBVIOUS
  <1>3. T \in (SUBSET S) \ {{}} <=> T \in SUBSET S /\ T # {} OBVIOUS
  <1>4. QED BY <1>1, <1>2, <1>3

(* The inductive invariant implies what the run checks. *)
LEMMA InvImplies == TaskStoreInv => TaskStoreOK /\ GraphCoherent /\ SnapshotRestores
  <1> SUFFICES ASSUME TaskStoreInv PROVE TaskStoreOK /\ GraphCoherent /\ SnapshotRestores
    OBVIOUS
  <1>1. TaskStoreOK /\ GraphCoherent
    BY DEF TaskStoreInv, BooksOK, TaskStoreOK
  <1>2. ASSUME NEW t \in TaskId, Live(t)
        PROVE  /\ taskOf[t].batch \in BatchId /\ batches[taskOf[t].batch] # "none"
               /\ Dangling(t) = {} /\ t < nextTask
    <2>1. \A d \in blockedBy[t] : d # t /\ d \in TaskId
      <3>1. \A d \in blockedBy[t] : d \in TaskId
        BY DEF TaskStoreInv, TaskStoreTypeOK
      <3>2. t \notin blockedBy[t]
        <4>1. {t} \in (SUBSET TaskId) \ {{}} BY <1>2, NonEmpty
        <4>2. QED BY <4>1 DEF TaskStoreInv, GraphCoherent, Acyclic
      <3>3. QED BY <3>1, <3>2
    <2>2. QED
      BY <1>2, <2>1 DEF TaskStoreInv, BooksOK, TaskFiled, Live, Dangling, GraphCoherent
  <1>3. {b \in BatchId : batches[b] = "Active"} = {current} \ {NoBatch}
    BY TaskStoreAssumption DEF TaskStoreInv, BooksOK, OneActiveBatch, TaskStoreTypeOK,
       BatchId,
       NoBatch
  <1>4. ValidSnapshot
    BY <1>1, <1>2, <1>3 DEF ValidSnapshot, GraphCoherent, TaskStoreInv, BooksOK
  <1>5. outOfOrder \/ \A t \in TaskId : Live(t) => ValidTaskTimestamps(t)
    BY DEF TaskStoreInv, StampsOK
  <1>6. QED BY <1>1, <1>4, <1>5 DEF SnapshotRestores

(* An empty store is coherent. *)
LEMMA InitHolds == TaskStoreInit => TaskStoreInv
  <1> SUFFICES ASSUME TaskStoreInit PROVE TaskStoreInv
    OBVIOUS
  <1> USE TaskStoreAssumption DEF TaskStoreInit, TaskId, BatchId, Time, NoTime, NoBatch
  <1>1. TaskStoreTypeOK
    <2>1. NoStamps \in [created : Time, updated : Time, started : Time \cup {NoTime},
                        completed : Time \cup {NoTime}]
      BY DEF NoStamps
    <2>2. [batch |-> NoBatch, seq |-> 0] \in [batch : BatchId \cup {NoBatch}, seq : 0..MaxTask]
      OBVIOUS
    <2>3. nextTask \in TaskId /\ nextBatch \in BatchId
      OBVIOUS
    <2>4. outOfOrder \in BOOLEAN BY Zenon
    <2>5. QED BY <2>1, <2>2, <2>3, <2>4 DEF TaskStoreTypeOK
  <1>2. GraphCoherent
    <2>1. \A t \in TaskId : blockedBy[t] = {} /\ blocks[t] = {}
      OBVIOUS
    <2> HIDE DEF TaskStoreInit, TaskId
    <2>2. ASSUME NEW ts \in (SUBSET TaskId) \ {{}} PROVE \E t \in ts : blockedBy[t] \cap ts = {}
      <3>1. PICK t : t \in ts BY <2>2, NonEmpty
      <3>2. t \in TaskId BY <2>2, <3>1, NonEmpty
      <3>3. QED BY <2>1, <3>1, <3>2
    <2>3. Acyclic BY <2>2 DEF Acyclic
    <2>4. QED BY <2>1, <2>3 DEF GraphCoherent
  <1>3. BooksOK /\ StampsOK
    BY DEF BooksOK, TaskFiled, OneActiveBatch, SeqUnique, TasksOf, StampsOK, Live
  <1>4. QED BY <1>1, <1>2, <1>3 DEF TaskStoreInv
-----------------------------------------------------------------------------
(* The dependency graph *)

(* The edges of a graph without cycles may be taken away. *)
LEMMA FewerEdges ==
  ASSUME Acyclic, \A t \in TaskId : blockedBy'[t] \subseteq blockedBy[t]
  PROVE  Acyclic'
  BY DEF Acyclic

(* The walk of would_create_cycle is enough: where none of the new blockers *)
(* reaches t, a set of tasks that waits for itself after the change has a   *)
(* part, closed under blockedBy, that did so before.                        *)
LEMMA NoNewCycle ==
  ASSUME Acyclic, blockedBy \in [TaskId -> SUBSET TaskId], NEW t \in TaskId,
         NEW deps \in SUBSET TaskId, \A d \in deps : ~WouldCreateCycle(t, d),
         blockedBy' = [blockedBy EXCEPT ![t] = deps]
  PROVE  Acyclic'
  <1> SUFFICES ASSUME NEW ts \in SUBSET TaskId, ts # {},
                      \A u \in ts : blockedBy'[u] \cap ts # {}
               PROVE  FALSE
    BY DEF Acyclic
  <1>1. CASE t \notin ts
    BY <1>1 DEF Acyclic
  <1>2. CASE t \in ts
    <2>1. PICK d \in deps : d \in ts
      <3>1. blockedBy'[t] \cap ts # {} /\ blockedBy'[t] = deps BY <1>2
      <3>2. QED BY <3>1
    <2>2. PICK reached \in SUBSET TaskId :
             /\ d \in reached /\ t \notin reached
             /\ \A u \in reached : blockedBy[u] \subseteq reached
      BY <2>1 DEF WouldCreateCycle
    <2>3. \A u \in ts \cap reached : blockedBy[u] \cap (ts \cap reached) # {}
      BY <2>2
    <2>4. ts \cap reached \in (SUBSET TaskId) \ {{}}
      <3>1. d \in ts \cap reached BY <2>1, <2>2
      <3>2. QED BY <3>1, NonEmpty
    <2>5. QED BY <2>3, <2>4 DEF Acyclic
  <1>3. QED BY <1>1, <1>2

(* What an edge says: both ends are live and in one batch, and the reverse  *)
(* index has it.                                                            *)
LEMMA Edges ==
  ASSUME GraphCoherent, NEW t \in TaskId, NEW d \in TaskId
  PROVE  /\ d \in blockedBy[t] <=> t \in blocks[d]
         /\ d \in blockedBy[t] => Live(t) /\ Live(d) /\ taskOf[t].batch = taskOf[d].batch
  BY DEF GraphCoherent

(* Commands that leave the edges alone and let live tasks live. *)
LEMMA EdgesAlone ==
  ASSUME GraphCoherent, UNCHANGED graph,
         \A t \in TaskId : Live(t) => Live(t)' /\ taskOf'[t].batch = taskOf[t].batch
  PROVE  GraphCoherent'
  BY DEF GraphCoherent, Acyclic, graph

(* Deletion takes a task out of the graph, in both directions. *)
LEMMA WithoutKeeps ==
  ASSUME TaskStoreTypeOK, GraphCoherent, NEW t \in TaskId, NEW now, Without(t, now),
         UNCHANGED taskOf
  PROVE  GraphCoherent'
  <1>1. \A d \in TaskId : blockedBy'[d] = IF d = t THEN {} ELSE blockedBy[d] \ {t}
    BY DEF Without
  <1>2. \A d \in TaskId : blocks'[d] = IF d = t THEN {} ELSE blocks[d] \ {t}
    BY DEF Without
  <1>3. Acyclic'
    BY <1>1, FewerEdges DEF GraphCoherent
  <1>4. \A d \in TaskId : d # t => status'[d] = status[d]
    BY DEF Without, TaskStoreTypeOK
  <1>5. ASSUME NEW u \in TaskId, NEW d \in TaskId
        PROVE  /\ d \in blockedBy'[u] <=> u \in blocks'[d]
               /\ d \in blockedBy'[u] =>
                     Live(u)' /\ Live(d)' /\ taskOf'[u].batch = taskOf'[d].batch
    <2>1. /\ d \in blockedBy[u] <=> u \in blocks[d]
          /\ d \in blockedBy[u] => Live(u) /\ Live(d) /\ taskOf[u].batch = taskOf[d].batch
      BY Edges
    <2>2. d \in blockedBy'[u] <=> u \in blocks'[d]
      BY <1>1, <1>2, <2>1
    <2>3. ASSUME d \in blockedBy'[u] PROVE d # t /\ u # t /\ d \in blockedBy[u]
      BY <1>1, <2>3
    <2>4. QED BY <1>4, <2>1, <2>2, <2>3 DEF Live
  <1>6. QED BY <1>3, <1>5 DEF GraphCoherent

(* Every command keeps the graph coherent. *)
LEMMA GraphKeeps ==
  ASSUME TaskStoreInv, [TaskStoreNext]_vars PROVE GraphCoherent'
  <1> USE DEF TaskStoreInv
  <1>1. CASE CreateBatch \/ \E b \in BatchId : ArchiveBatch(b)
    BY <1>1, EdgesAlone DEF CreateBatch, ArchiveBatch, Live
  <1>2. CASE Clear
    <2>1. \A t \in TaskId : blockedBy'[t] = {} /\ blocks'[t] = {}
      BY <1>2 DEF Clear
    <2>2. QED BY <2>1, FewerEdges DEF GraphCoherent
  <1>3. CASE Resume
    <2>1. \A t \in TaskId : blockedBy'[t] = IF Live(t) THEN blockedBy[t] ELSE {}
      BY <1>3 DEF Resume
    <2>2. \A t, d \in TaskId : t \in blocks'[d] <=> Live(t) /\ d \in blockedBy[t]
      BY <1>3 DEF Resume
    <2>3. \A t \in TaskId : Live(t) => Live(t)' /\ taskOf'[t] = taskOf[t]
      BY <1>3 DEF Resume, Live
    <2>4. QED BY <2>1, <2>2, <2>3, FewerEdges, Edges DEF GraphCoherent
  <1>4. ASSUME NEW now \in Time, CreateTask(now) PROVE GraphCoherent'
    <2>1. nextTask \in TaskId /\ status[nextTask] = "none" /\ UNCHANGED graph
      BY <1>4 DEF CreateTask, TaskStoreTypeOK, TaskId, BooksOK, TaskFiled
    <2>2. \A t \in TaskId : t # nextTask => status'[t] = status[t] /\ taskOf'[t] = taskOf[t]
      BY <1>4 DEF CreateTask, TaskStoreTypeOK
    <2>3. QED BY <2>1, <2>2, EdgesAlone DEF Live
  <1>5. ASSUME NEW t \in TaskId, NEW now \in Time, Edit(t, now) PROVE GraphCoherent'
    BY <1>5, EdgesAlone DEF Edit, Live
  <1>6. ASSUME NEW t \in TaskId, NEW now \in Time, Delete(t, now) PROVE GraphCoherent'
    BY <1>6, WithoutKeeps DEF Delete
  <1>7. ASSUME NEW t \in TaskId, NEW now \in Time, DeleteWithProgress(t, now)
        PROVE  GraphCoherent'
    BY <1>7, WithoutKeeps, EdgesAlone DEF DeleteWithProgress, Live
  <1>8. ASSUME NEW t \in TaskId, NEW now \in Time, NEW to \in TaskStatus \ {"Deleted"},
               TransitionWithProgress(t, to, now)
        PROVE  GraphCoherent'
    BY <1>8, EdgesAlone DEF TransitionWithProgress, TaskStatus, TaskStoreTypeOK, Live
  <1>9. ASSUME NEW t \in TaskId, NEW now \in Time, NEW deps \in SUBSET TaskId,
               ReplaceDependencies(t, deps, now)
        PROVE  GraphCoherent'
    <2>1. Acyclic'
      BY <1>9, NoNewCycle DEF ReplaceDependencies, GraphCoherent, TaskStoreTypeOK
    <2>2. \A u \in TaskId : blockedBy'[u] = IF u = t THEN deps ELSE blockedBy[u]
      BY <1>9 DEF ReplaceDependencies, TaskStoreTypeOK
    <2>3. \A d \in TaskId :
             blocks'[d] = IF d \in deps THEN blocks[d] \cup {t} ELSE blocks[d] \ {t}
      BY <1>9 DEF ReplaceDependencies
    <2>4. /\ Live(t) /\ UNCHANGED <<status, taskOf>>
          /\ \A d \in deps : Live(d) /\ taskOf[d].batch = taskOf[t].batch
      BY <1>9 DEF ReplaceDependencies
    <2>5. ASSUME NEW u \in TaskId, NEW d \in TaskId
          PROVE  /\ d \in blockedBy'[u] <=> u \in blocks'[d]
                 /\ d \in blockedBy'[u] =>
                       Live(u)' /\ Live(d)' /\ taskOf'[u].batch = taskOf'[d].batch
      <3>1. /\ d \in blockedBy[u] <=> u \in blocks[d]
            /\ d \in blockedBy[u] => Live(u) /\ Live(d) /\ taskOf[u].batch = taskOf[d].batch
        BY Edges
      <3>2. d \in blockedBy'[u] <=> u \in blocks'[d]
        BY <2>2, <2>3, <3>1
      <3>3. d \in blockedBy'[u] => Live(u) /\ Live(d) /\ taskOf[u].batch = taskOf[d].batch
        BY <2>2, <2>4, <3>1
      <3>4. QED BY <2>4, <3>2, <3>3 DEF Live
    <2>6. QED BY <2>1, <2>5 DEF GraphCoherent
  <1>10. CASE UNCHANGED vars
    BY <1>10, EdgesAlone DEF vars, store, Live
  <1>11. QED
    BY <1>1, <1>2, <1>3, <1>4, <1>5, <1>6, <1>7, <1>8, <1>9, <1>10 DEF TaskStoreNext
-----------------------------------------------------------------------------
(* Tasks and batches *)

(* A bounded set of numbers has a largest element. *)
LEMMA LargestExists ==
  ASSUME NEW n \in Nat, NEW S \in SUBSET (1..n), NEW e \in S
  PROVE  \E m \in S : \A k \in S : k <= m
  <1> DEFINE T == {n - k : k \in S}
  <1>1. T \subseteq Nat /\ n - e \in T OBVIOUS
  <1>2. PICK x \in T : \A y \in T : ~(<<y, x>> \in OpToRel(<, Nat))
    BY <1>1, NatLessThanWellFounded, WFMin
  <1>3. \A y \in T : ~(y < x)
    BY <1>1, <1>2 DEF OpToRel
  <1>4. PICK m \in S : x = n - m OBVIOUS
  <1>5. ASSUME NEW k \in S PROVE k <= m
    <2>1. n - k \in T OBVIOUS
    <2>2. ~(n - k < n - m) BY <1>3, <1>4, <2>1
    <2> HIDE DEF T
    <2>3. QED BY <2>2
  <1>6. QED BY <1>5

(* next_seq is a number that no task of the batch has. *)
LEMMA NextSeqFresh ==
  ASSUME TaskStoreTypeOK, BooksOK, NEW b \in BatchId, nextTask < MaxTask
  PROVE  /\ NextSeq(b) \in 1..nextTask
         /\ \A t \in TasksOf(b) : taskOf[t].seq < NextSeq(b)
  <1> USE TaskStoreAssumption
  <1>1. \A t \in TasksOf(b) : t \in TaskId /\ t < nextTask /\ taskOf[t].seq \in 1..t
    BY DEF TasksOf, BooksOK, TaskFiled
  <1>2. CASE TasksOf(b) = {}
    BY <1>2 DEF NextSeq, TaskStoreTypeOK, TaskId
  <1>3. CASE TasksOf(b) # {}
    <2> DEFINE Largest(n) == /\ \E t \in TasksOf(b) : taskOf[t].seq = n
                             /\ \A t \in TasksOf(b) : taskOf[t].seq <= n
               S == {taskOf[t].seq : t \in TasksOf(b)}
               m == CHOOSE n \in 1..MaxTask : Largest(n)
    <2>1. S \in SUBSET (1..MaxTask) /\ \E e : e \in S
      BY <1>1, <1>3 DEF TaskId
    <2>2. \E n \in S : \A k \in S : k <= n
      BY <2>1, LargestExists
    <2>3. \E n \in 1..MaxTask : Largest(n)
      BY <2>1, <2>2
    <2>4. m \in 1..MaxTask /\ Largest(m)
      BY <2>3
    <2>5. NextSeq(b) = 1 + m
      BY <1>3 DEF NextSeq
    <2> HIDE DEF m
    <2>6. QED BY <1>1, <2>4, <2>5 DEF TaskStoreTypeOK, TaskId
  <1>4. QED BY <1>2, <1>3
-----------------------------------------------------------------------------
(* Types *)
Stamp == [created : Time, updated : Time,
          started : Time \cup {NoTime}, completed : Time \cup {NoTime}]
Filing == [batch : BatchId \cup {NoBatch}, seq : 0..MaxTask]
BatchStatus == {"none", "Active", "Paused", "Archived"}

LEMMA StampTypes ==
         /\ NoStamps \in Stamp
         /\ \A s \in Stamp, now \in Time : [s EXCEPT !.updated = now] \in Stamp
         /\ \A now \in Time : [NoStamps EXCEPT !.created = now, !.updated = now] \in Stamp
         /\ [batch |-> NoBatch, seq |-> 0] \in Filing
  <1> USE TaskStoreAssumption
  <1>1. NoStamps \in Stamp BY DEF NoStamps, Stamp, Time
  <1>2. \A s \in Stamp, now \in Time : [s EXCEPT !.updated = now] \in Stamp BY DEF Stamp
  <1>3. \A s \in Stamp, now \in Time :
           [s EXCEPT !.created = now, !.updated = now] \in Stamp BY DEF Stamp
  <1>4. [batch |-> NoBatch, seq |-> 0] \in Filing BY DEF Filing
  <1>5. QED BY <1>1, <1>2, <1>3, <1>4

LEMMA MovedType ==
  ASSUME TaskStoreTypeOK, NEW t \in TaskId, NEW now \in Time,
         NEW to \in TaskStatus \ {"Deleted"}
  PROVE  Moved(t, to, now) \in Stamp
  <1>1. stamps[t] \in Stamp BY DEF TaskStoreTypeOK, Stamp
  <1>2. CASE to = "Pending" BY <1>1, <1>2 DEF Moved, Stamp
  <1>3. CASE to = "InProgress" BY <1>1, <1>3 DEF Moved, Stamp
  <1>4. CASE to = "Completed" BY <1>1, <1>4 DEF Moved, Stamp
  <1>5. QED BY <1>2, <1>3, <1>4 DEF TaskStatus

(* The parts of the type invariant that a command replaces. *)
LEMMA TouchType ==
  ASSUME TaskStoreTypeOK, NEW ts, NEW now \in Time
  PROVE  Touch(ts, now) \in [TaskId -> Stamp]
  <1>1. \A t \in TaskId : stamps[t] \in Stamp BY DEF TaskStoreTypeOK, Stamp
  <1>2. QED BY <1>1, StampTypes DEF Touch

LEMMA ClockType ==
  ASSUME TaskStoreTypeOK, NEW now \in Time, At(now) \/ NoClock
  PROVE  clock' \in Time /\ outOfOrder' \in BOOLEAN
  BY DEF At, NoClock, TaskStoreTypeOK

LEMMA CommitType ==
  ASSUME TaskStoreTypeOK, Commit PROVE revision' \in 0..MaxRevision
  BY TaskStoreAssumption DEF Commit, TaskStoreTypeOK

LEMMA CloseType ==
  ASSUME TaskStoreTypeOK, NEW b \in BatchId, NEW after, CloseWhenDone(b, after) \/ Archived(b)
  PROVE  batches' \in [BatchId -> BatchStatus] /\ current' \in BatchId \cup {NoBatch}
  BY DEF TaskStoreTypeOK, CloseWhenDone, Archived, BatchStatus

LEMMA WithoutType ==
  ASSUME TaskStoreTypeOK, NEW t \in TaskId, NEW now \in Time, Without(t, now)
  PROVE  /\ status' \in [TaskId -> TaskStatus \cup {"none"}]
         /\ {blockedBy', blocks'} \subseteq [TaskId -> SUBSET TaskId]
         /\ stamps' \in [TaskId -> Stamp]
  BY TouchType DEF Without, TaskStoreTypeOK, TaskStatus

(* Every command keeps the types. *)
LEMMA TypeKeeps ==
  ASSUME TaskStoreInv, [TaskStoreNext]_vars PROVE TaskStoreTypeOK'
  <1> USE TaskStoreAssumption DEF TaskStoreInv
  <1>0. TaskStoreTypeOK' <=>
          /\ status' \in [TaskId -> TaskStatus \cup {"none"}]
          /\ taskOf' \in [TaskId -> Filing]
          /\ {blockedBy', blocks'} \subseteq [TaskId -> SUBSET TaskId]
          /\ stamps' \in [TaskId -> Stamp]
          /\ batches' \in [BatchId -> BatchStatus]
          /\ nextTask' \in TaskId /\ nextBatch' \in BatchId
          /\ current' \in BatchId \cup {NoBatch}
          /\ revision' \in 0..MaxRevision /\ clock' \in Time /\ outOfOrder' \in BOOLEAN
    BY DEF TaskStoreTypeOK, Stamp, Filing, BatchStatus
  <1>00. /\ status \in [TaskId -> TaskStatus \cup {"none"}]
         /\ taskOf \in [TaskId -> Filing]
         /\ {blockedBy, blocks} \subseteq [TaskId -> SUBSET TaskId]
         /\ stamps \in [TaskId -> Stamp]
         /\ batches \in [BatchId -> BatchStatus]
         /\ nextTask \in TaskId /\ nextBatch \in BatchId
         /\ current \in BatchId \cup {NoBatch}
         /\ revision \in 0..MaxRevision /\ clock \in Time /\ outOfOrder \in BOOLEAN
    BY DEF TaskStoreTypeOK, Stamp, Filing, BatchStatus
  <1>1. CASE CreateBatch
    <2>1. nextBatch + 1 \in BatchId BY <1>1, <1>00 DEF CreateBatch, BatchId
    <2>2. batches' \in [BatchId -> BatchStatus] BY <1>1, <1>00 DEF CreateBatch, BatchStatus
    <2>3. QED
      BY <1>0, <1>00, <1>1, <2>1, <2>2, CommitType, ClockType DEF CreateBatch, graph,
         NoClock
  <1>2. CASE Clear
    <2>0. nextBatch' \in BatchId /\ current' \in BatchId \cup {NoBatch}
      BY <1>2 DEF Clear, BatchId
    <2>1. /\ batches' \in [BatchId -> BatchStatus]
          /\ status' \in [TaskId -> TaskStatus \cup {"none"}]
          /\ taskOf' \in [TaskId -> Filing] /\ stamps' \in [TaskId -> Stamp]
      BY <1>2, StampTypes DEF Clear, BatchStatus
    <2>2. {blockedBy', blocks'} \subseteq [TaskId -> SUBSET TaskId]
      BY <1>2 DEF Clear
    <2>3. QED BY <1>0, <1>00, <1>2, <2>0, <2>1, <2>2, CommitType DEF Clear, NoClock
  <1>3. CASE Resume
    <2>1. /\ status' \in [TaskId -> TaskStatus \cup {"none"}]
          /\ taskOf' \in [TaskId -> Filing] /\ stamps' \in [TaskId -> Stamp]
      BY <1>3, <1>00, StampTypes DEF Resume
    <2>2. {blockedBy', blocks'} \subseteq [TaskId -> SUBSET TaskId]
      BY <1>3, <1>00 DEF Resume
    <2>3. QED BY <1>0, <1>00, <1>3, <2>1, <2>2 DEF Resume, counters
  <1>4. ASSUME NEW now \in Time, CreateTask(now) PROVE TaskStoreTypeOK'
    <2>1. current \in BatchId /\ nextTask + 1 \in TaskId
      BY <1>4, <1>00 DEF CreateTask, TaskId
    <2>2. NextSeq(current) \in 0..MaxTask
      BY <1>4, <1>00, <2>1, NextSeqFresh DEF CreateTask, TaskId
    <2>3. taskOf' \in [TaskId -> Filing]
      BY <1>4, <1>00, <2>1, <2>2 DEF CreateTask, Filing
    <2>4. status' \in [TaskId -> TaskStatus \cup {"none"}] /\ stamps' \in [TaskId -> Stamp]
      BY <1>4, <1>00, StampTypes DEF CreateTask, TaskStatus
    <2>5. QED
      BY <1>0, <1>00, <1>4, <2>1, <2>3, <2>4, CommitType, ClockType DEF CreateTask, graph
  <1>5. ASSUME NEW t \in TaskId, NEW now \in Time, Edit(t, now) PROVE TaskStoreTypeOK'
    BY <1>0, <1>00, <1>5, TouchType, CommitType, ClockType DEF Edit, graph, counters
  <1>6. ASSUME NEW t \in TaskId, NEW now \in Time, Delete(t, now) PROVE TaskStoreTypeOK'
    BY <1>0, <1>00, <1>6, WithoutType, CommitType, ClockType DEF Delete, counters
  <1>7. ASSUME NEW t \in TaskId, NEW now \in Time, DeleteWithProgress(t, now)
        PROVE  TaskStoreTypeOK'
    <2>1. taskOf[t].batch \in BatchId
      BY <1>7 DEF DeleteWithProgress, BooksOK, TaskFiled
    <2>2. batches' \in [BatchId -> BatchStatus] /\ current' \in BatchId \cup {NoBatch}
      BY <1>7, <2>1, CloseType DEF DeleteWithProgress
    <2>3. QED
      BY <1>0, <1>00, <1>7, <2>2, WithoutType, CommitType, ClockType
         DEF DeleteWithProgress, counters, graph
  <1>8. ASSUME NEW t \in TaskId, NEW now \in Time, NEW to \in TaskStatus \ {"Deleted"},
               TransitionWithProgress(t, to, now)
        PROVE  TaskStoreTypeOK'
    <2>1. taskOf[t].batch \in BatchId
      BY <1>8 DEF TransitionWithProgress, Live, BooksOK, TaskFiled
    <2>2. batches' \in [BatchId -> BatchStatus] /\ current' \in BatchId \cup {NoBatch}
      BY <1>00, <1>8, <2>1, CloseType DEF TransitionWithProgress, BatchStatus
    <2>3. status' \in [TaskId -> TaskStatus \cup {"none"}] /\ stamps' \in [TaskId -> Stamp]
      BY <1>00, <1>8, MovedType DEF TransitionWithProgress
    <2>4. QED
      BY <1>0, <1>00, <1>8, <2>2, <2>3, CommitType, ClockType
         DEF TransitionWithProgress, counters, graph
  <1>9. ASSUME NEW t \in TaskId, NEW now \in Time, NEW deps \in SUBSET TaskId,
               ReplaceDependencies(t, deps, now)
        PROVE  TaskStoreTypeOK'
    <2>1. {blockedBy', blocks'} \subseteq [TaskId -> SUBSET TaskId]
      BY <1>00, <1>9 DEF ReplaceDependencies
    <2>2. QED
      BY <1>0, <1>00, <1>9, <2>1, TouchType, CommitType, ClockType
         DEF ReplaceDependencies, counters
  <1>10. ASSUME NEW b \in BatchId, ArchiveBatch(b) PROVE TaskStoreTypeOK'
    BY <1>0, <1>00, <1>10, CloseType, CommitType DEF ArchiveBatch, graph, counters, NoClock
  <1>11. CASE UNCHANGED vars
    BY <1>0, <1>00, <1>11 DEF vars, store, graph, counters
  <1>12. QED
    BY <1>1, <1>2, <1>3, <1>4, <1>5, <1>6, <1>7, <1>8, <1>9, <1>10, <1>11 DEF TaskStoreNext
-----------------------------------------------------------------------------
(* The books *)

(* Commands that create nothing: what is filed stays where it is. *)
LEMMA BooksAlone ==
  ASSUME BooksOK, UNCHANGED counters, OneActiveBatch',
         \A t \in TaskId : status'[t] # "none" => status[t] # "none" /\ taskOf'[t] = taskOf[t],
         \A b \in BatchId : batches'[b] = "none" <=> batches[b] = "none"
  PROVE  BooksOK'
  <1>1. ASSUME NEW t \in TaskId PROVE TaskFiled(t)'
    BY DEF BooksOK, TaskFiled, counters
  <1>2. \A b \in BatchId : batches'[b] # "none" => b < nextBatch'
    BY DEF BooksOK, counters
  <1>3. SeqUnique'
    BY DEF BooksOK, SeqUnique, TasksOf
  <1>4. QED BY <1>1, <1>2, <1>3 DEF BooksOK

(* A batch that is archived ceases to be the current one. *)
LEMMA CloseKeeps ==
  ASSUME TaskStoreTypeOK, OneActiveBatch, NEW b \in BatchId, batches[b] # "none", NEW after,
         CloseWhenDone(b, after) \/ Archived(b)
  PROVE  /\ OneActiveBatch'
         /\ \A c \in BatchId : batches'[c] = "none" <=> batches[c] = "none"
  <1> USE TaskStoreAssumption
  <1>0. NoBatch \notin BatchId BY DEF NoBatch, BatchId
  <1>1. CASE Archived(b)
    <2>1. \A c \in BatchId : batches'[c] = IF c = b THEN "Archived" ELSE batches[c]
      BY <1>1 DEF Archived, TaskStoreTypeOK
    <2>2. current' = IF current = b THEN NoBatch ELSE current
      BY <1>1 DEF Archived
    <2>3. QED BY <1>0, <2>1, <2>2 DEF OneActiveBatch
  <1>2. CASE UNCHANGED <<batches, current>>
    BY <1>2 DEF OneActiveBatch
  <1>3. QED BY <1>1, <1>2 DEF CloseWhenDone

(* Every command keeps the books. *)
LEMMA BooksKeeps ==
  ASSUME TaskStoreInv, [TaskStoreNext]_vars PROVE BooksOK'
  <1> USE TaskStoreAssumption DEF TaskStoreInv
  <1>0. OneActiveBatch /\ NoBatch \notin BatchId BY DEF BooksOK, NoBatch, BatchId
  <1>1. CASE CreateBatch
    <2>1. /\ \A b \in BatchId : batches'[b] = IF b = nextBatch THEN "Active"
                                            ELSE IF b = current THEN "Archived" ELSE batches[b]
          /\ current' = nextBatch /\ nextBatch' = nextBatch + 1
          /\ UNCHANGED <<status, taskOf, nextTask>>
      <3>1. batches' = [b \in BatchId |-> CASE b = nextBatch -> "Active"
                                            [] b = current -> "Archived"
                                            [] OTHER -> batches[b]]
        BY <1>1 DEF CreateBatch
      <3>2. current # nextBatch
        <4>1. nextBatch \in BatchId /\ ~(nextBatch < nextBatch)
          BY DEF TaskStoreTypeOK, BatchId
        <4>2. batches[nextBatch] = "none" BY <4>1 DEF BooksOK
        <4>3. QED BY <1>0, <4>1, <4>2 DEF OneActiveBatch
      <3>3. \A b \in BatchId : batches'[b] = IF b = nextBatch THEN "Active"
                                            ELSE IF b = current THEN "Archived" ELSE batches[b]
        BY <3>1, <3>2
      <3>4. QED BY <1>1, <3>3 DEF CreateBatch
    <2>2. \A t \in TaskId : TaskFiled(t)'
      BY <2>1 DEF BooksOK, TaskFiled
    <2>3. \A b \in BatchId : batches'[b] # "none" => b < nextBatch'
      <3>1. \A b \in BatchId : b < nextBatch => b < nextBatch + 1
        BY DEF TaskStoreTypeOK, BatchId
      <3>2. nextBatch < nextBatch + 1
        BY DEF TaskStoreTypeOK, BatchId
      <3>3. \A b \in BatchId : b = nextBatch \/ (batches'[b] # "none" => batches[b] # "none")
        BY <1>0, <2>1 DEF OneActiveBatch
      <3>4. QED BY <2>1, <3>1, <3>2, <3>3 DEF BooksOK
    <2>4. OneActiveBatch' BY <1>0, <2>1 DEF OneActiveBatch
    <2>5. SeqUnique' BY <2>1 DEF BooksOK, SeqUnique, TasksOf
    <2>6. QED BY <2>2, <2>3, <2>4, <2>5 DEF BooksOK
  <1>2. CASE Clear
    <2>1. /\ \A t \in TaskId : status'[t] = "none"
          /\ \A b \in BatchId : batches'[b] = "none" /\ b # current'
      BY <1>0, <1>2 DEF Clear
    <2>2. QED BY <2>1 DEF BooksOK, TaskFiled, OneActiveBatch, SeqUnique, TasksOf
  <1>3. CASE Resume
    <2>1. \A t \in TaskId :
             status'[t] # "none" => status[t] # "none" /\ taskOf'[t] = taskOf[t]
      BY <1>3 DEF Resume, Live
    <2>2. UNCHANGED <<counters, batches, current>> BY <1>3 DEF Resume
    <2>3. QED BY <1>0, <2>1, <2>2, BooksAlone DEF OneActiveBatch
  <1>4. ASSUME NEW now \in Time, CreateTask(now) PROVE BooksOK'
    <2>1. /\ current \in BatchId /\ batches[current] = "Active"
          /\ nextTask \in TaskId /\ nextTask' = nextTask + 1 /\ nextTask < MaxTask
          /\ UNCHANGED <<batches, nextBatch, current>>
      BY <1>0, <1>4 DEF CreateTask, OneActiveBatch, TaskStoreTypeOK
    <2>2. /\ NextSeq(current) \in 1..nextTask
          /\ \A t \in TasksOf(current) : taskOf[t].seq < NextSeq(current)
      BY <2>1, NextSeqFresh
    <2>3. /\ \A t \in TaskId : status'[t] = IF t = nextTask THEN "Pending" ELSE status[t]
          /\ \A t \in TaskId : t # nextTask => taskOf'[t] = taskOf[t]
          /\ taskOf'[nextTask].batch = current /\ taskOf'[nextTask].seq = NextSeq(current)
      BY <1>4, <2>1 DEF CreateTask, TaskStoreTypeOK
    <2> HIDE DEF TaskStoreInv
    <2>4. ASSUME NEW t \in TaskId PROVE TaskFiled(t)'
      <3>1. CASE t = nextTask
        BY <2>1, <2>2, <2>3, <3>1 DEF TaskFiled, TaskId
      <3>2. CASE t # nextTask
        BY <2>1, <2>3, <3>2 DEF TaskStoreInv, BooksOK, TaskFiled, TaskId
      <3>3. QED BY <3>1, <3>2
    <2>5. \A b \in BatchId : batches'[b] # "none" => b < nextBatch'
      BY <2>1 DEF TaskStoreInv, BooksOK
    <2>6. OneActiveBatch' BY <1>0, <2>1 DEF OneActiveBatch
    <2>7. ASSUME NEW b \in BatchId, NEW t \in TasksOf(b)', NEW u \in TasksOf(b)', t # u
          PROVE  taskOf'[t].seq # taskOf'[u].seq
      <3>1. t \in TaskId /\ u \in TaskId BY DEF TasksOf
      <3>2. \A v \in TasksOf(b)' : v # nextTask => v \in TasksOf(b) /\ taskOf'[v] = taskOf[v]
        BY <2>3 DEF TasksOf
      <3>3. \A v \in TasksOf(b) :
               b = current => taskOf[v].seq < NextSeq(current) /\ taskOf[v].seq \in Nat
        BY <2>2 DEF TasksOf, TaskStoreInv, BooksOK, TaskFiled, TaskId
      <3>4. nextTask \in TasksOf(b)' => b = current
        BY <2>3 DEF TasksOf
      <3>5. CASE t # nextTask /\ u # nextTask
        BY <2>7, <3>2, <3>5 DEF TaskStoreInv, BooksOK, SeqUnique
      <3>6. CASE t = nextTask \/ u = nextTask
        BY <2>2, <2>3, <2>7, <3>2, <3>3, <3>4, <3>6
      <3>7. QED BY <3>5, <3>6
    <2>8. SeqUnique' BY <2>7 DEF SeqUnique
    <2>9. QED BY <2>4, <2>5, <2>6, <2>8 DEF BooksOK
  <1>5. ASSUME NEW t \in TaskId, NEW now \in Time,
               Edit(t, now) \/ \E deps \in SUBSET TaskId : ReplaceDependencies(t, deps, now)
        PROVE  BooksOK'
    <2>1. UNCHANGED <<status, taskOf, counters, batches, current>>
      BY <1>5 DEF Edit, ReplaceDependencies
    <2>2. QED BY <1>0, <2>1, BooksAlone DEF OneActiveBatch
  <1>6. ASSUME NEW t \in TaskId, NEW now \in Time, Delete(t, now) PROVE BooksOK'
    <2>1. \A u \in TaskId : status'[u] # "none" => status[u] # "none"
      BY <1>6 DEF Delete, Without, Live, TaskStoreTypeOK
    <2>2. UNCHANGED <<taskOf, counters, batches, current>> BY <1>6 DEF Delete
    <2>3. QED BY <1>0, <2>1, <2>2, BooksAlone DEF OneActiveBatch
  <1>7. ASSUME NEW t \in TaskId, NEW now \in Time, DeleteWithProgress(t, now) PROVE BooksOK'
    <2>1. \A u \in TaskId : status'[u] # "none" => status[u] # "none"
      BY <1>7 DEF DeleteWithProgress, Without, TaskStoreTypeOK
    <2>2. UNCHANGED <<taskOf, counters>> BY <1>7 DEF DeleteWithProgress
    <2>3. taskOf[t].batch \in BatchId /\ batches[taskOf[t].batch] # "none"
      BY <1>7 DEF DeleteWithProgress, BooksOK, TaskFiled
    <2>4. CloseWhenDone(taskOf[t].batch, [status EXCEPT ![t] = "Deleted"])
      BY <1>7 DEF DeleteWithProgress
    <2>5. /\ OneActiveBatch'
          /\ \A c \in BatchId : batches'[c] = "none" <=> batches[c] = "none"
      BY <1>0, <2>3, <2>4, CloseKeeps
    <2>6. QED BY <2>1, <2>2, <2>5, BooksAlone
  <1>8. ASSUME NEW t \in TaskId, NEW now \in Time, NEW to \in TaskStatus \ {"Deleted"},
               TransitionWithProgress(t, to, now)
        PROVE  BooksOK'
    <2> DEFINE b == taskOf[t].batch
    <2>1. \A u \in TaskId : status'[u] # "none" => status[u] # "none"
      BY <1>8 DEF TransitionWithProgress, Live, TaskStoreTypeOK
    <2>2. UNCHANGED <<taskOf, counters>> BY <1>8 DEF TransitionWithProgress
    <2>3. b \in BatchId /\ batches[b] # "none"
      BY <1>8 DEF TransitionWithProgress, Live, BooksOK, TaskFiled
    <2>4. \/ /\ current \in {NoBatch, b}
             /\ batches' = [batches EXCEPT ![b] = "Active"] /\ current' = b
          \/ CloseWhenDone(b, [status EXCEPT ![t] = to])
      BY <1>8 DEF TransitionWithProgress
    <2> HIDE DEF b
    <2>5. CASE CloseWhenDone(b, [status EXCEPT ![t] = to])
      <3>1. /\ OneActiveBatch'
            /\ \A c \in BatchId : batches'[c] = "none" <=> batches[c] = "none"
        BY <1>0, <2>3, <2>5, CloseKeeps
      <3>2. QED BY <2>1, <2>2, <3>1, BooksAlone
    <2>6. CASE /\ current \in {NoBatch, b}
               /\ batches' = [batches EXCEPT ![b] = "Active"] /\ current' = b
      <3>1. \A c \in BatchId : batches'[c] = IF c = b THEN "Active" ELSE batches[c]
        BY <2>6 DEF TaskStoreTypeOK
      <3>2. OneActiveBatch' BY <1>0, <2>6, <3>1 DEF OneActiveBatch
      <3>3. QED BY <2>1, <2>2, <2>3, <3>1, <3>2, BooksAlone
    <2>7. QED BY <2>4, <2>5, <2>6
  <1>9. ASSUME NEW b \in BatchId, ArchiveBatch(b) PROVE BooksOK'
    <2>1. UNCHANGED <<status, taskOf, counters>> /\ batches[b] # "none" /\ Archived(b)
      BY <1>9 DEF ArchiveBatch
    <2>2. /\ OneActiveBatch'
          /\ \A c \in BatchId : batches'[c] = "none" <=> batches[c] = "none"
      BY <1>0, <2>1, CloseKeeps
    <2>3. QED BY <2>1, <2>2, BooksAlone
  <1>10. CASE UNCHANGED vars
    <2>1. UNCHANGED <<status, taskOf, counters, batches, current>>
      BY <1>10 DEF vars, store
    <2>2. QED BY <1>0, <2>1, BooksAlone DEF OneActiveBatch
  <1>11. QED
    BY <1>1, <1>2, <1>3, <1>4, <1>5, <1>6, <1>7, <1>8, <1>9, <1>10 DEF TaskStoreNext
-----------------------------------------------------------------------------
(* Timestamps *)

(* No stamp was out of order, this step's included: every stamp before it   *)
(* is at most this one.                                                     *)
ClockWentOn == ~outOfOrder /\ clock <= clock'

LEMMA ClockRuns ==
  ASSUME TaskStoreTypeOK, NEW now \in Time, At(now)
  PROVE  clock' = now /\ (outOfOrder' \/ ClockWentOn)
  <1>1. clock' = now /\ clock \in Time BY DEF At, TaskStoreTypeOK
  <1>2. outOfOrder' = (outOfOrder \/ now < clock) BY DEF At
  <1>3. clock <= now \/ now < clock BY <1>1 DEF Time
  <1>4. QED BY <1>1, <1>2, <1>3, Zenon DEF ClockWentOn

LEMMA ClockStays ==
  ASSUME TaskStoreTypeOK, UNCHANGED <<clock, outOfOrder>>
  PROVE  outOfOrder' \/ ClockWentOn
  <1>1. clock <= clock' BY TaskStoreAssumption DEF TaskStoreTypeOK, Time
  <1>2. QED BY <1>1, Zenon DEF ClockWentOn

(* The timestamps of a live task in a step that does not move it on: as     *)
(* they were, or updated now.                                               *)
Kept(t) ==
    /\ Live(t) /\ status'[t] = status[t]
    /\ \/ stamps'[t] = stamps[t]
       \/ stamps'[t] = [stamps[t] EXCEPT !.updated = clock']

LEMMA KeptIsValid ==
  ASSUME TaskStoreTypeOK, clock' \in Time, ClockWentOn, NEW t \in TaskId, Kept(t),
         ValidTaskTimestamps(t), stamps[t].updated <= clock
  PROVE  ValidTaskTimestamps(t)' /\ stamps'[t].updated <= clock'
  <1>1. stamps[t] \in Stamp BY DEF TaskStoreTypeOK, Stamp
  <1>2. clock \in Time BY DEF TaskStoreTypeOK
  <1> USE TaskStoreAssumption DEF ValidTaskTimestamps, ClockWentOn, Kept, Stamp, Time, NoTime
  <1>3. CASE stamps'[t] = stamps[t]
    BY <1>1, <1>2, <1>3
  <1>4. CASE stamps'[t] = [stamps[t] EXCEPT !.updated = clock']
    <2>1. /\ stamps'[t].created = stamps[t].created /\ stamps'[t].updated = clock'
          /\ stamps'[t].started = stamps[t].started
          /\ stamps'[t].completed = stamps[t].completed
      BY <1>1, <1>4
    <2>2. QED BY <1>1, <1>2, <2>1
  <1>5. QED BY <1>3, <1>4

(* A task that moves on gets timestamps that fit its new status. *)
LEMMA MovedIsValid ==
  ASSUME TaskStoreTypeOK, clock' \in Time, ClockWentOn, NEW t \in TaskId,
         NEW to \in TaskStatus \ {"Deleted"}, status'[t] = to,
         stamps'[t] = Moved(t, to, clock'),
         ValidTaskTimestamps(t), stamps[t].updated <= clock
  PROVE  ValidTaskTimestamps(t)' /\ stamps'[t].updated <= clock'
  <1>1. stamps[t] \in Stamp BY DEF TaskStoreTypeOK, Stamp
  <1>2. clock \in Time BY DEF TaskStoreTypeOK
  <1>3. /\ stamps'[t].created = stamps[t].created /\ stamps'[t].updated = clock'
        /\ to = "Pending" => stamps'[t].started = NoTime /\ stamps'[t].completed = NoTime
        /\ to = "InProgress" =>
              /\ stamps'[t].completed = NoTime
              /\ \/ stamps'[t].started = clock'
                 \/ stamps[t].started # NoTime /\ stamps'[t].started = stamps[t].started
        /\ to = "Completed" =>
              /\ stamps'[t].completed = clock'
              /\ \/ stamps'[t].started = clock'
                 \/ stamps[t].started # NoTime /\ stamps'[t].started = stamps[t].started
    <2>1. CASE to = "Pending" BY <1>1, <2>1 DEF Moved, Stamp
    <2>2. CASE to = "InProgress" BY <1>1, <2>2 DEF Moved, Stamp
    <2>3. CASE to = "Completed" BY <1>1, <2>3 DEF Moved, Stamp
    <2>4. QED BY <2>1, <2>2, <2>3 DEF TaskStatus
  <1> USE TaskStoreAssumption DEF ValidTaskTimestamps, ClockWentOn, Stamp, Time, NoTime
  <1>4. CASE to = "Pending" BY <1>1, <1>2, <1>3, <1>4
  <1>5. CASE to = "InProgress" BY <1>1, <1>2, <1>3, <1>5
  <1>6. CASE to = "Completed" BY <1>1, <1>2, <1>3, <1>6
  <1>7. QED BY <1>4, <1>5, <1>6 DEF TaskStatus

(* Commands that move no task on. *)
LEMMA StampsAlone ==
  ASSUME TaskStoreTypeOK, StampsOK, clock' \in Time, outOfOrder' \/ ClockWentOn,
         \A t \in TaskId : Live(t)' => Kept(t)
  PROVE  StampsOK'
  <1> SUFFICES ASSUME ClockWentOn, NEW t \in TaskId, Live(t)'
               PROVE  ValidTaskTimestamps(t)' /\ stamps'[t].updated <= clock'
    BY DEF StampsOK
  <1>1. Kept(t) OBVIOUS
  <1>2. ValidTaskTimestamps(t) /\ stamps[t].updated <= clock
    BY <1>1 DEF StampsOK, ClockWentOn, Kept
  <1>3. QED BY <1>1, <1>2, KeptIsValid

LEMMA TouchKeeps ==
  ASSUME NEW ts, NEW t \in TaskId, stamps' = Touch(ts, clock'), Live(t), status'[t] = status[t]
  PROVE  Kept(t)
  BY DEF Kept, Touch

(* Every command keeps the timestamps valid, unless its stamp is out of order. *)
LEMMA StampsKeeps ==
  ASSUME TaskStoreInv, [TaskStoreNext]_vars PROVE StampsOK'
  <1> USE DEF TaskStoreInv
  <1>1. CASE \/ CreateBatch \/ \E b \in BatchId : ArchiveBatch(b)
             \/ UNCHANGED vars
    <2>1. UNCHANGED <<status, stamps, clock, outOfOrder>>
      BY <1>1 DEF CreateBatch, ArchiveBatch, NoClock, vars, store
    <2>2. \A t \in TaskId : Live(t)' => Kept(t)
      BY <2>1 DEF Kept, Live
    <2>3. QED BY <2>1, <2>2, ClockStays, StampsAlone DEF TaskStoreTypeOK
  <1>2. CASE Clear
    BY <1>2 DEF Clear, StampsOK, Live
  <1>3. CASE Resume
    <2>1. UNCHANGED <<clock, outOfOrder>> BY <1>3 DEF Resume
    <2>2. \A t \in TaskId : Live(t)' => Kept(t)
      BY <1>3 DEF Resume, Live, Kept
    <2>3. QED BY <2>1, <2>2, ClockStays, StampsAlone DEF TaskStoreTypeOK
  <1>4. ASSUME NEW now \in Time, CreateTask(now) PROVE StampsOK'
    <2>1. clock' = now /\ (outOfOrder' \/ ClockWentOn)
      BY <1>4, ClockRuns DEF CreateTask
    <2>2. nextTask \in TaskId
      BY DEF TaskStoreTypeOK
    <2>3. \A t \in TaskId \ {nextTask} : status'[t] = status[t] /\ stamps'[t] = stamps[t]
      BY <1>4 DEF CreateTask, TaskStoreTypeOK
    <2>4. /\ status'[nextTask] = "Pending"
          /\ stamps'[nextTask] = [NoStamps EXCEPT !.created = now, !.updated = now]
      BY <1>4, <2>2 DEF CreateTask, TaskStoreTypeOK
    <2>5. ASSUME NEW t \in TaskId, t = nextTask
          PROVE  ValidTaskTimestamps(t)' /\ stamps'[t].updated <= clock'
      <3>1. /\ stamps'[t].created = now /\ stamps'[t].updated = now
            /\ stamps'[t].started = NoTime /\ stamps'[t].completed = NoTime
        BY <2>4, <2>5 DEF NoStamps
      <3>2. now <= now BY TaskStoreAssumption DEF Time
      <3>3. QED BY <2>1, <2>4, <2>5, <3>1, <3>2 DEF ValidTaskTimestamps
    <2>6. ASSUME NEW t \in TaskId, t # nextTask, Live(t)', ClockWentOn
          PROVE  ValidTaskTimestamps(t)' /\ stamps'[t].updated <= clock'
      <3>1. Kept(t) BY <2>3, <2>6 DEF Kept, Live
      <3>2. ValidTaskTimestamps(t) /\ stamps[t].updated <= clock
        BY <2>6, <3>1 DEF StampsOK, ClockWentOn, Kept
      <3>3. QED BY <2>1, <2>6, <3>1, <3>2, KeptIsValid
    <2>7. QED BY <2>1, <2>5, <2>6 DEF StampsOK
  <1>5. ASSUME NEW t \in TaskId, NEW now \in Time,
               Edit(t, now) \/ \E deps \in SUBSET TaskId : ReplaceDependencies(t, deps, now)
        PROVE  StampsOK'
    <2>1. At(now) /\ UNCHANGED status BY <1>5 DEF Edit, ReplaceDependencies
    <2>2. clock' = now /\ (outOfOrder' \/ ClockWentOn) BY <2>1, ClockRuns
    <2>3. PICK ts : stamps' = Touch(ts, now) BY <1>5 DEF Edit, ReplaceDependencies
    <2>4. \A u \in TaskId : Live(u)' => Kept(u)
      BY <2>1, <2>2, <2>3, TouchKeeps DEF Live
    <2>5. QED BY <2>2, <2>4, StampsAlone
  <1>6. ASSUME NEW t \in TaskId, NEW now \in Time,
               Delete(t, now) \/ DeleteWithProgress(t, now)
        PROVE  StampsOK'
    <2>1. At(now) /\ (Without(t, now) \/ UNCHANGED <<status, stamps>>)
      BY <1>6 DEF Delete, DeleteWithProgress
    <2>2. clock' = now /\ (outOfOrder' \/ ClockWentOn) BY <2>1, ClockRuns
    <2>3. CASE Without(t, now)
      <3>1. \A u \in TaskId : status'[u] = IF u = t THEN "Deleted" ELSE status[u]
        BY <2>3 DEF Without, TaskStoreTypeOK
      <3>2. stamps' = Touch({t} \cup blockedBy[t] \cup blocks[t], now)
        BY <2>3 DEF Without
      <3>3. \A u \in TaskId : Live(u)' => Kept(u)
        BY <2>2, <3>1, <3>2, TouchKeeps DEF Live
      <3>4. QED BY <2>2, <3>3, StampsAlone
    <2>4. CASE UNCHANGED <<status, stamps>>
      <3>1. \A u \in TaskId : Live(u)' => Kept(u) BY <2>4 DEF Live, Kept
      <3>2. QED BY <2>2, <3>1, StampsAlone
    <2>5. QED BY <2>1, <2>3, <2>4
  <1>7. ASSUME NEW t \in TaskId, NEW now \in Time, NEW to \in TaskStatus \ {"Deleted"},
               TransitionWithProgress(t, to, now)
        PROVE  StampsOK'
    <2>1. At(now) /\ Live(t) BY <1>7 DEF TransitionWithProgress
    <2>2. clock' = now /\ (outOfOrder' \/ ClockWentOn) BY <2>1, ClockRuns
    <2>3. \A u \in TaskId \ {t} : status'[u] = status[u] /\ stamps'[u] = stamps[u]
      BY <1>7 DEF TransitionWithProgress, TaskStoreTypeOK
    <2>4. status'[t] = to /\ stamps'[t] = Moved(t, to, now)
      BY <1>7 DEF TransitionWithProgress, TaskStoreTypeOK
    <2>5. ASSUME ClockWentOn PROVE ValidTaskTimestamps(t)' /\ stamps'[t].updated <= clock'
      <3>1. ValidTaskTimestamps(t) /\ stamps[t].updated <= clock
        BY <2>1, <2>5 DEF StampsOK, ClockWentOn
      <3>2. stamps'[t] = Moved(t, to, clock') /\ clock' \in Time
        BY <2>2, <2>4
      <3>3. QED BY <2>4, <2>5, <3>1, <3>2, MovedIsValid
    <2>6. ASSUME ClockWentOn, NEW u \in TaskId \ {t}, Live(u)'
          PROVE  ValidTaskTimestamps(u)' /\ stamps'[u].updated <= clock'
      <3>1. Kept(u) BY <2>3, <2>6 DEF Kept, Live
      <3>2. ValidTaskTimestamps(u) /\ stamps[u].updated <= clock
        BY <2>6, <3>1 DEF StampsOK, ClockWentOn, Kept
      <3>3. QED BY <2>2, <2>6, <3>1, <3>2, KeptIsValid
    <2>7. QED BY <2>2, <2>5, <2>6 DEF StampsOK
  <1>8. QED
    BY <1>1, <1>2, <1>3, <1>4, <1>5, <1>6, <1>7 DEF TaskStoreNext
-----------------------------------------------------------------------------
(* Whatever the tools do, the store is well formed, its dependencies form a *)
(* graph without cycles between live tasks of one batch, and its snapshot   *)
(* passes the validation of a resume, timestamps included as long as the    *)
(* stamps reach the store in order.                                         *)
THEOREM TaskStoreCorrect ==
    TaskStoreSpec => [](TaskStoreOK /\ GraphCoherent /\ SnapshotRestores)
  <1>1. TaskStoreInv /\ [TaskStoreNext]_vars => TaskStoreInv'
    BY GraphKeeps, TypeKeeps, BooksKeeps, StampsKeeps DEF TaskStoreInv
  <1>2. QED BY <1>1, InitHolds, InvImplies, PTL DEF TaskStoreSpec
=============================================================================
