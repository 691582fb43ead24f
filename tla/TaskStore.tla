----------------------------- MODULE TaskStore ------------------------------
(***************************************************************************)
(* The task lists of a session (TaskStoreState): tasks in batches, their   *)
(* dependencies, and the snapshot a session is resumed from.  A command is *)
(* one critical section of the store's mutex, so each is one action; a     *)
(* command that is refused, or that finds nothing to change, leaves the    *)
(* store as it is and is no step.                                          *)
(*                                                                         *)
(* Subjects, descriptions and priorities are one thing to change (Edit).   *)
(* The commands no caller uses yet (pause, resume, turns, tags, the plain  *)
(* transition) are left out.  The snapshot is taken and restored in one    *)
(* step: a snapshot restored later leads to no other state.                *)
(***************************************************************************)
EXTENDS Naturals, FiniteSets

CONSTANTS
    MaxTask,        \* largest task id, u64::MAX in the code
    MaxBatch,       \* largest batch id
    MaxRevision,    \* largest revision
    MaxTime         \* bound: clock readings are 0 .. MaxTime

ASSUME TaskStoreAssumption ==
    /\ MaxTask \in Nat \ {0} /\ MaxBatch \in Nat \ {0}
    /\ MaxRevision \in Nat /\ MaxTime \in Nat

VARIABLES
    status,     \* of a task; "none": not in the map
    taskOf,     \* batch and sequence number of a task
    blockedBy,  \* the tasks it waits for
    blocks,     \* reverse index of blockedBy
    stamps,     \* its timestamps
    batches,    \* status of a batch; "none": not in the map
    nextTask, nextBatch,
    current,    \* current_batch, 0: none
    revision,
    clock,      \* the stamp the store was called with last
    outOfOrder  \* history: a stamp was smaller than the one of an earlier call

graph == <<blockedBy, blocks>>
counters == <<nextTask, nextBatch>>
store == <<status, taskOf, graph, stamps, batches, counters, current>>
vars == <<store, revision, clock, outOfOrder>>

TaskId == 1..MaxTask
BatchId == 1..MaxBatch
Time == 0..MaxTime
NoTime == MaxTime + 1
TaskStatus == {"Pending", "InProgress", "Completed", "Deleted"}
NoBatch == 0
NoStamps == [created |-> 0, updated |-> 0, started |-> NoTime, completed |-> NoTime]

Live(t) == status[t] \notin {"none", "Deleted"}
TasksOf(b) == {t \in TaskId : status[t] # "none" /\ taskOf[t].batch = b}

(* The tool reads the clock (Utc::now) before it calls the store, and so    *)
(* before it has the mutex: two calls that enter in the opposite order, or  *)
(* a clock that is set back between them, bring a smaller stamp later.      *)
At(now) == clock' = now /\ outOfOrder' = (outOfOrder \/ now < clock)
NoClock == UNCHANGED <<clock, outOfOrder>>

(* reserve_revision and commit *)
Commit == revision < MaxRevision /\ revision' = revision + 1

Touch(ts, now) ==
    [t \in TaskId |-> IF t \in ts THEN [stamps[t] EXCEPT !.updated = now] ELSE stamps[t]]

---------------------------------------------------------------------------
(* Batches *)

CreateBatch ==
    /\ nextBatch < MaxBatch /\ Commit
    /\ batches' = [b \in BatchId |-> CASE b = nextBatch -> "Active"
                                       [] b = current -> "Archived"
                                       [] OTHER -> batches[b]]
    /\ current' = nextBatch
    /\ nextBatch' = nextBatch + 1
    /\ NoClock /\ UNCHANGED <<status, taskOf, graph, stamps, nextTask>>

Archived(b) ==
    /\ batches' = [batches EXCEPT ![b] = "Archived"]
    /\ current' = IF current = b THEN NoBatch ELSE current

(* TaskListComplete and the end of a run, which archives a batch that was   *)
(* all completed when it looked.                                            *)
ArchiveBatch(b) ==
    /\ batches[b] \notin {"none", "Archived"} /\ Commit
    /\ Archived(b)
    /\ NoClock /\ UNCHANGED <<status, taskOf, graph, stamps, counters>>

---------------------------------------------------------------------------
(* Tasks *)

(* One more than the largest in the batch, deleted tasks included. *)
NextSeq(b) ==
    1 + (IF TasksOf(b) = {} THEN 0
         ELSE CHOOSE n \in 1..MaxTask :
                 /\ \E t \in TasksOf(b) : taskOf[t].seq = n
                 /\ \A t \in TasksOf(b) : taskOf[t].seq <= n)

CreateTask(now) ==
    /\ current # NoBatch /\ nextTask < MaxTask /\ Commit
    /\ status' = [status EXCEPT ![nextTask] = "Pending"]
    /\ taskOf' = [taskOf EXCEPT ![nextTask] = [batch |-> current, seq |-> NextSeq(current)]]
    /\ stamps' = [stamps EXCEPT ![nextTask] =
                     [NoStamps EXCEPT !.created = now, !.updated = now]]
    /\ nextTask' = nextTask + 1
    /\ At(now) /\ UNCHANGED <<graph, batches, nextBatch, current>>

(* set_subject, set_description, set_priority *)
Edit(t, now) ==
    /\ Live(t) /\ Commit
    /\ stamps' = Touch({t}, now)
    /\ At(now) /\ UNCHANGED <<status, taskOf, graph, batches, counters, current>>

BlockingIds(t) == {d \in blockedBy[t] : status[d] \notin {"Completed", "Deleted"}}

(* Mutant: a task that is opened again keeps its time of completion. *)
BuggyMoved(t, to, now) ==
    LET s == stamps[t] IN
    CASE to = "Pending" -> [s EXCEPT !.updated = now, !.started = NoTime]
      [] to = "InProgress" -> [s EXCEPT !.updated = now, !.started = IF @ = NoTime THEN now ELSE @]
      [] to = "Completed" -> [s EXCEPT !.updated = now, !.completed = now,
                                       !.started = IF @ = NoTime THEN now ELSE @]

(* transition_to and reopen_from_completed *)
Moved(t, to, now) ==
    LET s == stamps[t] IN
    CASE to = "Pending" -> [s EXCEPT !.updated = now, !.started = NoTime, !.completed = NoTime]
      [] to = "InProgress" ->
            [s EXCEPT !.updated = now, !.completed = NoTime,
                      !.started = IF @ = NoTime \/ status[t] = "Completed" THEN now ELSE @]
      [] to = "Completed" ->
            [s EXCEPT !.updated = now, !.completed = now,
                      !.started = IF @ = NoTime THEN now ELSE @]

(* Mutant: a batch is closed without ceasing to be the current one. *)
BuggyCloseWhenDone(b, after) ==
    IF batches[b] = "Active" /\ \A t \in TasksOf(b) : after[t] \notin {"Pending", "InProgress"}
    THEN batches' = [batches EXCEPT ![b] = "Archived"] /\ UNCHANGED current
    ELSE UNCHANGED <<batches, current>>

(* A batch without unfinished tasks is closed. *)
CloseWhenDone(b, after) ==
    IF batches[b] = "Active" /\ \A t \in TasksOf(b) : after[t] \notin {"Pending", "InProgress"}
    THEN Archived(b)
    ELSE UNCHANGED <<batches, current>>

(* An archived batch is opened again, unless another one is active. *)
TransitionWithProgress(t, to, now) ==
    LET b == taskOf[t].batch
        after == [status EXCEPT ![t] = to]
    IN
    /\ Live(t) /\ to # status[t] /\ Commit
    /\ to = "InProgress" => BlockingIds(t) = {}
    /\ status' = after
    /\ stamps' = [stamps EXCEPT ![t] = Moved(t, to, now)]
    /\ IF batches[b] = "Archived" /\ to # "Completed"
       THEN /\ current \in {NoBatch, b}
            /\ batches' = [batches EXCEPT ![b] = "Active"]
            /\ current' = b
       ELSE CloseWhenDone(b, after)
    /\ At(now) /\ UNCHANGED <<taskOf, graph, counters>>

Without(t, now) ==
    /\ status' = [status EXCEPT ![t] = "Deleted"]
    /\ blockedBy' = [d \in TaskId |-> IF d = t THEN {} ELSE blockedBy[d] \ {t}]
    /\ blocks' = [d \in TaskId |-> IF d = t THEN {} ELSE blocks[d] \ {t}]
    /\ stamps' = Touch({t} \cup blockedBy[t] \cup blocks[t], now)

(* TaskStop: the batch stays as it is. *)
Delete(t, now) ==
    /\ Live(t) /\ Commit
    /\ Without(t, now)
    /\ At(now) /\ UNCHANGED <<taskOf, batches, counters, current>>

(* TaskUpdate: of a deleted task, which another caller may have deleted     *)
(* after the tool looked it up, the store commits a revision all the same.  *)
DeleteWithProgress(t, now) ==
    /\ status[t] # "none" /\ Commit
    /\ IF Live(t) THEN Without(t, now) ELSE UNCHANGED <<status, graph, stamps>>
    /\ CloseWhenDone(taskOf[t].batch, [status EXCEPT ![t] = "Deleted"])
    /\ At(now) /\ UNCHANGED <<taskOf, counters>>

---------------------------------------------------------------------------
(* Dependencies *)

(* Mutant: only the direct blockers are looked at. *)
BuggyWouldCreateCycle(t, by) == t = by \/ t \in blockedBy[by]

(* A walk along blockedBy from `by` reaches t. *)
WouldCreateCycle(t, by) ==
    \A reached \in SUBSET TaskId :
        (by \in reached /\ \A d \in reached : blockedBy[d] \subseteq reached) => t \in reached

ReplaceDependencies(t, deps, now) ==
    /\ Live(t) /\ deps # blockedBy[t] /\ Commit
    /\ \A d \in deps :
          Live(d) /\ taskOf[d].batch = taskOf[t].batch /\ ~WouldCreateCycle(t, d)
    /\ blockedBy' = [blockedBy EXCEPT ![t] = deps]
    /\ blocks' = [d \in TaskId |-> IF d \in deps THEN blocks[d] \cup {t} ELSE blocks[d] \ {t}]
    /\ stamps' = Touch({t} \cup ((deps \cup blockedBy[t]) \ (deps \cap blockedBy[t])), now)
    /\ At(now) /\ UNCHANGED <<status, taskOf, batches, counters, current>>

---------------------------------------------------------------------------
(* The whole store *)

(* A reset of the conversation; task ids go on where they were. *)
Clear ==
    /\ ~ /\ \A t \in TaskId : status[t] = "none"
         /\ \A b \in BatchId : batches[b] = "none"
         /\ current = NoBatch /\ nextBatch = 1
    /\ Commit
    /\ status' = [t \in TaskId |-> "none"]
    /\ taskOf' = [t \in TaskId |-> [batch |-> NoBatch, seq |-> 0]]
    /\ blockedBy' = [t \in TaskId |-> {}] /\ blocks' = [t \in TaskId |-> {}]
    /\ stamps' = [t \in TaskId |-> NoStamps]
    /\ batches' = [b \in BatchId |-> "none"]
    /\ nextBatch' = 1 /\ current' = NoBatch
    /\ NoClock /\ UNCHANGED nextTask

(* valid_task_timestamps *)
ValidTaskTimestamps(t) ==
    LET s == stamps[t]
        Within(x) == x # NoTime => s.created <= x /\ x <= s.updated
    IN  /\ s.created <= s.updated
        /\ Within(s.started) /\ Within(s.completed)
        /\ (s.started # NoTime /\ s.completed # NoTime) => s.started <= s.completed
        /\ (s.started = NoTime) <=> (status[t] = "Pending")
        /\ (s.completed # NoTime) <=> (status[t] = "Completed")

(* No set of tasks waits for itself. *)
Acyclic ==
    {ts \in (SUBSET TaskId) \ {{}} : \A t \in ts : blockedBy[t] \cap ts # {}} = {}

Dangling(t) == {d \in blockedBy[t] : d = t \/ ~Live(d) \/ taskOf[d].batch # taskOf[t].batch}

(* TaskSnapshotData::prepare on the snapshot of the store, which leaves out *)
(* deleted tasks: what it refuses besides timestamps.                       *)
ValidSnapshot ==
    /\ \A t \in {u \in TaskId : Live(u)} :
          /\ taskOf[t].batch \in BatchId /\ batches[taskOf[t].batch] # "none"
          /\ Dangling(t) = {}
          /\ t < nextTask
    /\ Acyclic
    /\ {b \in BatchId : batches[b] = "Active"} = {current} \ {NoBatch}
    /\ \A b \in BatchId : batches[b] # "none" => b < nextBatch

(* The session is resumed from its snapshot: deleted tasks are gone and the *)
(* reverse index is built again.                                            *)
Resume ==
    /\ ValidSnapshot /\ \A t \in TaskId : Live(t) => ValidTaskTimestamps(t)
    /\ status' = [t \in TaskId |-> IF Live(t) THEN status[t] ELSE "none"]
    /\ taskOf' = [t \in TaskId |->
                     IF Live(t) THEN taskOf[t] ELSE [batch |-> NoBatch, seq |-> 0]]
    /\ blockedBy' = [t \in TaskId |-> IF Live(t) THEN blockedBy[t] ELSE {}]
    /\ blocks' = [d \in TaskId |-> {t \in TaskId : Live(t) /\ d \in blockedBy[t]}]
    /\ stamps' = [t \in TaskId |-> IF Live(t) THEN stamps[t] ELSE NoStamps]
    /\ UNCHANGED <<batches, counters, current, revision, clock, outOfOrder>>

---------------------------------------------------------------------------
TaskStoreInit ==
    /\ status = [t \in TaskId |-> "none"]
    /\ taskOf = [t \in TaskId |-> [batch |-> NoBatch, seq |-> 0]]
    /\ blockedBy = [t \in TaskId |-> {}] /\ blocks = [t \in TaskId |-> {}]
    /\ stamps = [t \in TaskId |-> NoStamps]
    /\ batches = [b \in BatchId |-> "none"]
    /\ nextTask = 1 /\ nextBatch = 1 /\ current = NoBatch
    /\ revision = 0 /\ clock = 0 /\ outOfOrder = FALSE

TaskStoreNext ==
    \/ CreateBatch \/ Clear \/ Resume
    \/ \E b \in BatchId : ArchiveBatch(b)
    \/ \E now \in Time :
          \/ CreateTask(now)
          \/ \E t \in TaskId :
                \/ Edit(t, now) \/ Delete(t, now) \/ DeleteWithProgress(t, now)
                \/ \E to \in TaskStatus \ {"Deleted"} : TransitionWithProgress(t, to, now)
                \/ \E deps \in SUBSET TaskId : ReplaceDependencies(t, deps, now)

TaskStoreSpec == TaskStoreInit /\ [][TaskStoreNext]_vars

---------------------------------------------------------------------------
(* Properties *)

(* The store is well formed, and the counters stay within their width.     *)
TaskStoreTypeOK ==
    /\ status \in [TaskId -> TaskStatus \cup {"none"}]
    /\ taskOf \in [TaskId -> [batch : BatchId \cup {NoBatch}, seq : 0..MaxTask]]
    /\ {blockedBy, blocks} \subseteq [TaskId -> SUBSET TaskId]
    /\ stamps \in [TaskId -> [created : Time, updated : Time,
                              started : Time \cup {NoTime}, completed : Time \cup {NoTime}]]
    /\ batches \in [BatchId -> {"none", "Active", "Paused", "Archived"}]
    /\ nextTask \in TaskId /\ nextBatch \in BatchId
    /\ current \in BatchId \cup {NoBatch}
    /\ revision \in 0..MaxRevision /\ clock \in Time /\ outOfOrder \in BOOLEAN

(* The dependencies form a graph without cycles between live tasks of one   *)
(* batch, and the reverse index is its inverse: `expect("dependency graph   *)
(* endpoint must exist")` in delete, which would poison the store's mutex,  *)
(* never fails, and no set of tasks waits for itself.                       *)
GraphCoherent ==
    /\ Acyclic
    /\ \A t, d \in TaskId :
          /\ d \in blockedBy[t] <=> t \in blocks[d]
          /\ d \in blockedBy[t] => Live(t) /\ Live(d) /\ taskOf[t].batch = taskOf[d].batch

(* current_batch is the one batch that is active: create_batch archives it  *)
(* with two `expect`s, and new tasks go there.                              *)
OneActiveBatch ==
    \A b \in BatchId : batches[b] = "Active" <=> b = current

(* No two tasks of a batch have the same number, so current_task_by_seq,    *)
(* which searches a hash map, can find only one.                            *)
SeqUnique ==
    \A b \in BatchId : \A t, u \in TasksOf(b) :
        t # u => taskOf[t].seq # taskOf[u].seq

(* Whatever the tools did, the snapshot of the store passes the validation  *)
(* of a resume.  Timestamps do as long as the stamps reach the store in     *)
(* order: two commands that get the mutex in the opposite order of their    *)
(* readings, or a clock set back between them, may leave a task updated     *)
(* before it was started, and the session cannot be resumed any more.       *)
SnapshotRestores ==
    /\ ValidSnapshot
    /\ outOfOrder \/ \A t \in TaskId : Live(t) => ValidTaskTimestamps(t)

(* The store is well typed, one batch is active and it is the current one,  *)
(* and the numbers within a batch are unique.                               *)
TaskStoreOK == TaskStoreTypeOK /\ OneActiveBatch /\ SeqUnique

=============================================================================
