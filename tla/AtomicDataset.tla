--------------------------- MODULE AtomicDataset ---------------------------
(***************************************************************************)
(* FileSystemDatasetAdapter (storage/src/adapters/dataset_filesystem.rs):  *)
(* the transaction and recovery protocol of one dataset on disk.           *)
(*                                                                         *)
(* A version stands for a manifest and its revision, which is a hash of    *)
(* what the manifest lists; Members[v] are the contents it references,     *)
(* kept under their digests in the shared members/ directory.  A           *)
(* generation is a directory that holds a manifest (a version), holds none *)
(* (Empty) or does not exist (Absent).                                     *)
(*                                                                         *)
(* A step is one change of the directory followed by its fsync, so a crash *)
(* between two steps is a crash, or a loss of power, at any point.  The    *)
(* phase in the journal (Prepared, Committed) is left out: it is written   *)
(* and never read.  Datasets in the old layout (blobs/) are left out.      *)
(***************************************************************************)
EXTENDS Naturals, FiniteSets

CONSTANTS
    Client,         \* the processes that use the dataset
    Version, Content,
    Members,        \* the contents a version references
    None,           \* no version; also a client that knows of none
    Absent, Empty,
    Kinds,          \* the kinds of operations the clients call
    MaxOps,         \* how many calls there are besides reads
    MaxFaults       \* how many crashes, errors and damages there are

ASSUME DatasetAssumption ==
    /\ Members \in [Version -> SUBSET Content]
    /\ None \notin Version \cup Client /\ Absent \notin Version /\ Empty \notin Version
    /\ Absent # Empty
    /\ Kinds \subseteq {"read", "commit", "promote", "quarantine", "delete"}
    /\ {MaxOps, MaxFaults} \subseteq Nat

VARIABLES
    primary, previous, nextGen, swap,   \* generations; nextGen is previous.next
    store,          \* members/: state of the file of each content
    stage,          \* contents in the .stage directory of the transaction
    journal,        \* journal.json
    marker,         \* corruption.marker is there
    barrier,        \* journal.json.corrupt.<id>: the journal set aside
    holder,         \* who holds the exclusive lock
    op,             \* the operation it executes
    pc,             \* the step it executes next
    rolling,        \* it rolls the journal forward inside recover
    moved,          \* quarantine_corrupt: every step so far succeeded
    withPrimary,    \* quarantine_corrupt: include_primary
    seen,           \* the revision each client knows of
    undo,           \* history: the versions before a transaction in doubt
    damaged,        \* history: bytes have been damaged from outside
    condemned,      \* history: the primary is to be moved away as corrupt
    used            \* history: how many operations and faults there were

files == <<primary, previous, nextGen, swap, store, stage, journal, marker, barrier>>
gens == <<primary, previous, nextGen, swap>>
memory == <<op, pc, rolling, moved, withPrimary>>
history == <<undo, condemned, damaged>>
datasetVars == <<files, holder, memory, seen, history, used>>

Generation == Version \cup {Absent, Empty}
NoJournal == [kind |-> "none", old |-> None, new |-> None]
NoOp == [kind |-> "none", expected |-> None, new |-> None, reuse |-> {}, gen |-> "primary"]

(* generation_revision *)
Revision(g) == IF g \in Version THEN g ELSE None
Contents(g) == IF g \in Version THEN Members[g] ELSE {}
Good(C) == \A c \in C : store[c] = "good"
Spend(f) == used' = [used EXCEPT ![f] = @ + 1]
(* At most MaxFaults crashes, errors and damages happen.                   *)
Fault == used.faults < MaxFaults /\ Spend("faults")

DatasetInit ==
    /\ primary = Absent /\ previous = Absent /\ nextGen = Absent /\ swap = Absent
    /\ store = [c \in Content |-> "absent"] /\ stage = {}
    /\ journal = NoJournal /\ marker = FALSE /\ barrier = NoJournal
    /\ holder = None /\ op = NoOp /\ pc = "idle"
    /\ rolling = FALSE /\ moved = TRUE /\ withPrimary = FALSE
    /\ seen = [c \in Client |-> None]
    /\ undo = {} /\ condemned = FALSE
    /\ damaged = FALSE /\ used = [ops |-> 0, faults |-> 0]
-----------------------------------------------------------------------------
(* Every entry of the port takes the lock and recovers.                    *)
Operations(c) ==
    LET Call(k, v, r, g) == [kind |-> k, expected |-> seen[c], new |-> v,
                             reuse |-> r, gen |-> g]
    IN  { o \in
            {Call(k, None, {}, "primary") : k \in {"read", "promote", "delete"}}
            \cup {Call("quarantine", None, {}, g) : g \in {"primary", "previous"}}
            \cup UNION { {Call("commit", v, r, "primary") :
                            r \in SUBSET (Members[v] \cap Contents(seen[c]))} :
                         v \in Version }
          : o.kind \in Kinds }

Enter(c, o) ==
    /\ holder = None
    /\ IF o.kind = "read" THEN UNCHANGED used ELSE used.ops < MaxOps /\ Spend("ops")
    /\ holder' = c /\ op' = o /\ pc' = "recover"
    /\ rolling' = FALSE /\ moved' = TRUE /\ withPrimary' = FALSE
    /\ UNCHANGED <<files, seen, history>>

(* The call returns and the lock is dropped.                               *)
Leave ==
    /\ holder' = None /\ op' = NoOp /\ pc' = "idle"
    /\ rolling' = FALSE /\ moved' = TRUE /\ withPrimary' = FALSE
Goto(p) == pc' = p /\ UNCHANGED <<holder, op, rolling, moved, withPrimary>>
(* The receipt of a committed transaction.                                 *)
Acknowledge(v) == seen' = [seen EXCEPT ![holder] = v] /\ Leave
-----------------------------------------------------------------------------
(* recover                                                                 *)
(* Mutant: neither the marker nor the journal set aside stops an entry. *)
BuggyBarred == FALSE

Barred == marker \/ barrier.kind # "none"

(* delete_all_generations recovers and does not collect.                   *)
AfterRecovery == IF op.kind = "delete" THEN "body" ELSE "collect"

RecoverRefuses ==
    /\ pc = "recover" /\ Barred
    /\ Leave
    /\ UNCHANGED <<files, seen, history, used>>

(* cleanup_orphans: what never reached its journal is thrown away.         *)
RecoverCleans ==
    /\ pc = "recover" /\ ~Barred /\ journal.kind = "none"
    /\ stage' = {} /\ swap' = Absent /\ nextGen' = Absent
    /\ Goto(AfterRecovery)
    /\ UNCHANGED <<primary, previous, store, journal, marker, barrier, seen,
                   history, used>>

(* validate_commit_journal_semantics: where the bytes of a member are read *)
(* from, and what is wrong with them.                                      *)
MemberFault(c) ==
    CASE c \in stage \/ store[c] = "good" -> "none"
      [] c \notin stage /\ store[c] = "absent" -> "missing"
      [] c \notin stage /\ store[c] = "bad" -> "contradicted"
(* Mutant: a dataset without generations has no accepted old version, so   *)
(* that the first commit is taken for a contradiction. *)
BuggyOldAccepted ==
    \/ journal.old \in {Revision(primary), Revision(nextGen)} \ {None}
    \/ journal.new = Revision(primary)

OldAccepted ==
    \/ Revision(primary) = None /\ Revision(nextGen) = None
    \/ journal.old \in {Revision(primary), Revision(nextGen)}
    \/ journal.new = Revision(primary)
(* validate_promote_journal_semantics: the three places hold the old and   *)
(* the new generation and nothing else; the new one must be intact.        *)
PromoteAccepted ==
    LET present == {Revision(primary), Revision(previous), Revision(swap)} \ {None}
    IN  journal.old \in present /\ present = {journal.old, journal.new}

StartQuarantine(inclPrimary) ==
    /\ pc' = "qMarker" /\ withPrimary' = inclPrimary /\ moved' = TRUE
    /\ UNCHANGED <<files, holder, op, rolling, seen, history, used>>

RollForward(p) ==
    /\ pc' = p /\ rolling' = TRUE
    /\ UNCHANGED <<files, holder, op, moved, withPrimary, seen, history, used>>

RecoverBadJournal ==
    /\ pc = "recover" /\ ~Barred /\ journal.kind = "bad"
    /\ StartQuarantine(FALSE)

(* Mutant: a journal that cannot be rolled forward is an error each time. *)
BuggyRecoverCommit ==
    /\ pc = "recover" /\ ~Barred /\ journal.kind = "commit"
    /\ IF (\E c \in Members[journal.new] : MemberFault(c) # "none") \/ ~OldAccepted
       THEN Leave /\ UNCHANGED <<files, seen, history, used>>
       ELSE RollForward("publish")

RecoverCommit ==
    /\ pc = "recover" /\ ~Barred /\ journal.kind = "commit"
    /\ LET faulty == {c \in Members[journal.new] : MemberFault(c) # "none"}
       IN  \/ \E c \in faulty : StartQuarantine(MemberFault(c) = "contradicted")
           \/ faulty = {} /\ ~OldAccepted /\ StartQuarantine(FALSE)
           \/ faulty = {} /\ OldAccepted /\ RollForward("publish")

RecoverPromote ==
    /\ pc = "recover" /\ ~Barred /\ journal.kind = "promote"
    /\ \/ ~PromoteAccepted /\ StartQuarantine(FALSE)
       \/ PromoteAccepted /\ ~Good(Members[journal.new])
          /\ StartQuarantine(Revision(primary) = journal.new)
       \/ PromoteAccepted /\ Good(Members[journal.new]) /\ RollForward("swap")

(* collect_orphan_member_content: at every entry after recovery and at the *)
(* end of a commit.  Best effort: it may stop half way.                    *)
(* Mutant: only what the primary references is kept. *)
BuggyReferenced == Contents(primary)

Referenced == Contents(primary) \cup Contents(previous)

Orphans == {c \in Content : store[c] # "absent"} \ Referenced
Collect ==
    \/ store' = [c \in Content |-> IF c \in Orphans THEN "absent" ELSE store[c]]
       /\ UNCHANGED used
    \/ /\ Fault
       /\ \E C \in (SUBSET Orphans) \ {Orphans} :
             store' = [c \in Content |-> IF c \in C THEN "absent" ELSE store[c]]

EntryCollects ==
    /\ pc = "collect"
    /\ Collect
    /\ Goto("body")
    /\ UNCHANGED <<gens, stage, journal, marker, barrier, seen, history>>
-----------------------------------------------------------------------------
(* Reading: read_manifest, read_consistent, read_previous.  The client     *)
(* learns the revision it will expect in its next commit.                  *)
Read ==
    /\ pc = "body" /\ op.kind = "read"
    /\ Acknowledge(Revision(primary))
    /\ UNCHANGED <<files, history, used>>

(* commit_sync, commit_incremental_sync: compare the revision, verify what *)
(* is reused, write what is new to the stage.                              *)
(* Mutant: the expected revision is not compared. *)
BuggyRevisionMatches == TRUE

RevisionMatches == op.expected = Revision(primary)

CommitRefused ==
    /\ pc = "body" /\ op.kind = "commit"
    /\ ~RevisionMatches \/ ~Good(op.reuse)
    /\ Leave
    /\ UNCHANGED <<files, seen, history, used>>

StageMembers ==
    /\ pc = "body" /\ op.kind = "commit"
    /\ RevisionMatches /\ Good(op.reuse)
    /\ stage' = {c \in Members[op.new] \ op.reuse :
                    store[c] = "absent" /\ c \notin Contents(primary)}
    /\ Goto("stagePrevious")
    /\ UNCHANGED <<gens, store, journal, marker, barrier, seen, history, used>>

(* stage_previous_manifest, and the primary directory is made.             *)
StagePrevious ==
    /\ pc = "stagePrevious"
    /\ nextGen' = IF primary \in Version THEN primary ELSE Absent
    /\ primary' = IF primary = Absent THEN Empty ELSE primary
    /\ Goto("prepare")
    /\ UNCHANGED <<previous, swap, store, stage, journal, marker, barrier, seen,
                   history, used>>

(* The Prepared journal: the logical commit point.                         *)
CommitJournal == [kind |-> "commit", old |-> Revision(primary), new |-> op.new]

WritePrepared ==
    /\ pc = "prepare"
    /\ journal' = CommitJournal
    /\ Goto("publish")
    /\ UNCHANGED <<gens, store, stage, marker, barrier, seen, history, used>>

(* The journal is renamed into place and the fsync after it fails: the     *)
(* caller gets an error, stage and previous.next are removed as far as     *)
(* that works, the journal stays.                                          *)
PreparedSyncFails ==
    /\ pc = "prepare" /\ Fault
    /\ journal' = CommitJournal
    /\ stage' \in {{}, stage} /\ nextGen' \in {Absent, nextGen}
    /\ undo' = {[cur |-> Revision(primary), prev |-> Revision(previous)]}
    /\ Leave
    /\ UNCHANGED <<primary, previous, swap, store, marker, barrier, seen, condemned, damaged>>

(* From here on a commit and the rolling forward of one take the same      *)
(* steps.  Contents move one by one from the stage to members/.            *)
Unpublished ==
    {c \in Members[journal.new] \ (IF rolling THEN {} ELSE op.reuse) : store[c] = "absent"}

Publish ==
    /\ pc = "publish"
    /\ \E c \in Unpublished \cap stage :
          /\ store' = [store EXCEPT ![c] = "good"]
          /\ stage' = stage \ {c}
    /\ UNCHANGED <<gens, journal, marker, barrier, holder, memory, seen, history, used>>

(* A content that is in neither place: recovery sets the journal aside, a  *)
(* commit fails and is left to recovery.                                   *)
PublishMissing ==
    /\ pc = "publish" /\ ~(Unpublished \subseteq stage)
    /\ IF rolling THEN StartQuarantine(FALSE)
       ELSE Acknowledge(journal.new) /\ UNCHANGED <<files, history, used>>

PublishDone == pc = "publish" /\ Unpublished = {}

WriteManifest ==
    /\ PublishDone
    /\ primary' = journal.new
    /\ Goto("validate")
    /\ UNCHANGED <<previous, nextGen, swap, store, stage, journal, marker, barrier,
                   seen, history, used>>

(* validate_shared_generation: a contradiction is an error to the caller,  *)
(* even past the commit point; the journal stays for recovery to judge.    *)
ValidateGeneration ==
    /\ pc = "validate"
    /\ IF Good(Members[journal.new]) THEN Goto("finalize") ELSE Leave
    /\ UNCHANGED <<files, seen, history, used>>

(* finalize_previous_swap *)
RemovePrevious ==
    /\ pc = "finalize" /\ nextGen # Absent /\ previous # Absent
    /\ previous' = Absent
    /\ UNCHANGED <<primary, nextGen, swap, store, stage, journal, marker, barrier,
                   holder, memory, seen, history, used>>

ShiftNext ==
    /\ pc = "finalize" /\ nextGen # Absent /\ previous = Absent
    /\ previous' = nextGen /\ nextGen' = Absent
    /\ UNCHANGED <<primary, swap, store, stage, journal, marker, barrier,
                   holder, memory, seen, history, used>>

RemoveStage ==
    /\ pc = "finalize" /\ nextGen = Absent
    /\ stage' = {}
    /\ Goto("removeJournal")
    /\ UNCHANGED <<gens, store, journal, marker, barrier, seen, history, used>>

(* remove_journal, and what comes after it: the body of the operation when *)
(* recovery did it, the receipt of a promotion, the last part of a commit. *)
RemoveJournal ==
    /\ pc = "removeJournal"
    /\ journal' = NoJournal /\ undo' = {}
    /\ swap' = IF rolling THEN Absent ELSE swap
    /\ \/ /\ rolling
          /\ rolling' = FALSE /\ pc' = AfterRecovery
          /\ UNCHANGED <<holder, op, moved, withPrimary, seen>>
       \/ ~rolling /\ op.kind = "commit" /\ Goto("finish") /\ UNCHANGED seen
       \/ ~rolling /\ op.kind = "promote" /\ Acknowledge(journal.new)
    /\ UNCHANGED <<primary, previous, nextGen, store, stage, marker, barrier,
                   condemned, damaged, used>>

FinishCommit ==
    /\ pc = "finish"
    /\ Collect
    /\ Acknowledge(op.new)
    /\ UNCHANGED <<gens, stage, journal, marker, barrier, history>>
-----------------------------------------------------------------------------
(* promote_sync *)
PromoteNothing ==
    /\ pc = "body" /\ op.kind = "promote" /\ previous \notin Version
    /\ Acknowledge(Revision(primary))
    /\ UNCHANGED <<files, history, used>>

PromoteRefused ==
    /\ pc = "body" /\ op.kind = "promote" /\ previous \in Version
    /\ ~Good(Members[previous])
    /\ Leave
    /\ UNCHANGED <<files, seen, history, used>>

PromoteJournal == [kind |-> "promote", old |-> Revision(primary), new |-> previous]
CanPromote ==
    /\ pc = "body" /\ op.kind = "promote" /\ previous \in Version
    /\ Good(Members[previous])
Doubt == {[cur |-> Revision(primary), prev |-> Revision(previous)]}

PromotePrepared ==
    /\ CanPromote
    /\ journal' = PromoteJournal
    /\ undo' = IF primary \in Version THEN {} ELSE Doubt
    /\ Goto("swap")
    /\ UNCHANGED <<gens, store, stage, marker, barrier, seen, condemned, damaged, used>>

(* The fsync fails and the journal is removed again, unless that fails     *)
(* too.                                                                    *)
PromoteSyncFails ==
    /\ CanPromote
    /\ \/ Fault /\ UNCHANGED <<journal, undo>>
       \/ /\ used.faults + 2 <= MaxFaults
          /\ used' = [used EXCEPT !.faults = @ + 2]
          /\ journal' = PromoteJournal /\ undo' = Doubt
    /\ Leave
    /\ UNCHANGED <<gens, store, stage, marker, barrier, seen, condemned, damaged>>

(* advance_promote_swap: three renames, each found again from what exists. *)
SwapAside ==
    /\ pc = "swap" /\ swap = Absent /\ primary # Absent
    /\ Revision(primary) # journal.new
    /\ swap' = primary /\ primary' = Absent
    /\ UNCHANGED <<previous, nextGen, store, stage, journal, marker, barrier,
                   holder, memory, seen, history, used>>

SwapIn ==
    /\ pc = "swap" /\ primary = Absent /\ previous # Absent
    /\ primary' = previous /\ previous' = Absent
    /\ UNCHANGED <<nextGen, swap, store, stage, journal, marker, barrier,
                   holder, memory, seen, history, used>>

SwapOut ==
    /\ pc = "swap" /\ swap # Absent /\ primary # Absent /\ previous = Absent
    /\ previous' = swap /\ swap' = Absent
    /\ UNCHANGED <<primary, nextGen, store, stage, journal, marker, barrier,
                   holder, memory, seen, history, used>>

SwapDone ==
    /\ pc = "swap" /\ swap = Absent /\ Revision(primary) = journal.new
    /\ Goto("removeJournal")
    /\ UNCHANGED <<files, seen, history, used>>
-----------------------------------------------------------------------------
(* quarantine_sync: a generation with a manifest is moved out of the way.  *)
QuarantineGeneration ==
    /\ pc = "body" /\ op.kind = "quarantine"
    /\ primary' = IF op.gen = "primary" /\ primary \in Version THEN Absent ELSE primary
    /\ previous' = IF op.gen = "previous" /\ previous \in Version THEN Absent ELSE previous
    /\ Leave
    /\ UNCHANGED <<nextGen, swap, store, stage, journal, marker, barrier, seen,
                   history, used>>

(* delete_all_generations_sync, without the quarantined generations.       *)
DeletePrimary ==
    /\ pc = "body" /\ op.kind = "delete"
    /\ primary' = Absent
    /\ Goto("deletePrevious")
    /\ UNCHANGED <<previous, nextGen, swap, store, stage, journal, marker, barrier,
                   seen, history, used>>

DeletePrevious ==
    /\ pc = "deletePrevious"
    /\ previous' = Absent
    /\ Leave
    /\ UNCHANGED <<primary, nextGen, swap, store, stage, journal, marker, barrier,
                   seen, history, used>>
-----------------------------------------------------------------------------
(* quarantine_corrupt: the marker, the journal, the rest of the            *)
(* transaction, the primary if it is the evidence; then, if all of it      *)
(* worked, the journal gets its final name and the marker is removed.      *)
QuarantineMarker ==
    /\ pc = "qMarker"
    /\ marker' = TRUE /\ condemned' = withPrimary
    /\ Goto("qJournal")
    /\ UNCHANGED <<gens, store, stage, journal, barrier, seen, undo, damaged, used>>

QuarantineJournal ==
    /\ pc = "qJournal"
    /\ barrier' = journal /\ journal' = NoJournal /\ undo' = {}
    /\ Goto("qEvidence")
    /\ UNCHANGED <<gens, store, stage, marker, seen, condemned, damaged, used>>

AfterEvidence == IF withPrimary THEN "qPrimary" ELSE "qSettle"
QuarantineEvidence ==
    /\ pc = "qEvidence"
    /\ nextGen' = Absent /\ swap' = Absent /\ stage' = {}
    /\ Goto(AfterEvidence)
    /\ UNCHANGED <<primary, previous, store, journal, marker, barrier, seen,
                   history, used>>

QuarantinePrimary ==
    /\ pc = "qPrimary"
    /\ primary' = Absent /\ condemned' = FALSE
    /\ Goto("qSettle")
    /\ UNCHANGED <<previous, nextGen, swap, store, stage, journal, marker, barrier,
                   seen, undo, damaged, used>>

QuarantineSettles ==
    /\ pc = "qSettle"
    /\ IF moved THEN barrier' = NoJournal /\ Goto("qClear")
       ELSE Leave /\ UNCHANGED barrier
    /\ UNCHANGED <<gens, store, stage, journal, marker, seen, history, used>>

QuarantineClears ==
    /\ pc = "qClear"
    /\ marker' = FALSE
    /\ Leave
    /\ UNCHANGED <<gens, store, stage, journal, barrier, seen, history, used>>

(* A step of it fails: without the marker nothing is moved; a rename that  *)
(* fails is passed over and the marker stays; if the primary cannot be     *)
(* moved, the journal is put back as far as that works.                    *)
QuarantineStepFails ==
    /\ Fault
    /\ \/ /\ pc \in {"qMarker", "qClear"}
          /\ Leave
          /\ UNCHANGED <<files, history>>
       \/ /\ pc = "qJournal"
          /\ pc' = "qEvidence" /\ moved' = FALSE
          /\ UNCHANGED <<files, holder, op, rolling, withPrimary, history>>
       \/ /\ pc = "qEvidence"
          /\ pc' = AfterEvidence /\ moved' = FALSE
          /\ nextGen' \in {Absent, nextGen} /\ swap' \in {Absent, swap}
          /\ stage' \in {{}, stage}
          /\ UNCHANGED <<primary, previous, store, journal, marker, barrier, holder,
                         op, rolling, withPrimary, history>>
       \/ /\ pc = "qPrimary"
          /\ pc' = "qSettle" /\ moved' = FALSE
          /\ \/ UNCHANGED <<journal, barrier>>
             \/ barrier.kind # "none" /\ journal' = barrier /\ barrier' = NoJournal
          /\ UNCHANGED <<gens, store, stage, marker, holder, op, rolling,
                         withPrimary, history>>
       \/ /\ pc = "qSettle"
          /\ barrier' \in {barrier, NoJournal}
          /\ Leave
          /\ UNCHANGED <<gens, store, stage, journal, marker, history>>
    /\ UNCHANGED seen
-----------------------------------------------------------------------------
(* An I/O error.  Before the commit point the stage is removed and the     *)
(* caller gets the error; past it the caller gets the receipt of a commit  *)
(* whose recovery is pending; recovery passes the error on.                *)
JournalSteps == {"publish", "validate", "finalize", "swap", "removeJournal"}
Fails ==
    /\ Fault
    /\ \/ /\ pc \in {"stagePrevious", "prepare"}
          /\ stage' \in {{}, stage} /\ nextGen' \in {Absent, nextGen}
          /\ Leave
          /\ UNCHANGED <<primary, previous, swap, store, journal, marker, barrier, seen>>
       \/ /\ \/ pc \in {"recover", "body", "deletePrevious"}
             \/ rolling /\ pc \in JournalSteps
          /\ Leave
          /\ UNCHANGED <<files, seen>>
       \/ /\ ~rolling /\ pc \in JournalSteps
          /\ Acknowledge(journal.new)
          /\ UNCHANGED files
    /\ UNCHANGED history

(* The process dies: the lock goes, the files stay.                        *)
Crash ==
    /\ holder # None /\ Fault
    /\ seen' = [seen EXCEPT ![holder] = None]
    /\ Leave
    /\ UNCHANGED <<files, history>>

(* A file of members/, the journal or what is staged for a transaction     *)
(* left behind is damaged from outside.  A staged file that has rotted is  *)
(* to recovery what one that is gone is.  The manifests stay readable.     *)
Damage ==
    /\ Fault /\ damaged' = TRUE
    /\ \/ /\ \E c \in Content, s \in {"bad", "absent"} :
               store[c] = "good" /\ store' = [store EXCEPT ![c] = s]
          /\ UNCHANGED <<journal, stage>>
       \/ /\ holder = None /\ journal.kind # "none"
          /\ journal' = [journal EXCEPT !.kind = "bad"]
          /\ UNCHANGED <<store, stage>>
       \/ /\ holder = None
          /\ \E c \in stage : store[c] = "absent" /\ stage' = stage \ {c}
          /\ UNCHANGED <<store, journal>>
    /\ UNCHANGED <<gens, marker, barrier, holder, memory, seen, undo, condemned>>
-----------------------------------------------------------------------------
Recovers == RecoverRefuses \/ RecoverCleans \/ RecoverBadJournal \/ RecoverCommit
            \/ RecoverPromote \/ EntryCollects
Commits == CommitRefused \/ StageMembers \/ StagePrevious \/ WritePrepared \/ Publish
           \/ PublishMissing \/ WriteManifest \/ ValidateGeneration \/ RemovePrevious
           \/ ShiftNext \/ RemoveStage \/ RemoveJournal \/ FinishCommit
Promotes == PromoteNothing \/ PromoteRefused \/ PromotePrepared \/ SwapAside \/ SwapIn
            \/ SwapOut \/ SwapDone
Discards == QuarantineGeneration \/ DeletePrimary \/ DeletePrevious
Quarantines == QuarantineMarker \/ QuarantineJournal \/ QuarantineEvidence
               \/ QuarantinePrimary \/ QuarantineSettles \/ QuarantineClears

Progress == Recovers \/ Read \/ Commits \/ Promotes \/ Discards \/ Quarantines
Faults == PreparedSyncFails \/ PromoteSyncFails \/ QuarantineStepFails \/ Fails
          \/ Crash \/ Damage

DatasetNext ==
    \/ \E c \in Client : \E o \in Operations(c) : Enter(c, o)
    \/ Progress
    \/ Faults

DatasetSpec == DatasetInit /\ [][DatasetNext]_datasetVars

(* The thread that holds the lock runs, and some client goes on reading.   *)
SomeoneReads == \E c \in Client : \E o \in Operations(c) : o.kind = "read" /\ Enter(c, o)
FairDatasetSpec ==
    DatasetSpec /\ WF_datasetVars(Progress) /\ WF_datasetVars(SomeoneReads)
-----------------------------------------------------------------------------
DatasetTypeOK ==
    /\ {primary, previous, nextGen, swap} \subseteq Generation
    /\ store \in [Content -> {"absent", "good", "bad"}] /\ stage \subseteq Content
    /\ {journal, barrier} \subseteq [kind : {"none", "commit", "promote", "bad"},
                                     old : Version \cup {None}, new : Version \cup {None}]
    /\ marker \in BOOLEAN /\ rolling \in BOOLEAN /\ moved \in BOOLEAN
    /\ {withPrimary, condemned, damaged} \subseteq BOOLEAN
    /\ holder \in Client \cup {None} /\ (holder = None <=> pc = "idle")
    /\ seen \in [Client -> Version \cup {None}]

(* Collecting orphans, publishing and finalising never leave a manifest    *)
(* that references a content which is not stored: what a reader can open,  *)
(* now or after any crash, is complete, and a transaction that is certain  *)
(* has every content it needs, published or staged.                        *)
NothingDangling ==
    ~damaged =>
        /\ Good(Contents(primary) \cup Contents(previous) \cup Contents(swap))
        /\ journal.kind = "commit" /\ undo = {} =>
              \A c \in Members[journal.new] : store[c] = "good" \/ c \in stage

(* A primary that recovery has set out to move away as corrupt is never    *)
(* opened again, wherever the process dies or fails on the way.            *)
CondemnedNeverServed ==
    condemned => pc \in {"idle", "recover", "qMarker", "qJournal", "qEvidence",
                         "qPrimary", "qSettle", "qClear"}

(* No lost update: a journal that replaces the current version is only     *)
(* written by a client that knew this version, across recovery and other   *)
(* clients' commits between its read and its commit.                       *)
Current == IF journal.kind \in {"commit", "promote"} THEN journal.new ELSE Revision(primary)
CommitOnlyOnExpected ==
    [][journal'.kind = "commit" /\ journal.kind = "none" /\ barrier = barrier'
       => seen[holder] = Current]_datasetVars

(* The dataset implements DatasetStore: the versions change when the       *)
(* journal of a commit or a promotion is written, and when the caller      *)
(* quarantines or deletes.  Recovery, whatever crashes and errors there    *)
(* are, changes neither of them except to settle a transaction in doubt,   *)
(* as long as no bytes have been damaged.                                  *)
Previous ==
    CASE journal.kind = "promote" -> journal.old
      [] journal.kind = "commit" /\ nextGen \in Version -> nextGen
      [] OTHER -> Revision(previous)
OwnPart == {"body", "stagePrevious", "prepare", "deletePrevious"}
Calling ==
    LET o == IF pc \in OwnPart THEN op ELSE NoOp
    IN  [kind |-> o.kind, version |-> o.new, gen |-> o.gen]
Store == INSTANCE DatasetStore
    WITH cur <- Current, prev <- Previous, undo <- undo, evidence <- damaged,
         call <- Calling
ImplementsStore == Store!StoreSpec

(* A journal that is left behind is dealt with by a later entry, unless    *)
(* the dataset has been closed by the marker.  This takes every manifest   *)
(* to be readable: with one that is not, recover returns the error of      *)
(* generation_revision at each entry and the journal stays.                *)
PendingRecovered == journal.kind # "none" ~> journal.kind = "none" \/ marker

(* The files are well typed, and a condemned primary is never served.       *)
DatasetOK == DatasetTypeOK /\ CondemnedNeverServed

=============================================================================
