------------------------ MODULE AtomicDatasetProofs ------------------------
(***************************************************************************)
(* The dataset on disk keeps its promises for every set of clients,        *)
(* versions and contents and any number of calls, crashes, errors and      *)
(* damages.                                                                *)
(*                                                                         *)
(* The inductive invariant has two halves.  DiskOK is about the files      *)
(* alone and holds at every step, so a crash or an error, which only takes *)
(* the lock away, needs no argument.  The Place of the holder adds what    *)
(* the code has established when it arrives at a step.                     *)
(***************************************************************************)
EXTENDS AtomicDataset, TLAPS

Maybe == Version \cup {None}
Transaction == {"commit", "promote"}
Points == {"idle", "recover", "collect", "body", "stagePrevious", "prepare", "publish",
           "validate", "finalize", "swap", "removeJournal", "finish", "deletePrevious",
           "qMarker", "qJournal", "qEvidence", "qPrimary", "qSettle", "qClear"}

JournalType == [kind : {"none", "commit", "promote", "bad"}, old : Maybe, new : Maybe]

FilesTyped ==
    /\ primary \in Generation /\ previous \in Generation
    /\ nextGen \in Generation /\ swap \in Generation
    /\ store \in [Content -> {"absent", "good", "bad"}]
    /\ stage \subseteq Content
    /\ journal \in JournalType /\ barrier \in JournalType
    /\ marker \in BOOLEAN
    /\ condemned \in BOOLEAN
    /\ damaged \in BOOLEAN

(* The holder of the lock executes a call of the port. *)
ThreadOK ==
    /\ rolling \in BOOLEAN
    /\ moved \in BOOLEAN
    /\ withPrimary \in BOOLEAN
    /\ pc \in Points
    /\ holder \in Client \cup {None}
    /\ holder = None <=> pc = "idle"
    /\ seen \in [Client -> Maybe]
    /\ op.reuse \subseteq Content
    /\ op.new \in Maybe
    /\ op.kind \in {"none", "read", "commit", "promote", "quarantine", "delete"}
    /\ op.gen \in {"primary", "previous"}
    /\ op.kind = "commit" => op.new \in Version
    /\ holder # None => op.expected = seen[holder]

(* Every content of a version is published or staged. *)
Supplied(v) == \A c \in Members[v] : store[c] = "good" \/ c \in stage

(* Nothing of a transaction in doubt has been applied. *)
Untouched == \E u \in undo : Revision(primary) = u.cur /\ Revision(previous) = u.prev

(* What a commit journal stands for: the manifest in place is the old or   *)
(* the new one, and rolling forward can succeed unless nothing was done.   *)
CommitOnDisk ==
    /\ swap = Absent
    /\ Revision(primary) \in {journal.old, journal.new}
    /\ damaged \/ Supplied(journal.new) \/ Untouched

(* The four arrangements of two generations that the renames of a          *)
(* promotion pass through.                                                 *)
PromotePlaces ==
    \/ Revision(primary) = journal.old /\ previous = journal.new /\ swap = Absent
    \/ /\ primary = Absent /\ previous = journal.new
       /\ swap # Absent /\ Revision(swap) = journal.old
    \/ /\ primary = journal.new /\ previous = Absent
       /\ swap # Absent /\ Revision(swap) = journal.old
    \/ primary = journal.new /\ Revision(previous) = journal.old /\ swap = Absent

PromoteOnDisk ==
    /\ nextGen = Absent
    /\ PromotePlaces
    /\ journal.old = None => [cur |-> None, prev |-> journal.new] \in undo

(* The bytes on disk are the ones the program has written. *)
Intact ==
    /\ \A c \in Content : store[c] # "bad"
    /\ journal.kind # "bad"
    /\ Good(Contents(primary)) /\ Good(Contents(previous))
    /\ Good(Contents(swap)) /\ Good(Contents(nextGen))

DiskOK ==
    /\ journal.kind \in Transaction => journal.new \in Version
    /\ barrier.kind \in Transaction => barrier.new \in Version
    /\ barrier.kind # "none" => marker
    /\ condemned => marker
    /\ nextGen # Empty
    /\ undo \subseteq [cur : Maybe, prev : Maybe]
    /\ ~damaged => Intact
    /\ ~damaged /\ marker /\ journal.kind # "none" => undo # {}
    /\ ~marker /\ journal.kind = "commit" => CommitOnDisk
    /\ ~marker /\ journal.kind = "promote" => PromoteOnDisk

(* Outside transactions: recovery has left nothing behind. *)
Quiet == ~marker /\ journal.kind = "none" /\ swap = Absent

(* The commit in progress was called on the current version. *)
Staged ==
    /\ Quiet
    /\ op.kind = "commit" /\ op.expected = Revision(primary)
    /\ ~damaged => Good(op.reuse) /\ Supplied(op.new)

Committing ==
    /\ ~marker /\ journal.kind = "commit"
    /\ ~damaged => Supplied(journal.new)

(* Recovery gives up a transaction, which only one in doubt can be. *)
GivenUp ==
    /\ journal.kind \in Transaction
    /\ \E u \in undo : /\ Revision(primary) \in {journal.new, u.cur}
                       /\ Revision(previous) \in {Previous, u.prev}

Place ==
    /\ pc \in {"collect", "body", "finish", "deletePrevious"} => Quiet /\ nextGen = Absent
    /\ pc = "deletePrevious" => op.kind = "delete"
    /\ pc = "stagePrevious" => Staged /\ nextGen = Absent
    /\ pc = "prepare" =>
          Staged /\ nextGen = IF primary \in Version THEN primary ELSE Absent
    /\ pc = "publish" => Committing /\ (~damaged /\ ~rolling => Good(op.reuse))
    /\ pc \in {"validate", "finalize"} => Committing /\ primary = journal.new
    /\ pc = "swap" => ~marker /\ journal.kind = "promote"
    /\ pc = "removeJournal" =>
          /\ ~marker /\ journal.kind \in Transaction
          /\ primary = journal.new /\ nextGen = Absent /\ swap = Absent
          /\ journal.kind = "promote" => Revision(previous) = journal.old

QuarantinePlace ==
    /\ pc = "qMarker" => ~marker /\ (~damaged => ~withPrimary /\ GivenUp)
    /\ pc \in {"qJournal", "qEvidence", "qPrimary", "qSettle", "qClear"} => marker
    /\ pc \in {"qJournal", "qEvidence"} => (condemned => withPrimary)
    /\ pc = "qJournal" => (~damaged => ~withPrimary /\ GivenUp)
    /\ pc = "qEvidence" =>
          (~damaged => ~withPrimary /\ (journal.kind = "none" \/ GivenUp))
    /\ pc = "qPrimary" => damaged
    /\ pc \in {"qEvidence", "qPrimary", "qSettle"} /\ moved => journal.kind = "none"
    /\ pc = "qSettle" /\ moved => ~condemned
    /\ pc = "qClear" => journal.kind = "none" /\ barrier.kind = "none" /\ ~condemned

DatasetInv == FilesTyped /\ ThreadOK /\ DiskOK /\ Place /\ QuarantinePlace
-----------------------------------------------------------------------------
(* The inductive invariant implies what the runs check. *)
LEMMA InvImplies ==
  DatasetInv => DatasetOK /\ NothingDangling
  <1> SUFFICES ASSUME DatasetInv
               PROVE  DatasetOK /\ NothingDangling
    OBVIOUS
  <1>1. {primary, previous, nextGen, swap} \subseteq Generation
    BY DEF DatasetInv, FilesTyped
  <1>2. {journal, barrier} \subseteq [kind : {"none", "commit", "promote", "bad"},
                               old : Version \cup {None}, new : Version \cup {None}]
    BY DEF DatasetInv, FilesTyped, JournalType, Maybe
  <1>3. {withPrimary, condemned, damaged} \subseteq BOOLEAN
    BY DEF DatasetInv, FilesTyped, ThreadOK
  <1>4. marker \in BOOLEAN /\ rolling \in BOOLEAN /\ moved \in BOOLEAN
    BY DEF DatasetInv, FilesTyped, ThreadOK
  <1>5. DatasetTypeOK
    BY <1>1, <1>2, <1>3, <1>4
    DEF DatasetInv, FilesTyped, ThreadOK, DatasetTypeOK, Maybe
  <1>6. CondemnedNeverServed
    <2> SUFFICES ASSUME condemned
                 PROVE  pc \in {"idle", "recover", "qMarker", "qJournal", "qEvidence",
                                "qPrimary", "qSettle", "qClear"}
      BY DEF CondemnedNeverServed
    <2>1. marker
      BY DEF DatasetInv, DiskOK
    <2>2. QED BY <2>1 DEF DatasetInv, ThreadOK, Points, Place, Quiet, Staged, Committing
  <1>7. NothingDangling
    <2> SUFFICES ASSUME ~damaged
                 PROVE  /\ Good(Contents(primary) \cup Contents(previous)
                                 \cup Contents(swap))
                        /\ journal.kind = "commit" /\ undo = {} => Supplied(journal.new)
      BY DEF NothingDangling, Supplied
    <2>1. Intact
      BY DEF DatasetInv, DiskOK
    <2>2. Good(Contents(primary) \cup Contents(previous) \cup Contents(swap))
      BY <2>1 DEF Intact, Good
    <2>3. ~marker /\ journal.kind = "commit" /\ undo = {} => Supplied(journal.new)
      BY DEF DatasetInv, DiskOK, CommitOnDisk, Untouched
    <2>4. marker /\ journal.kind = "commit" => undo # {}
      BY DEF DatasetInv, DiskOK
    <2>5. QED BY <2>2, <2>3, <2>4
  <1>8. QED BY <1>5, <1>6, <1>7 DEF DatasetOK
-----------------------------------------------------------------------------
(* Steps that leave the files alone, and steps that end a call. *)
LEMMA DiskSame ==
  ASSUME FilesTyped, DiskOK, UNCHANGED files, UNCHANGED history
  PROVE  FilesTyped' /\ DiskOK'
  <1> USE DEF files, history
  <1>1. FilesTyped'
    BY DEF FilesTyped
  <1>2. Intact' <=> Intact
    BY DEF Intact, Good, Contents
  <1>3. CommitOnDisk' <=> CommitOnDisk
    BY DEF CommitOnDisk, Supplied, Untouched, Revision
  <1>4. PromoteOnDisk' <=> PromoteOnDisk
    BY DEF PromoteOnDisk, PromotePlaces, Revision
  <1>5. QED BY <1>1, <1>2, <1>3, <1>4 DEF DiskOK

(* What an idle lock, and a call that has just entered, presuppose. *)
LEMMA NoPlace ==
  ASSUME pc' \in {"idle", "recover"}
  PROVE  Place' /\ QuarantinePlace'
  BY DEF Place, QuarantinePlace

LEMMA LeaveKeeps ==
  ASSUME Leave, FilesTyped', DiskOK', seen' \in [Client -> Maybe]
  PROVE  DatasetInv'
  <1>1. pc' = "idle" /\ holder' = None /\ op' = NoOp
    BY DEF Leave
  <1>2. rolling' \in BOOLEAN
    BY DEF Leave
  <1>3. moved' \in BOOLEAN
    BY DEF Leave
  <1>4. withPrimary' \in BOOLEAN
    BY DEF Leave
  <1>5. op'.reuse = {} /\ op'.kind = "none" /\ op'.new \in Maybe /\ op'.gen = "primary"
    BY <1>1 DEF NoOp, Maybe
  <1>6. ThreadOK'
    BY <1>1, <1>2, <1>3, <1>4, <1>5 DEF ThreadOK, Points
  <1>7. QED BY <1>1, <1>6, NoPlace DEF DatasetInv

LEMMA LeaveSame ==
  ASSUME DatasetInv, Leave, UNCHANGED <<files, history, seen>>
  PROVE  DatasetInv'
  <1>1. FilesTyped' /\ DiskOK'
    BY DiskSame DEF DatasetInv
  <1>2. QED BY <1>1, LeaveKeeps DEF DatasetInv, ThreadOK

LEMMA AcknowledgeKeeps ==
  ASSUME ThreadOK, NEW v \in Maybe, Acknowledge(v), FilesTyped', DiskOK'
  PROVE  DatasetInv'
  <1>1. seen' \in [Client -> Maybe]
    BY DEF Acknowledge, ThreadOK
  <1>2. QED BY <1>1, LeaveKeeps DEF Acknowledge

(* The thread goes on to another step of the same call. *)
LEMMA StepThread ==
  ASSUME ThreadOK, pc # "idle", pc' \in Points \ {"idle"},
         rolling' \in BOOLEAN, moved' \in BOOLEAN, withPrimary' \in BOOLEAN,
         UNCHANGED <<holder, op, seen>>
  PROVE  ThreadOK'
  BY DEF ThreadOK

LEMMA GotoThread ==
  ASSUME ThreadOK, pc # "idle", NEW p \in Points \ {"idle"}, Goto(p), UNCHANGED seen
  PROVE  ThreadOK' /\ pc' = p
  <1>1. /\ pc' = p
        /\ UNCHANGED <<holder, op, seen>>
    BY DEF Goto
  <1>2. rolling' \in BOOLEAN
    BY DEF Goto, ThreadOK
  <1>3. moved' \in BOOLEAN
    BY DEF Goto, ThreadOK
  <1>4. withPrimary' \in BOOLEAN
    BY DEF Goto, ThreadOK
  <1>5. QED BY <1>1, <1>2, <1>3, <1>4, StepThread

LEMMA MemorySame ==
  ASSUME ThreadOK, UNCHANGED <<holder, memory, seen>>
  PROVE  ThreadOK'
  BY DEF ThreadOK, memory

(* What has to hold on arrival at each step. *)
LEMMA ArriveQuiet ==
  ASSUME pc' \in {"collect", "body", "finish", "deletePrevious"}, Quiet', nextGen' = Absent,
         pc' = "deletePrevious" => op'.kind = "delete"
  PROVE  Place' /\ QuarantinePlace'
  BY DEF Place, QuarantinePlace

LEMMA ArriveStagePrevious ==
  ASSUME pc' = "stagePrevious", Staged', nextGen' = Absent
  PROVE  Place' /\ QuarantinePlace'
  BY DEF Place, QuarantinePlace

LEMMA ArrivePrepare ==
  ASSUME pc' = "prepare", Staged',
         nextGen' = IF primary' \in Version THEN primary' ELSE Absent
  PROVE  Place' /\ QuarantinePlace'
  BY DEF Place, QuarantinePlace

LEMMA ArrivePublish ==
  ASSUME pc' = "publish", Committing', ~damaged' /\ ~rolling' => Good(op.reuse)'
  PROVE  Place' /\ QuarantinePlace'
  BY DEF Place, QuarantinePlace

LEMMA ArriveCommitted ==
  ASSUME pc' \in {"validate", "finalize"}, Committing', primary' = journal'.new
  PROVE  Place' /\ QuarantinePlace'
  BY DEF Place, QuarantinePlace

LEMMA ArriveSwap ==
  ASSUME pc' = "swap", ~marker', journal'.kind = "promote"
  PROVE  Place' /\ QuarantinePlace'
  BY DEF Place, QuarantinePlace

LEMMA ArriveRemove ==
  ASSUME pc' = "removeJournal", ~marker', journal'.kind \in Transaction,
         primary' = journal'.new, nextGen' = Absent, swap' = Absent,
         journal'.kind = "promote" => Revision(previous)' = journal'.old
  PROVE  Place' /\ QuarantinePlace'
  BY DEF Place, QuarantinePlace

LEMMA ArriveMarker ==
  ASSUME pc' = "qMarker", ~marker', ~damaged' => ~withPrimary' /\ GivenUp'
  PROVE  Place' /\ QuarantinePlace'
  BY DEF Place, QuarantinePlace
-----------------------------------------------------------------------------
(* Entering and recovering. *)
LEMMA ContentsTyped ==
  ASSUME NEW g PROVE Contents(g) \subseteq Content
  BY DatasetAssumption DEF Contents

LEMMA OperationsTyped ==
  ASSUME NEW c \in Client, NEW o \in Operations(c)
  PROVE  /\ o.expected = seen[c]
         /\ o.reuse \subseteq Content
         /\ o.new \in Maybe
         /\ o.kind = "commit" => o.new \in Version
         /\ o.kind \in {"none", "read", "commit", "promote", "quarantine", "delete"}
         /\ o.gen \in {"primary", "previous"}
  <1> DEFINE Call(k, v, r, g) == [kind |-> k, expected |-> seen[c], new |-> v,
                                  reuse |-> r, gen |-> g]
  <1>1. \/ \E k \in {"read", "promote", "delete"} : o = Call(k, None, {}, "primary")
        \/ \E g \in {"primary", "previous"} : o = Call("quarantine", None, {}, g)
        \/ \E v \in Version : \E r \in SUBSET (Members[v] \cap Contents(seen[c])) :
              o = Call("commit", v, r, "primary")
    BY DEF Operations
  <1>2. CASE \E k \in {"read", "promote", "delete"} : o = Call(k, None, {}, "primary")
    BY <1>2 DEF Maybe
  <1>3. CASE \E g \in {"primary", "previous"} : o = Call("quarantine", None, {}, g)
    BY <1>3 DEF Maybe
  <1>4. CASE \E v \in Version : \E r \in SUBSET (Members[v] \cap Contents(seen[c])) :
               o = Call("commit", v, r, "primary")
    BY <1>4, ContentsTyped DEF Maybe
  <1>5. QED BY <1>1, <1>2, <1>3, <1>4

LEMMA EnterKeeps ==
  ASSUME DatasetInv, NEW c \in Client, NEW o \in Operations(c), Enter(c, o)
  PROVE  DatasetInv'
  <1>1. FilesTyped' /\ DiskOK'
    BY DiskSame DEF DatasetInv, Enter
  <1>2. /\ o.expected = seen[c] /\ o.reuse \subseteq Content /\ o.new \in Maybe
        /\ o.kind = "commit" => o.new \in Version
        /\ o.kind \in {"none", "read", "commit", "promote", "quarantine", "delete"}
        /\ o.gen \in {"primary", "previous"}
    BY OperationsTyped
  <1>3. rolling' \in BOOLEAN
    BY DEF Enter
  <1>4. moved' \in BOOLEAN
    BY DEF Enter
  <1>5. withPrimary' \in BOOLEAN
    BY DEF Enter
  <1>6. holder' = c /\ op' = o /\ pc' = "recover" /\ seen' = seen
    BY DEF Enter
  <1>7. c # None
    BY DatasetAssumption
  <1>8. ThreadOK'
    BY <1>2, <1>3, <1>4, <1>5, <1>6, <1>7 DEF DatasetInv, ThreadOK, Points
  <1>9. QED BY <1>1, <1>6, <1>8, NoPlace DEF DatasetInv

LEMMA RecoverCleansKeeps ==
  ASSUME DatasetInv, RecoverCleans
  PROVE  DatasetInv'
  <1>1. AfterRecovery \in {"collect", "body"}
    BY DEF AfterRecovery
  <1>2. ThreadOK' /\ pc' = AfterRecovery
    BY <1>1, GotoThread DEF DatasetInv, RecoverCleans, Points
  <1>3. FilesTyped'
    BY DEF DatasetInv, FilesTyped, RecoverCleans, Generation, history
  <1>4. ~damaged' => Intact'
    <2> SUFFICES ASSUME ~damaged PROVE Intact'
      BY DEF RecoverCleans, history
    <2>1. Intact
      BY DEF DatasetInv, DiskOK
    <2>2. Contents(Absent) = {}
      BY DatasetAssumption DEF Contents
    <2>3. QED BY <2>1, <2>2 DEF Intact, RecoverCleans, Good, Contents
  <1>5. DiskOK'
    BY <1>4, DatasetAssumption DEF DatasetInv, DiskOK, RecoverCleans, Barred, history
  <1>6. Quiet' /\ nextGen' = Absent
    BY DEF Quiet, RecoverCleans, Barred
  <1>7. QED BY <1>1, <1>2, <1>3, <1>5, <1>6, ArriveQuiet DEF DatasetInv

(* Quarantine of a corrupt transaction starts, or it is rolled forward. *)
LEMMA StartQuarantineKeeps ==
  ASSUME DatasetInv, NEW b \in BOOLEAN, pc # "idle", StartQuarantine(b), ~marker,
         ~damaged => ~b /\ GivenUp
  PROVE  DatasetInv'
  <1>1. FilesTyped' /\ DiskOK'
    BY DiskSame DEF DatasetInv, StartQuarantine
  <1>2. pc' = "qMarker" /\ UNCHANGED <<holder, op, seen>>
    BY DEF StartQuarantine
  <1>3. rolling' \in BOOLEAN
    BY DEF StartQuarantine, DatasetInv, ThreadOK
  <1>4. moved' \in BOOLEAN
    BY DEF StartQuarantine
  <1>5. withPrimary' = b
    BY DEF StartQuarantine
  <1>6. ThreadOK'
    BY <1>2, <1>3, <1>4, <1>5, StepThread DEF DatasetInv, Points
  <1>7. GivenUp' <=> GivenUp
    BY DEF GivenUp, StartQuarantine, files, history, Revision, Previous
  <1>8. ~damaged' => ~withPrimary' /\ GivenUp'
    BY <1>5, <1>7 DEF StartQuarantine, history
  <1>9. ~marker'
    BY DEF StartQuarantine, files
  <1>10. QED BY <1>1, <1>2, <1>6, <1>8, <1>9, ArriveMarker DEF DatasetInv

LEMMA RollForwardKeeps ==
  ASSUME DatasetInv, NEW p \in {"publish", "swap"}, pc # "idle", RollForward(p), ~marker,
         p = "swap" => journal.kind = "promote",
         p = "publish" => journal.kind = "commit" /\ (~damaged => Supplied(journal.new))
  PROVE  DatasetInv'
  <1>1. FilesTyped' /\ DiskOK'
    BY DiskSame DEF DatasetInv, RollForward
  <1>2. pc' = p /\ UNCHANGED <<holder, op, seen>>
    BY DEF RollForward
  <1>3. rolling' \in BOOLEAN
    BY DEF RollForward
  <1>4. moved' \in BOOLEAN
    BY DEF RollForward, DatasetInv, ThreadOK
  <1>5. withPrimary' \in BOOLEAN
    BY DEF RollForward, DatasetInv, ThreadOK
  <1>6. ThreadOK'
    BY <1>2, <1>3, <1>4, <1>5, StepThread DEF DatasetInv, Points
  <1>7. ~marker' /\ journal'.kind = journal.kind
    BY DEF RollForward, files
  <1>8. p = "publish" => Committing'
    BY <1>7 DEF Committing, RollForward, files, history, Supplied
  <1>9. rolling'
    BY DEF RollForward
  <1>10. Place' /\ QuarantinePlace'
    BY <1>2, <1>7, <1>8, <1>9, ArrivePublish, ArriveSwap
  <1>11. QED BY <1>1, <1>6, <1>10 DEF DatasetInv

LEMMA RecoverBadJournalKeeps ==
  ASSUME DatasetInv, RecoverBadJournal
  PROVE  DatasetInv'
  <1>1. damaged
    BY DEF DatasetInv, DiskOK, Intact, RecoverBadJournal
  <1>2. QED BY <1>1, StartQuarantineKeeps DEF RecoverBadJournal, Barred

(* A member without a fault is published or staged. *)
LEMMA NoFaultSupplied ==
  ASSUME FilesTyped, NEW v \in Version
  PROVE  /\ (\A c \in Members[v] : MemberFault(c) = "none") => Supplied(v)
         /\ Supplied(v) => \A c \in Members[v] : MemberFault(c) = "none"
         /\ (\A c \in Content : store[c] # "bad")
               => \A c \in Members[v] : MemberFault(c) # "contradicted"
  <1>1. Members[v] \subseteq Content
    BY DatasetAssumption
  <1>2. \A c \in Content : /\ c \in stage => MemberFault(c) = "none"
                           /\ c \notin stage /\ store[c] = "absent"
                                 => MemberFault(c) = "missing"
                           /\ c \notin stage /\ store[c] = "bad"
                                 => MemberFault(c) = "contradicted"
                           /\ c \notin stage /\ store[c] = "good"
                                 => MemberFault(c) = "none"
    BY DEF MemberFault
  <1>3. \A c \in Content : store[c] \in {"absent", "good", "bad"}
    BY DEF FilesTyped
  <1>4. QED BY <1>1, <1>2, <1>3 DEF Supplied

LEMMA RecoverCommitKeeps ==
  ASSUME DatasetInv, RecoverCommit
  PROVE  DatasetInv'
  <1> DEFINE faulty == {c \in Members[journal.new] : MemberFault(c) # "none"}
  <1>1. pc = "recover" /\ ~marker /\ journal.kind = "commit" /\ journal.new \in Version
    BY DEF DatasetInv, DiskOK, RecoverCommit, Barred, Transaction
  <1>2. CommitOnDisk
    BY <1>1 DEF DatasetInv, DiskOK
  <1>3. OldAccepted
    BY <1>2 DEF CommitOnDisk, OldAccepted
  <1>4. faulty = {} <=> Supplied(journal.new)
    BY <1>1, NoFaultSupplied DEF DatasetInv
  <1>5. CASE \E c \in faulty : StartQuarantine(MemberFault(c) = "contradicted")
    <2>1. PICK c \in faulty : StartQuarantine(MemberFault(c) = "contradicted")
      BY <1>5
    <2>2. ~Supplied(journal.new)
      BY <1>4, <2>1
    <2>3. ASSUME ~damaged PROVE MemberFault(c) # "contradicted" /\ GivenUp
      <3>1. Untouched
        BY <1>2, <2>2, <2>3 DEF CommitOnDisk
      <3>2. GivenUp
        BY <1>1, <3>1 DEF GivenUp, Untouched, Transaction
      <3>3. \A x \in Content : store[x] # "bad"
        BY <2>3 DEF DatasetInv, DiskOK, Intact
      <3>4. QED BY <1>1, <3>2, <3>3, NoFaultSupplied DEF DatasetInv
    <2>4. (MemberFault(c) = "contradicted") \in BOOLEAN
      OBVIOUS
    <2>5. QED BY <1>1, <2>1, <2>3, <2>4, StartQuarantineKeeps
  <1>6. CASE faulty = {} /\ OldAccepted /\ RollForward("publish")
    <2>1. Supplied(journal.new)
      BY <1>4, <1>6
    <2>2. QED BY <1>1, <1>6, <2>1, RollForwardKeeps
  <1>7. QED BY <1>3, <1>5, <1>6 DEF RecoverCommit

LEMMA RecoverPromoteKeeps ==
  ASSUME DatasetInv, RecoverPromote
  PROVE  DatasetInv'
  <1>1. pc = "recover" /\ ~marker /\ journal.kind = "promote" /\ journal.new \in Version
    BY DEF DatasetInv, DiskOK, RecoverPromote, Barred, Transaction
  <1>2. PromoteOnDisk
    BY <1>1 DEF DatasetInv, DiskOK
  <1>3. Previous = journal.old
    BY <1>1 DEF Previous
  <1>4. journal.new # None /\ Revision(journal.new) = journal.new /\ Revision(Absent) = None
    BY <1>1, DatasetAssumption DEF Revision
  <1>5. CASE ~PromoteAccepted /\ StartQuarantine(FALSE)
    <2>1. ASSUME journal.old # None PROVE FALSE
      <3>1. {Revision(primary), Revision(previous), Revision(swap)} \ {None}
               = {journal.old, journal.new}
        BY <1>2, <1>4, <2>1 DEF PromoteOnDisk, PromotePlaces
      <3>2. QED BY <1>5, <3>1 DEF PromoteAccepted
    <2>2. [cur |-> None, prev |-> journal.new] \in undo
      BY <1>2, <2>1 DEF PromoteOnDisk
    <2>3. /\ Revision(primary) \in {journal.new, None}
          /\ Revision(previous) \in {None, journal.new}
      BY <1>2, <1>4, <2>1 DEF PromoteOnDisk, PromotePlaces
    <2>4. GivenUp
      BY <1>1, <1>3, <2>1, <2>2, <2>3 DEF GivenUp, Transaction
    <2>5. QED BY <1>1, <1>5, <2>4, StartQuarantineKeeps
  <1>6. CASE PromoteAccepted /\ ~Good(Members[journal.new])
             /\ StartQuarantine(Revision(primary) = journal.new)
    <2>1. journal.new \in {primary, previous}
      BY <1>1, <1>2 DEF PromoteOnDisk, PromotePlaces, Revision
    <2>2. damaged
      BY <1>1, <1>6, <2>1 DEF DatasetInv, DiskOK, Intact, Contents
    <2>3. (Revision(primary) = journal.new) \in BOOLEAN
      OBVIOUS
    <2>4. QED BY <1>1, <1>6, <2>2, <2>3, StartQuarantineKeeps
  <1>7. CASE PromoteAccepted /\ Good(Members[journal.new]) /\ RollForward("swap")
    BY <1>1, <1>7, RollForwardKeeps
  <1>8. QED BY <1>5, <1>6, <1>7 DEF RecoverPromote

(* Collecting orphans takes nothing away that a generation references. *)
LEMMA CollectKeeps ==
  ASSUME FilesTyped, DiskOK, Quiet, nextGen = Absent, Collect,
         UNCHANGED <<gens, stage, journal, marker, barrier, history>>
  PROVE  FilesTyped' /\ DiskOK' /\ Quiet' /\ nextGen' = Absent
  <1>1. PICK C \in SUBSET Orphans :
           store' = [c \in Content |-> IF c \in C THEN "absent" ELSE store[c]]
    BY DEF Collect
  <1>2. FilesTyped'
    BY <1>1 DEF FilesTyped, gens, history
  <1>3. Quiet' /\ nextGen' = Absent
    BY DEF Quiet, gens
  <1>4. \A c \in Content : store'[c] \in {store[c], "absent"}
    BY <1>1
  <1>5. \A c \in Content : c \in Referenced => store'[c] = store[c]
    BY <1>1 DEF Orphans
  <1>6. ASSUME ~damaged PROVE Intact'
    <2>1. Intact
      BY <1>6 DEF DiskOK
    <2>2. Good(Contents(primary))' /\ Good(Contents(previous))'
      <3>1. Contents(primary) \subseteq Content /\ Contents(previous) \subseteq Content
        BY ContentsTyped
      <3>2. UNCHANGED <<primary, previous>>
        BY DEF gens
      <3>3. QED BY <1>5, <2>1, <3>1, <3>2 DEF Intact, Good, Referenced, Contents
    <2>3. Good(Contents(swap))' /\ Good(Contents(nextGen))'
      BY DatasetAssumption DEF Good, Contents, Quiet, gens
    <2>4. \A c \in Content : store'[c] # "bad"
      BY <1>4, <2>1 DEF Intact
    <2>5. QED BY <2>1, <2>2, <2>3, <2>4 DEF Intact
  <1>7. DiskOK'
    BY <1>6, DatasetAssumption DEF DiskOK, Quiet, gens, history
  <1>8. QED BY <1>2, <1>3, <1>7

LEMMA EntryCollectsKeeps ==
  ASSUME DatasetInv, EntryCollects
  PROVE  DatasetInv'
  <1>1. Quiet /\ nextGen = Absent
    BY DEF DatasetInv, Place, EntryCollects
  <1>2. FilesTyped' /\ DiskOK' /\ Quiet' /\ nextGen' = Absent
    BY <1>1, CollectKeeps DEF DatasetInv, EntryCollects
  <1>3. ThreadOK' /\ pc' = "body"
    BY GotoThread DEF DatasetInv, EntryCollects, Points
  <1>4. QED BY <1>2, <1>3, ArriveQuiet DEF DatasetInv
-----------------------------------------------------------------------------
(* Reading, and the steps of a commit. *)
LEMMA RevisionTyped == ASSUME NEW g PROVE Revision(g) \in Maybe
  BY DEF Revision, Maybe

LEMMA ReadKeeps ==
  ASSUME DatasetInv, Read \/ PromoteNothing
  PROVE  DatasetInv'
  <1>1. FilesTyped' /\ DiskOK'
    BY DiskSame DEF DatasetInv, Read, PromoteNothing
  <1>2. Acknowledge(Revision(primary))
    BY DEF Read, PromoteNothing
  <1>3. QED BY <1>1, <1>2, RevisionTyped, AcknowledgeKeeps DEF DatasetInv

LEMMA StageMembersKeeps ==
  ASSUME DatasetInv, StageMembers
  PROVE  DatasetInv'
  <1>1. Quiet /\ nextGen = Absent /\ op.new \in Version
    BY DEF DatasetInv, ThreadOK, Place, StageMembers
  <1>2. ThreadOK' /\ pc' = "stagePrevious" /\ UNCHANGED op
    BY GotoThread DEF DatasetInv, StageMembers, Points, Goto
  <1>3. Members[op.new] \subseteq Content
    BY <1>1, DatasetAssumption
  <1>4. FilesTyped'
    BY <1>3 DEF DatasetInv, FilesTyped, StageMembers, gens, history
  <1>5. Intact' <=> Intact
    BY DEF Intact, Good, Contents, StageMembers, gens
  <1>6. DiskOK'
    BY <1>1, <1>5 DEF DatasetInv, DiskOK, StageMembers, gens, history, Quiet
  <1>7. Quiet' /\ nextGen' = Absent
    BY <1>1 DEF Quiet, StageMembers, gens
  <1>8. ASSUME ~damaged PROVE Good(op.reuse)' /\ Supplied(op.new)'
    <2>1. Intact
      BY <1>8 DEF DatasetInv, DiskOK
    <2>2. \A c \in Content : store[c] \in {"absent", "good"}
      BY <2>1 DEF DatasetInv, FilesTyped, Intact
    <2>3. \A c \in Contents(primary) : store[c] = "good"
      BY <2>1 DEF Intact, Good
    <2>4. \A c \in op.reuse : store[c] = "good"
      BY DEF StageMembers, Good
    <2>5. \A c \in Members[op.new] : store[c] = "good" \/ c \in stage'
      BY <1>3, <2>2, <2>3, <2>4 DEF StageMembers
    <2>6. store' = store
      BY DEF StageMembers
    <2>7. QED BY <1>2, <2>4, <2>5, <2>6 DEF Good, Supplied
  <1>9. op'.kind = "commit" /\ op'.expected = Revision(primary)'
    BY <1>2 DEF StageMembers, RevisionMatches, gens, Revision
  <1>10. Staged'
    BY <1>7, <1>8, <1>9 DEF Staged, StageMembers, history
  <1>11. QED BY <1>2, <1>4, <1>6, <1>7, <1>10, ArriveStagePrevious DEF DatasetInv

LEMMA StagePreviousKeeps ==
  ASSUME DatasetInv, StagePrevious
  PROVE  DatasetInv'
  <1>1. Staged
    BY DEF DatasetInv, Place, StagePrevious
  <1>2. ThreadOK' /\ pc' = "prepare" /\ UNCHANGED op
    BY GotoThread DEF DatasetInv, StagePrevious, Points, Goto
  <1>3. FilesTyped'
    BY DEF DatasetInv, FilesTyped, StagePrevious, Generation, history
  <1>4. /\ Revision(primary') = Revision(primary)
        /\ Contents(primary') = Contents(primary)
        /\ Contents(nextGen') = Contents(primary)
        /\ primary' \in Version <=> primary \in Version
        /\ primary \in Version => primary' = primary
    BY DatasetAssumption DEF StagePrevious, Revision, Contents
  <1>5. Intact => Intact'
    BY <1>4 DEF Intact, Good, StagePrevious, Contents
  <1>6. nextGen' # Empty
    BY DatasetAssumption DEF StagePrevious
  <1>7. DiskOK'
    BY <1>1, <1>5, <1>6 DEF DatasetInv, DiskOK, StagePrevious, history, Staged, Quiet
  <1>8. Staged'
    <2>1. Quiet'
      BY <1>1 DEF Staged, Quiet, StagePrevious
    <2>2. op'.kind = "commit" /\ op'.expected = Revision(primary)'
      BY <1>1, <1>2, <1>4 DEF Staged
    <2>3. ~damaged' => Good(op.reuse)' /\ Supplied(op.new)'
      BY <1>1, <1>2 DEF Staged, Good, Supplied, StagePrevious, history
    <2>4. QED BY <2>1, <2>2, <2>3 DEF Staged
  <1>9. nextGen' = IF primary' \in Version THEN primary' ELSE Absent
    BY <1>4 DEF StagePrevious
  <1>10. QED BY <1>2, <1>3, <1>7, <1>8, <1>9, ArrivePrepare DEF DatasetInv

(* The journal of a commit is typed and names the current version. *)
LEMMA CommitJournalTyped ==
  ASSUME ThreadOK, op.kind = "commit"
  PROVE  /\ CommitJournal \in JournalType /\ CommitJournal.kind = "commit"
         /\ CommitJournal.new = op.new /\ CommitJournal.old = Revision(primary)
         /\ op.new \in Version
  <1>1. op.new \in Maybe /\ op.new \in Version
    BY DEF ThreadOK, Maybe
  <1>2. QED BY <1>1, RevisionTyped DEF CommitJournal, JournalType

LEMMA WritePreparedKeeps ==
  ASSUME DatasetInv, WritePrepared
  PROVE  DatasetInv'
  <1>1. Staged
    BY DEF DatasetInv, Place, WritePrepared
  <1>2. ThreadOK' /\ pc' = "publish" /\ UNCHANGED op
    BY GotoThread DEF DatasetInv, WritePrepared, Points, Goto
  <1>3. /\ journal' \in JournalType /\ journal'.kind = "commit"
        /\ journal'.new = op.new /\ journal'.old = Revision(primary)
        /\ op.new \in Version
    BY <1>1, CommitJournalTyped DEF DatasetInv, WritePrepared, Staged
  <1>4. FilesTyped'
    BY <1>3 DEF DatasetInv, FilesTyped, WritePrepared, gens, history
  <1>5. Intact => Intact'
    BY <1>3 DEF Intact, Good, WritePrepared, Contents, gens
  <1>6. Committing'
    BY <1>1, <1>3 DEF Committing, Staged, Quiet, WritePrepared, Supplied, history
  <1>7. CommitOnDisk'
    <2>1. swap' = Absent
      BY <1>1 DEF Staged, Quiet, WritePrepared, gens
    <2>2. Revision(primary)' = journal'.old
      BY <1>3 DEF WritePrepared, gens, Revision
    <2>3. damaged' \/ Supplied(journal.new)'
      BY <1>6 DEF Committing
    <2>4. QED BY <2>1, <2>2, <2>3 DEF CommitOnDisk
  <1>8. DiskOK'
    BY <1>1, <1>3, <1>5, <1>7
    DEF DatasetInv, DiskOK, WritePrepared, gens, history, Staged, Quiet
  <1>9. ~damaged' /\ ~rolling' => Good(op.reuse)'
    BY <1>1, <1>2 DEF Staged, WritePrepared, Good, history
  <1>10. QED BY <1>2, <1>4, <1>6, <1>8, <1>9, ArrivePublish DEF DatasetInv

LEMMA PreparedSyncFailsKeeps ==
  ASSUME DatasetInv, PreparedSyncFails
  PROVE  DatasetInv'
  <1>1. Staged
    BY DEF DatasetInv, Place, PreparedSyncFails
  <1>2. /\ journal' \in JournalType /\ journal'.kind = "commit"
        /\ journal'.new = op.new /\ journal'.old = Revision(primary)
        /\ op.new \in Version
    BY <1>1, CommitJournalTyped DEF DatasetInv, PreparedSyncFails, Staged
  <1>3. FilesTyped'
    BY <1>2 DEF DatasetInv, FilesTyped, PreparedSyncFails, Generation
  <1>4. Intact => Intact'
    <2>1. Contents(Absent) = {}
      BY DatasetAssumption DEF Contents
    <2>2. Contents(nextGen') \in {{}, Contents(nextGen)}
      BY <2>1 DEF PreparedSyncFails
    <2>3. QED BY <1>2, <2>2 DEF Intact, Good, PreparedSyncFails, Contents
  <1>5. CommitOnDisk'
    <2>1. swap' = Absent
      BY <1>1 DEF Staged, Quiet, PreparedSyncFails
    <2>2. Revision(primary)' = journal'.old
      BY <1>2 DEF PreparedSyncFails, Revision
    <2>3. Untouched'
      BY DEF Untouched, PreparedSyncFails, Revision
    <2>4. QED BY <2>1, <2>2, <2>3 DEF CommitOnDisk
  <1>6. undo' \subseteq [cur : Maybe, prev : Maybe]
    BY RevisionTyped DEF PreparedSyncFails
  <1>7. nextGen' # Empty
    BY DatasetAssumption DEF PreparedSyncFails, DatasetInv, DiskOK
  <1>8. DiskOK'
    BY <1>1, <1>2, <1>4, <1>5, <1>6, <1>7
    DEF DatasetInv, DiskOK, PreparedSyncFails, Staged, Quiet
  <1>9. QED BY <1>3, <1>8, LeaveKeeps DEF DatasetInv, ThreadOK, PreparedSyncFails

LEMMA PublishKeeps ==
  ASSUME DatasetInv, Publish
  PROVE  DatasetInv'
  <1>1. /\ Committing /\ journal.new \in Version
        /\ ~damaged /\ ~rolling => Good(op.reuse)
    BY DEF DatasetInv, DiskOK, Place, Publish, Committing, Transaction
  <1>2. PICK c \in Unpublished \cap stage : /\ store' = [store EXCEPT ![c] = "good"]
                                             /\ stage' = stage \ {c}
    BY DEF Publish
  <1>3. /\ UNCHANGED <<gens, journal, marker, barrier>>
        /\ UNCHANGED <<holder, memory, seen>>
        /\ UNCHANGED history
    BY DEF Publish
  <1>4. ThreadOK' /\ pc' = "publish" /\ UNCHANGED <<op, rolling>>
    BY <1>3, MemorySame DEF DatasetInv, memory, Publish
  <1>5. FilesTyped'
    BY <1>2, <1>3 DEF DatasetInv, FilesTyped, gens, history
  <1>6. \A x \in Content : store'[x] = IF x = c THEN "good" ELSE store[x]
    BY <1>2 DEF DatasetInv, FilesTyped
  <1>7. Intact => Intact'
    <2>1. \A g \in Generation : Good(Contents(g)) => \A x \in Contents(g) : store'[x] = "good"
      BY <1>6, ContentsTyped DEF Good
    <2>2. QED BY <1>3, <1>6, <2>1 DEF Intact, Good, gens, DatasetInv, FilesTyped
  <1>8. Members[journal.new] \subseteq Content
    BY <1>1, DatasetAssumption
  <1>9. Supplied(journal.new) => Supplied(journal.new)'
    BY <1>2, <1>3, <1>6, <1>8 DEF Supplied
  <1>10. Committing'
    BY <1>1, <1>3, <1>9 DEF Committing, history
  <1>11. CommitOnDisk'
    <2>1. CommitOnDisk
      BY <1>1 DEF DatasetInv, DiskOK, Committing
    <2>2. damaged' \/ Supplied(journal.new)'
      BY <1>10 DEF Committing
    <2>3. QED BY <1>3, <2>1, <2>2 DEF CommitOnDisk, gens, Revision
  <1>12. DiskOK'
    BY <1>1, <1>3, <1>7, <1>11 DEF DatasetInv, DiskOK, gens, history, Committing
  <1>13. ~damaged' /\ ~rolling' => Good(op.reuse)'
    BY <1>1, <1>3, <1>4, <1>6 DEF Good, history, DatasetInv, ThreadOK
  <1>14. QED BY <1>4, <1>5, <1>10, <1>12, <1>13, ArrivePublish DEF DatasetInv

LEMMA PublishMissingKeeps ==
  ASSUME DatasetInv, PublishMissing
  PROVE  DatasetInv'
  <1>1. /\ pc = "publish" /\ Committing /\ journal.new \in Version
    BY DEF DatasetInv, DiskOK, Place, PublishMissing, Committing, Transaction
  <1>2. CASE rolling
    <2>1. damaged
      BY <1>1, <1>2 DEF PublishMissing, Committing, Supplied, Unpublished
    <2>2. StartQuarantine(FALSE)
      BY <1>2 DEF PublishMissing
    <2>3. QED BY <1>1, <2>1, <2>2, StartQuarantineKeeps DEF Committing
  <1>3. CASE ~rolling
    <2>1. Acknowledge(journal.new) /\ UNCHANGED <<files, history>>
      BY <1>3 DEF PublishMissing
    <2>2. journal.new \in Maybe
      BY <1>1 DEF Maybe
    <2>3. FilesTyped' /\ DiskOK'
      BY <2>1, DiskSame DEF DatasetInv
    <2>4. QED BY <2>1, <2>2, <2>3, AcknowledgeKeeps DEF DatasetInv
  <1>4. QED BY <1>2, <1>3

LEMMA WriteManifestKeeps ==
  ASSUME DatasetInv, WriteManifest
  PROVE  DatasetInv'
  <1>1. /\ pc = "publish" /\ Committing /\ journal.new \in Version
        /\ ~damaged /\ ~rolling => Good(op.reuse)
    BY DEF DatasetInv, DiskOK, Place, WriteManifest, PublishDone, Committing, Transaction
  <1>2. ThreadOK' /\ pc' = "validate"
    BY <1>1, GotoThread DEF DatasetInv, WriteManifest, Points
  <1>3. FilesTyped'
    BY <1>1 DEF DatasetInv, FilesTyped, WriteManifest, Generation, history
  <1>4. Members[journal.new] \subseteq Content
    BY <1>1, DatasetAssumption
  <1>5. ASSUME ~damaged PROVE Intact'
    <2>1. Intact
      BY <1>5 DEF DatasetInv, DiskOK
    <2>2. \A c \in Content : store[c] \in {"absent", "good"}
      BY <2>1 DEF DatasetInv, FilesTyped, Intact
    <2>3. \A c \in Members[journal.new] \ (IF rolling THEN {} ELSE op.reuse) :
             store[c] # "absent"
      BY DEF WriteManifest, PublishDone, Unpublished
    <2>4. \A c \in Members[journal.new] : store[c] = "good"
      BY <1>1, <1>4, <1>5, <2>2, <2>3 DEF Good
    <2>5. Good(Contents(primary))'
      BY <1>1, <2>4 DEF Good, Contents, WriteManifest
    <2>6. QED BY <2>1, <2>5 DEF Intact, Good, Contents, WriteManifest
  <1>6. Committing'
    BY <1>1 DEF Committing, WriteManifest, Supplied, history
  <1>7. CommitOnDisk'
    <2>1. CommitOnDisk
      BY <1>1 DEF DatasetInv, DiskOK, Committing
    <2>2. damaged' \/ Supplied(journal.new)'
      BY <1>6 DEF Committing
    <2>3. Revision(primary)' = journal'.new
      BY <1>1 DEF WriteManifest, Revision
    <2>4. QED BY <2>1, <2>2, <2>3 DEF CommitOnDisk, WriteManifest
  <1>8. DiskOK'
    BY <1>1, <1>5, <1>7 DEF DatasetInv, DiskOK, WriteManifest, history, Committing
  <1>9. primary' = journal'.new
    BY DEF WriteManifest
  <1>10. QED BY <1>2, <1>3, <1>6, <1>8, <1>9, ArriveCommitted DEF DatasetInv
(* A step past the manifest changes neither the journal nor the primary,   *)
(* and the versions that it drops are not needed.                          *)
LEMMA FinalizeDisk ==
  ASSUME DatasetInv, pc = "finalize", UNCHANGED <<primary, swap, store, journal, marker, barrier>>,
         UNCHANGED history, stage' \in {{}, stage},
         {previous', nextGen'} \subseteq {Absent, previous, nextGen}, nextGen' # Empty
  PROVE  /\ FilesTyped' /\ DiskOK' /\ Committing'
         /\ primary' = journal'.new /\ swap' = Absent /\ journal'.new \in Version
  <1>1. /\ Committing /\ primary = journal.new /\ journal.new \in Version
    BY DEF DatasetInv, DiskOK, Place, Committing, Transaction
  <1>2. CommitOnDisk
    BY <1>1 DEF DatasetInv, DiskOK, Committing
  <1>3. {previous', nextGen'} \subseteq Generation
    BY DEF DatasetInv, FilesTyped, Generation
  <1>4. FilesTyped'
    BY <1>3 DEF DatasetInv, FilesTyped, history
  <1>5. ASSUME ~damaged PROVE Intact' /\ Supplied(journal.new)'
    <2>1. Intact
      BY <1>5 DEF DatasetInv, DiskOK
    <2>2. \A g \in {Absent, previous, nextGen} : Good(Contents(g))
      BY <2>1, DatasetAssumption DEF Intact, Good, Contents
    <2>3. Good(Contents(previous')) /\ Good(Contents(nextGen'))
      BY <2>2
    <2>4. Good(Members[journal.new])
      BY <1>1, <2>1 DEF Intact, Contents
    <2>5. Intact'
      BY <2>1, <2>3 DEF Intact, Good, Contents
    <2>6. QED BY <2>4, <2>5 DEF Good, Supplied
  <1>6. Committing'
    BY <1>1, <1>5 DEF Committing, history
  <1>7. CommitOnDisk'
    BY <1>2, <1>5 DEF CommitOnDisk, Revision, history
  <1>8. DiskOK'
    BY <1>1, <1>5, <1>7 DEF DatasetInv, DiskOK, Committing, history
  <1>9. QED BY <1>1, <1>2, <1>4, <1>6, <1>8 DEF CommitOnDisk

LEMMA FinalizeKeeps ==
  ASSUME DatasetInv, RemovePrevious \/ ShiftNext
  PROVE  DatasetInv'
  <1>1. /\ pc = "finalize" /\ UNCHANGED <<primary, swap, store, journal, marker, barrier>>
        /\ UNCHANGED history
        /\ UNCHANGED <<holder, memory, seen>>
        /\ stage' = stage
    BY DEF RemovePrevious, ShiftNext
  <1>2. {previous', nextGen'} \subseteq {Absent, previous, nextGen}
    BY DEF RemovePrevious, ShiftNext
  <1>3. nextGen' # Empty
    BY DatasetAssumption DEF RemovePrevious, ShiftNext, DatasetInv, DiskOK
  <1>4. FilesTyped' /\ DiskOK' /\ Committing' /\ primary' = journal'.new
    BY <1>1, <1>2, <1>3, FinalizeDisk
  <1>5. ThreadOK' /\ pc' = "finalize"
    BY <1>1, MemorySame DEF DatasetInv, memory
  <1>6. QED BY <1>4, <1>5, ArriveCommitted DEF DatasetInv

LEMMA RemoveStageKeeps ==
  ASSUME DatasetInv, RemoveStage
  PROVE  DatasetInv'
  <1>1. /\ pc = "finalize" /\ UNCHANGED <<primary, swap, store, journal, marker, barrier>>
        /\ UNCHANGED history
        /\ stage' = {}
        /\ UNCHANGED <<previous, nextGen>>
    BY DEF RemoveStage, gens
  <1>2. nextGen' = Absent /\ nextGen' # Empty
    BY DatasetAssumption DEF RemoveStage, gens
  <1>3. /\ FilesTyped' /\ DiskOK' /\ Committing'
        /\ primary' = journal'.new /\ swap' = Absent
    BY <1>1, <1>2, FinalizeDisk
  <1>4. ThreadOK' /\ pc' = "removeJournal"
    BY <1>1, GotoThread DEF DatasetInv, RemoveStage, Points
  <1>5. ~marker' /\ journal'.kind = "commit"
    BY <1>3 DEF Committing
  <1>6. QED BY <1>2, <1>3, <1>4, <1>5, ArriveRemove DEF DatasetInv, Transaction

LEMMA ValidateKeeps ==
  ASSUME DatasetInv, ValidateGeneration
  PROVE  DatasetInv'
  <1>1. CASE Leave
    BY <1>1, LeaveSame DEF ValidateGeneration
  <1>2. CASE Goto("finalize")
    <2>1. ThreadOK' /\ pc' = "finalize"
      BY <1>2, GotoThread DEF DatasetInv, ValidateGeneration, Points
    <2>2. FilesTyped' /\ DiskOK'
      BY DiskSame DEF DatasetInv, ValidateGeneration
    <2>3. Committing /\ primary = journal.new
      BY DEF DatasetInv, Place, ValidateGeneration
    <2>4. Committing' /\ primary' = journal'.new
      BY <2>3 DEF Committing, ValidateGeneration, files, history, Supplied
    <2>5. QED BY <2>1, <2>2, <2>4, ArriveCommitted DEF DatasetInv
  <1>3. QED BY <1>1, <1>2 DEF ValidateGeneration

LEMMA RemoveJournalKeeps ==
  ASSUME DatasetInv, RemoveJournal
  PROVE  DatasetInv'
  <1>1. /\ pc = "removeJournal" /\ ~marker /\ journal.kind \in Transaction
        /\ primary = journal.new /\ nextGen = Absent /\ swap = Absent
        /\ journal.new \in Version
    BY DEF DatasetInv, DiskOK, Place, RemoveJournal
  <1>2. swap' = Absent /\ nextGen' = Absent /\ ~marker'
    BY <1>1 DEF RemoveJournal
  <1>3. NoJournal \in JournalType /\ NoJournal.kind = "none"
    BY DEF NoJournal, JournalType, Maybe
  <1>4. FilesTyped'
    BY <1>2, <1>3 DEF DatasetInv, FilesTyped, RemoveJournal, Generation
  <1>5. Intact => Intact'
    BY <1>1, <1>2, <1>3 DEF Intact, Good, RemoveJournal, Contents
  <1>6. DiskOK'
    BY <1>1, <1>2, <1>3, <1>5, DatasetAssumption
    DEF DatasetInv, DiskOK, RemoveJournal, Transaction
  <1>7. Quiet'
    BY <1>2, <1>3 DEF Quiet, RemoveJournal
  <1>8. CASE rolling' = FALSE /\ pc' = AfterRecovery
             /\ UNCHANGED <<holder, op, moved, withPrimary, seen>>
    <2>1. pc' \in {"collect", "body"}
      BY <1>8 DEF AfterRecovery
    <2>2. rolling' \in BOOLEAN
      BY <1>8
    <2>3. moved' \in BOOLEAN
      BY <1>8 DEF DatasetInv, ThreadOK
    <2>4. withPrimary' \in BOOLEAN
      BY <1>8 DEF DatasetInv, ThreadOK
    <2>5. ThreadOK'
      BY <1>1, <1>8, <2>1, <2>2, <2>3, <2>4, StepThread DEF DatasetInv, Points
    <2>6. QED BY <1>2, <1>4, <1>6, <1>7, <2>1, <2>5, ArriveQuiet DEF DatasetInv
  <1>9. CASE Goto("finish") /\ UNCHANGED seen
    <2>1. ThreadOK' /\ pc' = "finish"
      BY <1>1, <1>9, GotoThread DEF DatasetInv, Points
    <2>2. QED BY <1>2, <1>4, <1>6, <1>7, <2>1, ArriveQuiet DEF DatasetInv
  <1>10. CASE Acknowledge(journal.new)
    <2>1. journal.new \in Maybe
      BY <1>1 DEF Maybe
    <2>2. QED BY <1>4, <1>6, <1>10, <2>1, AcknowledgeKeeps DEF DatasetInv
  <1>11. QED BY <1>8, <1>9, <1>10 DEF RemoveJournal

LEMMA FinishCommitKeeps ==
  ASSUME DatasetInv, FinishCommit
  PROVE  DatasetInv'
  <1>1. Quiet /\ nextGen = Absent
    BY DEF DatasetInv, Place, FinishCommit
  <1>2. FilesTyped' /\ DiskOK'
    BY <1>1, CollectKeeps DEF DatasetInv, FinishCommit
  <1>3. op.new \in Maybe
    BY DEF DatasetInv, ThreadOK
  <1>4. QED BY <1>2, <1>3, AcknowledgeKeeps DEF DatasetInv, FinishCommit
-----------------------------------------------------------------------------
(* Promotion. *)
LEMMA PromoteDisk ==
  ASSUME DatasetInv, CanPromote, journal' = PromoteJournal,
         UNCHANGED <<primary, previous, nextGen, swap, store, stage, marker, barrier>>,
         UNCHANGED <<condemned, damaged>>,
         undo' \subseteq {[cur |-> Revision(primary), prev |-> Revision(previous)]},
         primary \notin Version => undo' = Doubt
  PROVE  FilesTyped' /\ DiskOK' /\ ~marker' /\ journal'.kind = "promote"
  <1>1. Quiet /\ nextGen = Absent /\ previous \in Version
    BY DEF DatasetInv, Place, CanPromote
  <1>2. Revision(previous) = previous /\ previous \in Maybe
    BY <1>1 DEF Revision, Maybe
  <1>3. /\ journal' \in JournalType /\ journal'.kind = "promote"
        /\ journal'.new = previous /\ journal'.old = Revision(primary)
    BY <1>2, RevisionTyped DEF PromoteJournal, JournalType
  <1>4. FilesTyped'
    BY <1>3 DEF DatasetInv, FilesTyped
  <1>5. Intact => Intact'
    BY <1>3 DEF Intact, Good, Contents
  <1>6. undo' \subseteq [cur : Maybe, prev : Maybe]
    BY RevisionTyped
  <1>7. PromoteOnDisk'
    <2>1. nextGen' = Absent
      BY <1>1
    <2>2. PromotePlaces'
      BY <1>1, <1>3 DEF PromotePlaces, Quiet, Revision
    <2>3. ASSUME journal'.old = None
          PROVE  [cur |-> None, prev |-> journal'.new] \in undo'
      <3>1. primary \notin Version
        BY <1>3, <2>3, DatasetAssumption DEF Revision
      <3>2. QED BY <1>2, <1>3, <2>3, <3>1 DEF Doubt
    <2>4. QED BY <2>1, <2>2, <2>3 DEF PromoteOnDisk
  <1>8. DiskOK'
    BY <1>1, <1>3, <1>5, <1>6, <1>7 DEF DatasetInv, DiskOK, Quiet
  <1>9. QED BY <1>1, <1>3, <1>4, <1>8 DEF Quiet

LEMMA PromotePreparedKeeps ==
  ASSUME DatasetInv, PromotePrepared
  PROVE  DatasetInv'
  <1>1. FilesTyped' /\ DiskOK' /\ ~marker' /\ journal'.kind = "promote"
    BY PromoteDisk DEF PromotePrepared, gens, Doubt
  <1>2. ThreadOK' /\ pc' = "swap"
    BY GotoThread DEF DatasetInv, PromotePrepared, CanPromote, Points
  <1>3. QED BY <1>1, <1>2, ArriveSwap DEF DatasetInv

LEMMA PromoteSyncFailsKeeps ==
  ASSUME DatasetInv, PromoteSyncFails
  PROVE  DatasetInv'
  <1>1. CASE UNCHANGED <<journal, undo>>
    BY <1>1, LeaveSame DEF PromoteSyncFails, files, gens, history
  <1>2. CASE journal' = PromoteJournal /\ undo' = Doubt
    <2>1. FilesTyped' /\ DiskOK'
      BY <1>2, PromoteDisk DEF PromoteSyncFails, gens, Doubt
    <2>2. QED BY <2>1, LeaveKeeps DEF PromoteSyncFails, DatasetInv, ThreadOK
  <1>3. QED BY <1>1, <1>2 DEF PromoteSyncFails

(* A rename of the swap goes from one arrangement to the next. *)
LEMMA SwapKeeps ==
  ASSUME DatasetInv, SwapAside \/ SwapIn \/ SwapOut
  PROVE  DatasetInv'
  <1>1. /\ pc = "swap"
        /\ UNCHANGED <<nextGen, store, stage, journal, marker, barrier>>
        /\ UNCHANGED history
        /\ UNCHANGED <<holder, memory, seen>>
    BY DEF SwapAside, SwapIn, SwapOut
  <1>2. /\ ~marker /\ journal.kind = "promote" /\ journal.new \in Version
    BY <1>1 DEF DatasetInv, DiskOK, Place, Transaction
  <1>3. PromoteOnDisk
    BY <1>2 DEF DatasetInv, DiskOK
  <1>4. Absent \notin Version /\ journal.new # Absent
    BY <1>2, DatasetAssumption
  <1>5. PromotePlaces'
    <2>1. CASE SwapAside
      BY <1>1, <1>2, <1>3, <1>4, <2>1
      DEF SwapAside, PromoteOnDisk, PromotePlaces, Revision
    <2>2. CASE SwapIn
      BY <1>1, <1>2, <1>3, <1>4, <2>2
      DEF SwapIn, PromoteOnDisk, PromotePlaces, Revision
    <2>3. CASE SwapOut
      BY <1>1, <1>2, <1>3, <1>4, <2>3
      DEF SwapOut, PromoteOnDisk, PromotePlaces, Revision
    <2>4. QED BY <2>1, <2>2, <2>3
  <1>6. {primary', previous', swap'} \subseteq {Absent, primary, previous, swap}
    BY DEF SwapAside, SwapIn, SwapOut
  <1>7. FilesTyped'
    <2>1. {primary', previous', swap'} \subseteq Generation
      BY <1>6 DEF DatasetInv, FilesTyped, Generation
    <2>2. QED BY <1>1, <2>1 DEF DatasetInv, FilesTyped, history
  <1>8. Intact => Intact'
    <2>1. Good(Contents(Absent))
      BY <1>4 DEF Good, Contents
    <2>2. Intact => \A g \in {Absent, primary, previous, swap} : Good(Contents(g))
      BY <2>1 DEF Intact
    <2>3. Intact => \A g \in {primary', previous', swap'} : Good(Contents(g))
      BY <1>6, <2>2
    <2>4. Intact => /\ Good(Contents(primary')) /\ Good(Contents(previous'))
                    /\ Good(Contents(swap'))
      BY <2>3
    <2>5. QED BY <1>1, <2>4 DEF Intact, Good, Contents
  <1>9. PromoteOnDisk'
    BY <1>1, <1>3, <1>5 DEF PromoteOnDisk, history
  <1>10. DiskOK'
    BY <1>1, <1>2, <1>8, <1>9 DEF DatasetInv, DiskOK, history
  <1>11. ThreadOK' /\ pc' = "swap"
    BY <1>1, MemorySame DEF DatasetInv, memory
  <1>12. QED BY <1>1, <1>2, <1>7, <1>10, <1>11, ArriveSwap DEF DatasetInv

LEMMA SwapDoneKeeps ==
  ASSUME DatasetInv, SwapDone
  PROVE  DatasetInv'
  <1>1. FilesTyped' /\ DiskOK'
    BY DiskSame DEF DatasetInv, SwapDone
  <1>2. ThreadOK' /\ pc' = "removeJournal"
    BY GotoThread DEF DatasetInv, SwapDone, Points
  <1>3. /\ ~marker /\ journal.kind = "promote" /\ journal.new \in Version
    BY DEF DatasetInv, DiskOK, Place, Transaction, SwapDone
  <1>4. PromoteOnDisk
    BY <1>3 DEF DatasetInv, DiskOK
  <1>5. primary = journal.new
    BY <1>3, DatasetAssumption DEF SwapDone, Revision
  <1>6. Revision(previous) = journal.old
    BY <1>3, <1>4, <1>5, DatasetAssumption
    DEF SwapDone, PromoteOnDisk, PromotePlaces, Revision
  <1>7. nextGen = Absent /\ swap = Absent
    BY <1>4 DEF PromoteOnDisk, SwapDone
  <1>8. UNCHANGED <<primary, previous, nextGen, swap, journal, marker>>
    BY DEF SwapDone, files
  <1>9. Revision(previous)' = journal'.old
    BY <1>6, <1>8
  <1>10. QED BY <1>1, <1>2, <1>3, <1>5, <1>7, <1>8, <1>9, ArriveRemove
         DEF DatasetInv, Transaction
-----------------------------------------------------------------------------
(* The caller's quarantine and deletion. *)
LEMMA DiscardDisk ==
  ASSUME DatasetInv, Quiet, nextGen = Absent,
         primary' \in {Absent, primary}, previous' \in {Absent, previous},
         UNCHANGED <<nextGen, swap, store, stage, journal, marker, barrier>>,
         UNCHANGED history
  PROVE  FilesTyped' /\ DiskOK' /\ Quiet' /\ nextGen' = Absent
  <1>1. FilesTyped'
    BY DEF DatasetInv, FilesTyped, Generation, history
  <1>2. Intact => Intact'
    <2>1. Good(Contents(Absent))
      BY DatasetAssumption DEF Good, Contents
    <2>2. Intact => Good(Contents(primary')) /\ Good(Contents(previous'))
      BY <2>1 DEF Intact
    <2>3. QED BY <2>2 DEF Intact, Good, Contents
  <1>3. DiskOK'
    BY <1>2 DEF DatasetInv, DiskOK, history, Quiet
  <1>4. QED BY <1>1, <1>3 DEF Quiet

LEMMA DiscardsKeeps ==
  ASSUME DatasetInv, Discards
  PROVE  DatasetInv'
  <1>1. Quiet /\ nextGen = Absent
    BY DEF DatasetInv, Place, Discards, QuarantineGeneration, DeletePrimary, DeletePrevious
  <1>2. FilesTyped' /\ DiskOK' /\ Quiet' /\ nextGen' = Absent
    BY <1>1, DiscardDisk
    DEF Discards, QuarantineGeneration, DeletePrimary, DeletePrevious
  <1>3. CASE QuarantineGeneration \/ DeletePrevious
    BY <1>2, <1>3, LeaveKeeps
    DEF DatasetInv, ThreadOK, QuarantineGeneration, DeletePrevious
  <1>4. CASE DeletePrimary
    <2>1. ThreadOK' /\ pc' = "deletePrevious"
      BY <1>4, GotoThread DEF DatasetInv, DeletePrimary, Points
    <2>2. op'.kind = "delete"
      BY <1>4 DEF DeletePrimary, Goto
    <2>3. QED BY <1>2, <2>1, <2>2, ArriveQuiet DEF DatasetInv
  <1>5. QED BY <1>3, <1>4 DEF Discards
-----------------------------------------------------------------------------
(* Quarantine of a corrupt transaction. *)
LEMMA NoJournalTyped == NoJournal \in JournalType /\ NoJournal.kind = "none"
  BY DEF NoJournal, JournalType, Maybe

(* Under the marker the files of a transaction may be taken away one by    *)
(* one.                                                                    *)
LEMMA MarkedDisk ==
  ASSUME FilesTyped, DiskOK, marker' = TRUE, condemned' \in BOOLEAN,
         primary' \in {Absent, primary}, previous' = previous,
         nextGen' \in {Absent, nextGen}, swap' \in {Absent, swap},
         store' = store, stage' \in {{}, stage},
         journal' \in {journal, barrier, NoJournal},
         barrier' \in {journal, barrier, NoJournal},
         undo' \subseteq undo, damaged' = damaged,
         ~damaged => /\ journal' \in {journal, NoJournal}
                     /\ journal'.kind # "none" => undo' # {}
  PROVE  FilesTyped' /\ DiskOK'
  <1>1. FilesTyped'
    <2>1. journal' \in JournalType /\ barrier' \in JournalType
      BY NoJournalTyped DEF FilesTyped
    <2>2. marker' \in BOOLEAN
      OBVIOUS
    <2>3. damaged' \in BOOLEAN
      BY DEF FilesTyped
    <2>4. QED BY <2>1, <2>2, <2>3 DEF FilesTyped, Generation
  <1>2. ASSUME ~damaged PROVE Intact'
    <2>1. Intact
      BY <1>2 DEF DiskOK
    <2>2. Good(Contents(Absent))
      BY DatasetAssumption DEF Good, Contents
    <2>3. /\ Good(Contents(primary')) /\ Good(Contents(previous'))
          /\ Good(Contents(swap')) /\ Good(Contents(nextGen'))
      BY <2>1, <2>2 DEF Intact
    <2>4. journal'.kind # "bad"
      BY <1>2, <2>1, NoJournalTyped DEF Intact
    <2>5. QED BY <2>1, <2>3, <2>4 DEF Intact, Good, Contents
  <1>3. /\ journal'.kind \in Transaction => journal'.new \in Version
        /\ barrier'.kind \in Transaction => barrier'.new \in Version
    BY NoJournalTyped DEF DiskOK, Transaction
  <1>4. nextGen' # Empty
    BY DatasetAssumption DEF DiskOK
  <1>5. undo' \subseteq [cur : Maybe, prev : Maybe]
    BY DEF DiskOK
  <1>6. QED BY <1>1, <1>2, <1>3, <1>4, <1>5 DEF DiskOK

LEMMA QuarantineMarkerKeeps ==
  ASSUME DatasetInv, QuarantineMarker
  PROVE  DatasetInv'
  <1>1. pc = "qMarker" /\ (~damaged => ~withPrimary /\ GivenUp)
    BY DEF DatasetInv, QuarantinePlace, QuarantineMarker
  <1>2. ThreadOK' /\ pc' = "qJournal" /\ UNCHANGED withPrimary
    BY <1>1, GotoThread DEF DatasetInv, QuarantineMarker, Points, Goto
  <1>3. /\ UNCHANGED <<primary, previous, nextGen, swap>>
        /\ UNCHANGED <<store, stage, journal, barrier, undo, damaged>>
        /\ marker' = TRUE /\ condemned' = withPrimary
    BY DEF QuarantineMarker, gens
  <1>4. condemned' \in BOOLEAN
    BY <1>3 DEF DatasetInv, ThreadOK
  <1>5. ~damaged => undo # {}
    BY <1>1 DEF GivenUp
  <1>6. FilesTyped' /\ DiskOK'
    BY <1>3, <1>4, <1>5, MarkedDisk DEF DatasetInv
  <1>7. GivenUp' <=> GivenUp
    BY <1>3 DEF GivenUp, Previous, Revision
  <1>8. ~damaged' => ~withPrimary' /\ GivenUp'
    BY <1>1, <1>2, <1>3, <1>7
  <1>9. Place' /\ QuarantinePlace'
    BY <1>2, <1>3, <1>8 DEF Place, QuarantinePlace
  <1>10. QED BY <1>2, <1>6, <1>9 DEF DatasetInv

LEMMA QuarantineJournalKeeps ==
  ASSUME DatasetInv, QuarantineJournal
  PROVE  DatasetInv'
  <1>1. /\ pc = "qJournal" /\ marker
        /\ ~damaged => ~withPrimary
        /\ condemned => withPrimary
    BY DEF DatasetInv, QuarantinePlace, QuarantineJournal
  <1>2. ThreadOK' /\ pc' = "qEvidence" /\ UNCHANGED <<withPrimary, moved>>
    BY <1>1, GotoThread DEF DatasetInv, QuarantineJournal, Points, Goto
  <1>3. /\ UNCHANGED <<primary, previous, nextGen, swap>>
        /\ UNCHANGED <<store, stage, marker, condemned, damaged>>
        /\ barrier' = journal /\ journal' = NoJournal /\ undo' = {}
    BY DEF QuarantineJournal, gens
  <1>4. condemned' \in BOOLEAN
    BY <1>3 DEF DatasetInv, FilesTyped
  <1>5. marker' = TRUE
    BY <1>1, <1>3 DEF DatasetInv, FilesTyped
  <1>6. FilesTyped' /\ DiskOK'
    BY <1>3, <1>4, <1>5, NoJournalTyped, MarkedDisk DEF DatasetInv
  <1>7. Place' /\ QuarantinePlace'
    BY <1>1, <1>2, <1>3, <1>5, NoJournalTyped DEF Place, QuarantinePlace
  <1>8. QED BY <1>2, <1>6, <1>7 DEF DatasetInv

LEMMA QuarantineEvidenceKeeps ==
  ASSUME DatasetInv, pc = "qEvidence", pc' = AfterEvidence,
         UNCHANGED <<primary, previous, store, journal, marker, barrier>>,
         UNCHANGED history, UNCHANGED <<holder, op, rolling, withPrimary, seen>>,
         nextGen' \in {Absent, nextGen}, swap' \in {Absent, swap}, stage' \in {{}, stage},
         moved' \in {moved, FALSE}
  PROVE  DatasetInv'
  <1>1. /\ marker
        /\ ~damaged => ~withPrimary
        /\ condemned => withPrimary
        /\ moved => journal.kind = "none"
    BY DEF DatasetInv, QuarantinePlace
  <1>2. moved' \in BOOLEAN
    BY DEF DatasetInv, ThreadOK
  <1>3. rolling' \in BOOLEAN /\ withPrimary' \in BOOLEAN
    BY DEF DatasetInv, ThreadOK
  <1>4. /\ withPrimary => pc' = "qPrimary"
        /\ ~withPrimary => pc' = "qSettle"
        /\ pc' \in {"qPrimary", "qSettle"}
    BY DEF AfterEvidence
  <1>5. ThreadOK'
    BY <1>2, <1>3, <1>4, StepThread DEF DatasetInv, Points
  <1>6. UNCHANGED <<undo, condemned, damaged>>
    BY DEF history
  <1>7. condemned' \in BOOLEAN
    BY <1>6 DEF DatasetInv, FilesTyped
  <1>8. marker' = TRUE
    BY <1>1 DEF DatasetInv, FilesTyped
  <1>9. ~damaged /\ journal.kind # "none" => undo # {}
    BY <1>1 DEF DatasetInv, DiskOK
  <1>10. FilesTyped' /\ DiskOK'
    BY <1>6, <1>7, <1>8, <1>9, MarkedDisk DEF DatasetInv
  <1>11. moved' => moved
    OBVIOUS
  <1>12. Place' /\ QuarantinePlace'
    BY <1>1, <1>4, <1>6, <1>8, <1>11 DEF Place, QuarantinePlace
  <1>13. QED BY <1>5, <1>10, <1>12 DEF DatasetInv

LEMMA QuarantinePrimaryKeeps ==
  ASSUME DatasetInv, QuarantinePrimary
  PROVE  DatasetInv'
  <1>1. /\ pc = "qPrimary" /\ marker /\ damaged
        /\ moved => journal.kind = "none"
    BY DEF DatasetInv, QuarantinePlace, QuarantinePrimary
  <1>2. ThreadOK' /\ pc' = "qSettle" /\ UNCHANGED moved
    BY <1>1, GotoThread DEF DatasetInv, QuarantinePrimary, Points, Goto
  <1>3. /\ UNCHANGED <<previous, nextGen, swap, store, stage, journal, marker, barrier>>
        /\ UNCHANGED <<undo, damaged>>
        /\ primary' = Absent /\ condemned' = FALSE
    BY DEF QuarantinePrimary
  <1>4. marker' = TRUE /\ condemned' \in BOOLEAN
    BY <1>1, <1>3 DEF DatasetInv, FilesTyped
  <1>5. FilesTyped' /\ DiskOK'
    BY <1>1, <1>3, <1>4, MarkedDisk DEF DatasetInv
  <1>6. Place' /\ QuarantinePlace'
    BY <1>1, <1>2, <1>3, <1>4 DEF Place, QuarantinePlace
  <1>7. QED BY <1>2, <1>5, <1>6 DEF DatasetInv

(* The journal set aside gets its final name: no barrier is left. *)
LEMMA SettleDisk ==
  ASSUME FilesTyped, DiskOK, marker, barrier' \in {barrier, NoJournal},
         UNCHANGED <<primary, previous, nextGen, swap, store, stage, journal, marker>>,
         UNCHANGED history
  PROVE  FilesTyped' /\ DiskOK'
  <1>1. UNCHANGED <<undo, condemned, damaged>>
    BY DEF history
  <1>2. condemned' \in BOOLEAN
    BY <1>1 DEF FilesTyped
  <1>3. marker' = TRUE
    BY DEF FilesTyped
  <1>4. ~damaged /\ journal.kind # "none" => undo # {}
    BY DEF DiskOK
  <1>5. QED BY <1>1, <1>2, <1>3, <1>4, MarkedDisk

LEMMA QuarantineSettlesKeeps ==
  ASSUME DatasetInv, QuarantineSettles
  PROVE  DatasetInv'
  <1>1. /\ pc = "qSettle" /\ marker
        /\ moved => journal.kind = "none" /\ ~condemned
    BY DEF DatasetInv, QuarantinePlace, QuarantineSettles
  <1>2. FilesTyped' /\ DiskOK'
    BY <1>1, SettleDisk DEF DatasetInv, QuarantineSettles, gens
  <1>3. CASE moved
    <2>1. ThreadOK' /\ pc' = "qClear"
      BY <1>1, <1>3, GotoThread DEF DatasetInv, QuarantineSettles, Points
    <2>2. /\ barrier' = NoJournal /\ UNCHANGED <<journal, marker, condemned>>
      BY <1>3 DEF QuarantineSettles, history
    <2>3. Place' /\ QuarantinePlace'
      BY <1>1, <1>3, <2>1, <2>2, NoJournalTyped DEF Place, QuarantinePlace
    <2>4. QED BY <1>2, <2>1, <2>3 DEF DatasetInv
  <1>4. CASE ~moved
    BY <1>2, <1>4, LeaveKeeps DEF DatasetInv, ThreadOK, QuarantineSettles
  <1>5. QED BY <1>3, <1>4

LEMMA QuarantineClearsKeeps ==
  ASSUME DatasetInv, QuarantineClears
  PROVE  DatasetInv'
  <1>1. journal.kind = "none" /\ barrier.kind = "none" /\ ~condemned
    BY DEF DatasetInv, QuarantinePlace, QuarantineClears
  <1>2. UNCHANGED <<primary, previous, nextGen, swap, store, stage, journal, barrier>>
    BY DEF QuarantineClears, gens
  <1>3. UNCHANGED <<undo, condemned, damaged>>
    BY DEF QuarantineClears, history
  <1>4. marker' \in BOOLEAN
    BY DEF QuarantineClears
  <1>5. FilesTyped'
    BY <1>2, <1>3, <1>4 DEF DatasetInv, FilesTyped
  <1>6. Intact' <=> Intact
    BY <1>2 DEF Intact, Good, Contents
  <1>7. DiskOK'
    BY <1>1, <1>2, <1>3, <1>6 DEF DatasetInv, DiskOK, QuarantineClears, Transaction
  <1>8. QED BY <1>5, <1>7, LeaveKeeps DEF DatasetInv, ThreadOK, QuarantineClears

LEMMA QuarantineStepFailsKeeps ==
  ASSUME DatasetInv, QuarantineStepFails
  PROVE  DatasetInv'
  <1>1. UNCHANGED seen
    BY DEF QuarantineStepFails
  <1>2. CASE Leave /\ UNCHANGED <<files, history>>
    BY <1>1, <1>2, LeaveSame
  <1>3. CASE /\ pc = "qJournal"
             /\ pc' = "qEvidence" /\ moved' = FALSE
             /\ UNCHANGED <<files, holder, op, rolling, withPrimary, history>>
    <2>1. FilesTyped' /\ DiskOK'
      BY <1>3, DiskSame DEF DatasetInv
    <2>2. moved' \in BOOLEAN
      BY <1>3
    <2>3. rolling' \in BOOLEAN /\ withPrimary' \in BOOLEAN
      BY <1>3 DEF DatasetInv, ThreadOK
    <2>4. ThreadOK'
      BY <1>1, <1>3, <2>2, <2>3, StepThread DEF DatasetInv, Points
    <2>5. GivenUp' <=> GivenUp
      BY <1>3 DEF GivenUp, Previous, Revision, files, history
    <2>6. /\ marker
          /\ ~damaged => ~withPrimary /\ GivenUp
          /\ condemned => withPrimary
      BY <1>3 DEF DatasetInv, QuarantinePlace
    <2>7. /\ UNCHANGED <<marker, withPrimary, condemned, damaged, journal>>
      BY <1>3 DEF files, history
    <2>8. Place' /\ QuarantinePlace'
      BY <1>3, <2>5, <2>6, <2>7 DEF Place, QuarantinePlace
    <2>9. QED BY <2>1, <2>4, <2>8 DEF DatasetInv
  <1>4. CASE /\ pc = "qEvidence"
             /\ pc' = AfterEvidence /\ moved' = FALSE
             /\ nextGen' \in {Absent, nextGen} /\ swap' \in {Absent, swap}
             /\ stage' \in {{}, stage}
             /\ UNCHANGED <<primary, previous, store, journal, marker, barrier, holder,
                            op, rolling, withPrimary, history>>
    BY <1>1, <1>4, QuarantineEvidenceKeeps
  <1>5. CASE /\ pc = "qPrimary"
             /\ pc' = "qSettle" /\ moved' = FALSE
             /\ \/ UNCHANGED <<journal, barrier>>
                \/ barrier.kind # "none" /\ journal' = barrier /\ barrier' = NoJournal
             /\ UNCHANGED <<gens, store, stage, marker, holder, op, rolling,
                            withPrimary, history>>
    <2>1. marker /\ damaged
      BY <1>5 DEF DatasetInv, QuarantinePlace
    <2>2. /\ UNCHANGED <<primary, previous, nextGen, swap, store, stage, marker>>
          /\ UNCHANGED <<undo, condemned, damaged>>
      BY <1>5 DEF gens, history
    <2>3. marker' = TRUE /\ condemned' \in BOOLEAN
      BY <2>1, <2>2 DEF DatasetInv, FilesTyped
    <2>4. FilesTyped' /\ DiskOK'
      BY <1>5, <2>1, <2>2, <2>3, MarkedDisk DEF DatasetInv
    <2>5. moved' \in BOOLEAN
      BY <1>5
    <2>6. rolling' \in BOOLEAN /\ withPrimary' \in BOOLEAN
      BY <1>5 DEF DatasetInv, ThreadOK
    <2>7. ThreadOK'
      BY <1>1, <1>5, <2>5, <2>6, StepThread DEF DatasetInv, Points
    <2>8. Place' /\ QuarantinePlace'
      BY <1>5, <2>3 DEF Place, QuarantinePlace
    <2>9. QED BY <2>4, <2>7, <2>8 DEF DatasetInv
  <1>6. CASE /\ pc = "qSettle"
             /\ barrier' \in {barrier, NoJournal}
             /\ Leave
             /\ UNCHANGED <<gens, store, stage, journal, marker, history>>
    <2>1. marker
      BY <1>6 DEF DatasetInv, QuarantinePlace
    <2>2. FilesTyped' /\ DiskOK'
      BY <1>6, <2>1, SettleDisk DEF DatasetInv, gens
    <2>3. QED BY <1>1, <1>6, <2>2, LeaveKeeps DEF DatasetInv, ThreadOK
  <1>7. QED BY <1>2, <1>3, <1>4, <1>5, <1>6 DEF QuarantineStepFails
-----------------------------------------------------------------------------
(* Errors, crashes and damage. *)
LEMMA FailsKeeps ==
  ASSUME DatasetInv, Fails
  PROVE  DatasetInv'
  <1>1. UNCHANGED history
    BY DEF Fails
  <1>2. CASE /\ pc \in {"stagePrevious", "prepare"}
             /\ stage' \in {{}, stage} /\ nextGen' \in {Absent, nextGen}
             /\ Leave
             /\ UNCHANGED <<primary, previous, swap, store, journal, marker, barrier, seen>>
    <2>1. Quiet
      BY <1>2 DEF DatasetInv, Place, Staged
    <2>2. FilesTyped'
      BY <1>1, <1>2 DEF DatasetInv, FilesTyped, Generation, history
    <2>3. Intact => Intact'
      <3>1. Good(Contents(Absent))
        BY DatasetAssumption DEF Good, Contents
      <3>2. Intact => Good(Contents(nextGen'))
        BY <1>2, <3>1 DEF Intact
      <3>3. QED BY <1>2, <3>2 DEF Intact, Good, Contents
    <2>4. nextGen' # Empty
      BY <1>2, DatasetAssumption DEF DatasetInv, DiskOK
    <2>5. DiskOK'
      BY <1>1, <1>2, <2>1, <2>3, <2>4 DEF DatasetInv, DiskOK, history, Quiet
    <2>6. QED BY <1>2, <2>2, <2>5, LeaveKeeps DEF DatasetInv, ThreadOK
  <1>3. CASE Leave /\ UNCHANGED <<files, seen>>
    BY <1>1, <1>3, LeaveSame
  <1>4. CASE pc \in JournalSteps /\ Acknowledge(journal.new) /\ UNCHANGED files
    <2>1. FilesTyped' /\ DiskOK'
      BY <1>1, <1>4, DiskSame DEF DatasetInv
    <2>2. journal.new \in Maybe
      BY DEF DatasetInv, FilesTyped, JournalType
    <2>3. QED BY <1>4, <2>1, <2>2, AcknowledgeKeeps DEF DatasetInv
  <1>5. QED BY <1>2, <1>3, <1>4 DEF Fails

LEMMA CrashKeeps ==
  ASSUME DatasetInv, Crash
  PROVE  DatasetInv'
  <1>1. FilesTyped' /\ DiskOK'
    BY DiskSame DEF DatasetInv, Crash
  <1>2. seen' \in [Client -> Maybe]
    BY DEF DatasetInv, ThreadOK, Crash, Maybe
  <1>3. QED BY <1>1, <1>2, LeaveKeeps DEF Crash

LEMMA DamageKeeps ==
  ASSUME DatasetInv, Damage
  PROVE  DatasetInv'
  <1>1. /\ UNCHANGED <<primary, previous, nextGen, swap, marker, barrier>>
        /\ UNCHANGED <<holder, seen, undo, condemned>>
        /\ UNCHANGED memory
        /\ damaged' = TRUE
    BY DEF Damage, gens
  <1>2. damaged' \in BOOLEAN
    BY <1>1
  <1>3. ThreadOK'
    BY <1>1, MemorySame DEF DatasetInv
  <1>4. UNCHANGED <<op, pc, rolling, moved, withPrimary>>
    BY <1>1 DEF memory
  <1>5. CASE /\ \E c \in Content, s \in {"bad", "absent"} :
                   store[c] = "good" /\ store' = [store EXCEPT ![c] = s]
             /\ UNCHANGED <<journal, stage>>
    <2>1. store' \in [Content -> {"absent", "good", "bad"}]
      BY <1>5 DEF DatasetInv, FilesTyped
    <2>2. FilesTyped'
      BY <1>1, <1>2, <1>5, <2>1 DEF DatasetInv, FilesTyped
    <2>3. CommitOnDisk => CommitOnDisk'
      BY <1>1, <1>5 DEF CommitOnDisk, Revision
    <2>4. PromoteOnDisk => PromoteOnDisk'
      BY <1>1, <1>5 DEF PromoteOnDisk, PromotePlaces, Revision
    <2>5. DiskOK'
      BY <1>1, <1>5, <2>3, <2>4 DEF DatasetInv, DiskOK
    <2>6. Place'
      BY <1>1, <1>4, <1>5 DEF DatasetInv, Place, Quiet, Staged, Committing, Revision
    <2>7. QuarantinePlace'
      BY <1>1, <1>4, <1>5 DEF DatasetInv, QuarantinePlace
    <2>8. QED BY <1>3, <2>2, <2>5, <2>6, <2>7 DEF DatasetInv
  <1>6. CASE /\ holder = None /\ journal.kind # "none"
             /\ journal' = [journal EXCEPT !.kind = "bad"]
             /\ UNCHANGED <<store, stage>>
    <2>1. pc' = "idle"
      BY <1>4, <1>6 DEF DatasetInv, ThreadOK
    <2>2. journal' \in JournalType /\ journal'.kind = "bad"
      BY <1>6 DEF DatasetInv, FilesTyped, JournalType
    <2>3. FilesTyped'
      BY <1>1, <1>2, <1>6, <2>2 DEF DatasetInv, FilesTyped
    <2>4. DiskOK'
      BY <1>1, <2>2 DEF DatasetInv, DiskOK, Transaction
    <2>5. QED BY <1>3, <2>1, <2>3, <2>4, NoPlace DEF DatasetInv
  <1>7. CASE /\ holder = None
             /\ \E c \in stage : store[c] = "absent" /\ stage' = stage \ {c}
             /\ UNCHANGED <<store, journal>>
    <2>1. pc' = "idle"
      BY <1>4, <1>7 DEF DatasetInv, ThreadOK
    <2>2. FilesTyped'
      BY <1>1, <1>2, <1>7 DEF DatasetInv, FilesTyped
    <2>3. CommitOnDisk => CommitOnDisk'
      BY <1>1, <1>7 DEF CommitOnDisk, Revision
    <2>4. PromoteOnDisk => PromoteOnDisk'
      BY <1>1, <1>7 DEF PromoteOnDisk, PromotePlaces, Revision
    <2>5. DiskOK'
      BY <1>1, <1>7, <2>3, <2>4 DEF DatasetInv, DiskOK
    <2>6. QED BY <1>3, <2>1, <2>2, <2>5, NoPlace DEF DatasetInv
  <1>8. QED BY <1>5, <1>6, <1>7 DEF Damage
-----------------------------------------------------------------------------
LEMMA InitHolds == DatasetInit => DatasetInv
  <1> SUFFICES ASSUME DatasetInit PROVE DatasetInv
    OBVIOUS
  <1>1. FilesTyped
    BY NoJournalTyped DEF DatasetInit, FilesTyped, Generation
  <1>2. /\ NoOp.reuse = {} /\ NoOp.kind = "none" /\ NoOp.new = None
        /\ NoOp.gen = "primary"
    BY DEF NoOp
  <1>3. ThreadOK
    BY <1>2 DEF DatasetInit, ThreadOK, Points, Maybe
  <1>4. Intact
    BY NoJournalTyped, DatasetAssumption DEF DatasetInit, Intact, Good, Contents
  <1>5. DiskOK
    BY <1>4, NoJournalTyped, DatasetAssumption DEF DatasetInit, DiskOK, Transaction
  <1>6. Place /\ QuarantinePlace
    BY DEF DatasetInit, Place, QuarantinePlace
  <1>7. QED BY <1>1, <1>3, <1>5, <1>6 DEF DatasetInv

LEMMA StutterKeeps == DatasetInv /\ UNCHANGED datasetVars => DatasetInv'
  <1> SUFFICES ASSUME DatasetInv, UNCHANGED datasetVars PROVE DatasetInv'
    OBVIOUS
  <1>1. /\ UNCHANGED files
        /\ UNCHANGED history
        /\ UNCHANGED <<holder, memory, seen>>
    BY DEF datasetVars
  <1>2. FilesTyped' /\ DiskOK' /\ ThreadOK'
    BY <1>1, DiskSame, MemorySame DEF DatasetInv
  <1>3. /\ UNCHANGED <<primary, previous, nextGen, swap, store, stage, journal>>
        /\ UNCHANGED <<marker, barrier, op, pc, rolling, moved, withPrimary>>
        /\ UNCHANGED <<undo, condemned, damaged>>
    BY <1>1 DEF files, history, memory
  <1>4. Place'
    BY <1>3
    DEF DatasetInv, Place, Quiet, Staged, Committing, Revision, Good, Supplied
  <1>5. GivenUp' <=> GivenUp
    BY <1>3 DEF GivenUp, Previous, Revision
  <1>6. QuarantinePlace'
    BY <1>3, <1>5 DEF DatasetInv, QuarantinePlace
  <1>7. QED BY <1>2, <1>4, <1>6 DEF DatasetInv

LEMMA NextKeeps == DatasetInv /\ [DatasetNext]_datasetVars => DatasetInv'
  <1> SUFFICES ASSUME DatasetInv, [DatasetNext]_datasetVars PROVE DatasetInv'
    OBVIOUS
  <1>1. CASE UNCHANGED datasetVars
    BY <1>1, StutterKeeps
  <1>2. CASE \E c \in Client : \E o \in Operations(c) : Enter(c, o)
    BY <1>2, EnterKeeps
  <1>3. CASE Recovers
    <2>1. RecoverRefuses => DatasetInv'
      BY LeaveSame DEF RecoverRefuses
    <2>2. QED BY <1>3, <2>1, RecoverCleansKeeps, RecoverBadJournalKeeps,
                 RecoverCommitKeeps, RecoverPromoteKeeps, EntryCollectsKeeps DEF Recovers
  <1>4. CASE Read
    BY <1>4, ReadKeeps
  <1>5. CASE Commits
    <2>1. CommitRefused => DatasetInv'
      BY LeaveSame DEF CommitRefused
    <2>2. QED BY <1>5, <2>1, StageMembersKeeps, StagePreviousKeeps, WritePreparedKeeps,
                 PublishKeeps, PublishMissingKeeps, WriteManifestKeeps, ValidateKeeps,
                 FinalizeKeeps, RemoveStageKeeps, RemoveJournalKeeps, FinishCommitKeeps
              DEF Commits
  <1>6. CASE Promotes
    <2>1. PromoteRefused => DatasetInv'
      BY LeaveSame DEF PromoteRefused
    <2>2. QED BY <1>6, <2>1, ReadKeeps, PromotePreparedKeeps, SwapKeeps, SwapDoneKeeps
              DEF Promotes
  <1>7. CASE Discards
    BY <1>7, DiscardsKeeps
  <1>8. CASE Quarantines
    <2>1. QuarantineEvidence => DatasetInv'
      <3> SUFFICES ASSUME QuarantineEvidence PROVE DatasetInv'
        OBVIOUS
      <3>1. /\ pc = "qEvidence" /\ pc' = AfterEvidence
            /\ UNCHANGED <<primary, previous, store, journal, marker, barrier>>
            /\ UNCHANGED history
            /\ UNCHANGED <<holder, op, rolling, withPrimary, seen>>
            /\ nextGen' = Absent /\ swap' = Absent /\ stage' = {}
            /\ moved' = moved
        BY DEF QuarantineEvidence, Goto
      <3>2. QED BY <3>1, QuarantineEvidenceKeeps
    <2>2. QED BY <1>8, <2>1, QuarantineMarkerKeeps, QuarantineJournalKeeps,
                 QuarantinePrimaryKeeps, QuarantineSettlesKeeps, QuarantineClearsKeeps
              DEF Quarantines
  <1>9. CASE Faults
    BY <1>9, PreparedSyncFailsKeeps, PromoteSyncFailsKeeps, QuarantineStepFailsKeeps,
       FailsKeeps, CrashKeeps, DamageKeeps DEF Faults
  <1>10. QED BY <1>1, <1>2, <1>3, <1>4, <1>5, <1>6, <1>7, <1>8, <1>9
         DEF DatasetNext, Progress

LEMMA InvHolds == DatasetSpec => []DatasetInv
  BY InitHolds, NextKeeps, PTL DEF DatasetSpec

(* The files are well typed, a primary that recovery has condemned is      *)
(* never served, and no manifest a reader can open, now or after any       *)
(* crash, references a content that is not stored.                         *)
THEOREM DatasetCorrect == DatasetSpec => [](DatasetOK /\ NothingDangling)
  BY InvHolds, InvImplies, PTL
-----------------------------------------------------------------------------
(* No lost update.  A journal appears where a commit is prepared, and only *)
(* there: the one that quarantine puts back comes out of the barrier.      *)
Recorded == <<primary, previous, nextGen, journal, undo, damaged>>

LEMMA RecoveringRecords ==
  ASSUME \/ \E c \in Client : \E o \in Operations(c) : Enter(c, o)
         \/ RecoverRefuses \/ RecoverBadJournal \/ RecoverCommit \/ RecoverPromote
         \/ EntryCollects \/ Read
  PROVE  UNCHANGED Recorded
  BY DEF Recorded, Enter, RecoverRefuses, RecoverBadJournal, RecoverCommit, RecoverPromote,
     StartQuarantine, RollForward, EntryCollects, Read, files, gens, history

LEMMA CommittingRecords ==
  ASSUME CommitRefused \/ StageMembers \/ Publish \/ PublishMissing \/ ValidateGeneration
         \/ RemoveStage \/ FinishCommit
  PROVE  UNCHANGED Recorded
  BY DEF Recorded, CommitRefused, StageMembers, Publish, PublishMissing, StartQuarantine,
     ValidateGeneration, RemoveStage, FinishCommit, files, gens, history

LEMMA OtherRecords ==
  ASSUME PromoteNothing \/ PromoteRefused \/ SwapDone \/ QuarantineMarker
         \/ QuarantineSettles \/ QuarantineClears \/ Crash \/ UNCHANGED datasetVars
  PROVE  UNCHANGED Recorded
  BY DEF Recorded, PromoteNothing, PromoteRefused, SwapDone, QuarantineMarker,
     QuarantineSettles, QuarantineClears, Crash, datasetVars, files, gens, history

LEMMA PreparedOnExpected ==
  ASSUME DatasetInv, WritePrepared \/ PreparedSyncFails
  PROVE  seen[holder] = Current
  <1>1. Staged /\ holder # None
    BY DEF DatasetInv, Place, WritePrepared, PreparedSyncFails, ThreadOK
  <1>2. op.expected = seen[holder]
    BY <1>1 DEF DatasetInv, ThreadOK
  <1>3. QED BY <1>1, <1>2 DEF Staged, Quiet, Current

LEMMA JournalAppears ==
  ASSUME DatasetInv, [DatasetNext]_datasetVars, journal'.kind = "commit",
         journal.kind = "none", barrier = barrier'
  PROVE  WritePrepared \/ PreparedSyncFails
  <1>1. CASE UNCHANGED Recorded
    BY <1>1 DEF Recorded
  <1>2. RecoverCleans \/ StagePrevious \/ WriteManifest \/ RemovePrevious \/ ShiftNext
           \/ SwapAside \/ SwapIn \/ SwapOut \/ Discards => UNCHANGED journal
    BY DEF RecoverCleans, StagePrevious, WriteManifest, RemovePrevious, ShiftNext,
       SwapAside, SwapIn, SwapOut, Discards, QuarantineGeneration, DeletePrimary,
       DeletePrevious
  <1>3. RemoveJournal \/ QuarantineJournal => journal'.kind = "none"
    BY NoJournalTyped DEF RemoveJournal, QuarantineJournal
  <1>4. QuarantineEvidence \/ QuarantinePrimary \/ Fails => UNCHANGED journal
    BY DEF QuarantineEvidence, QuarantinePrimary, Fails, files
  <1>5. PromotePrepared \/ PromoteSyncFails => journal' = journal \/ journal'.kind = "promote"
    BY DEF PromotePrepared, PromoteSyncFails, PromoteJournal
  <1>6. QuarantineStepFails => UNCHANGED journal
    <2>1. QuarantineStepFails =>
             UNCHANGED journal \/ (barrier.kind # "none" /\ barrier' = NoJournal)
      BY DEF QuarantineStepFails, files
    <2>2. QED BY <2>1, NoJournalTyped
  <1>7. Damage => journal'.kind = "bad" \/ UNCHANGED journal
    BY DEF Damage, DatasetInv, FilesTyped, JournalType
  <1>8. QED
    BY <1>1, <1>2, <1>3, <1>4, <1>5, <1>6, <1>7, RecoveringRecords, CommittingRecords,
       OtherRecords
    DEF DatasetNext, Progress, Faults, Recovers, Commits, Promotes, Quarantines

(* No lost update: whatever crashes, recoveries and commits of others lie  *)
(* between a client's read and its commit, the journal that replaces the   *)
(* current version is written for a client that knew this version.         *)
THEOREM NoLostUpdate == DatasetSpec => CommitOnlyOnExpected
  <1>1. DatasetInv /\ [DatasetNext]_datasetVars =>
           [journal'.kind = "commit" /\ journal.kind = "none" /\ barrier = barrier'
            => seen[holder] = Current]_datasetVars
    BY JournalAppears, PreparedOnExpected
  <1>2. QED BY <1>1, InvHolds, PTL DEF DatasetSpec, CommitOnlyOnExpected
-----------------------------------------------------------------------------
(* The refinement.  A step is one of the abstract store, or it changes     *)
(* neither version.                                                        *)
StoreStep == Store!StoreNext \/ UNCHANGED Store!storeVars
Turns ==
    \/ Calling = Store!NoCall /\ Calling' \in Store!Call
    \/ Calling' = Store!NoCall
    \/ Calling' = Calling

LEMMA NotCalling == ASSUME pc \notin OwnPart PROVE Calling = Store!NoCall
  BY DEF Calling, NoOp, Store!NoCall

LEMMA NotCallingNext == ASSUME pc' \notin OwnPart PROVE Calling' = Store!NoCall
  BY DEF Calling, NoOp, Store!NoCall

LEMMA CallingItself ==
  ASSUME pc \in OwnPart
  PROVE  Calling.kind = op.kind /\ Calling.version = op.new /\ Calling.gen = op.gen
  BY DEF Calling

LEMMA CallTyped == ASSUME ThreadOK' PROVE Calling' \in Store!Call
  BY DEF ThreadOK, Calling, NoOp, Store!Call, Store!MaybeVersion, Maybe

LEMMA NoCallTyped == Store!NoCall \in Store!Call /\ Store!NoCall.kind = "none"
  BY DEF Store!NoCall, Store!Call, Store!MaybeVersion

(* An operation is the same from its entry until its call returns.         *)
LEMMA OperationStays ==
  ASSUME [DatasetNext]_datasetVars
  PROVE  op' = op \/ pc' \notin OwnPart
  <1>1. Leave => pc' \notin OwnPart
    BY DEF Leave, OwnPart
  <1>2. ASSUME NEW p, Goto(p) PROVE op' = op
    BY <1>2 DEF Goto
  <1>3. ASSUME NEW p, StartQuarantine(p) \/ RollForward(p) PROVE op' = op
    BY <1>3 DEF StartQuarantine, RollForward
  <1>4. ASSUME NEW v, Acknowledge(v) PROVE pc' \notin OwnPart
    BY <1>1, <1>4 DEF Acknowledge
  <1>5. ASSUME NEW c \in Client, NEW o \in Operations(c), Enter(c, o)
        PROVE  pc' \notin OwnPart
    BY <1>5 DEF Enter, OwnPart
  <1>6. Recovers => op' = op \/ pc' \notin OwnPart
    BY <1>1, <1>2, <1>3 DEF Recovers, RecoverRefuses, RecoverCleans, RecoverBadJournal,
       RecoverCommit, RecoverPromote, EntryCollects
  <1>7. Read => pc' \notin OwnPart
    BY <1>4 DEF Read
  <1>8. Commits => op' = op \/ pc' \notin OwnPart
    BY <1>1, <1>2, <1>3, <1>4 DEF Commits, CommitRefused, StageMembers, StagePrevious,
       WritePrepared, Publish, PublishMissing, WriteManifest, ValidateGeneration,
       RemovePrevious, ShiftNext, RemoveStage, RemoveJournal, FinishCommit, memory
  <1>9. Promotes => op' = op \/ pc' \notin OwnPart
    BY <1>1, <1>2, <1>4 DEF Promotes, PromoteNothing, PromoteRefused, PromotePrepared,
       SwapAside, SwapIn, SwapOut, SwapDone, memory
  <1>10. Discards => op' = op \/ pc' \notin OwnPart
    BY <1>1, <1>2 DEF Discards, QuarantineGeneration, DeletePrimary, DeletePrevious
  <1>11. Quarantines => op' = op \/ pc' \notin OwnPart
    BY <1>1, <1>2 DEF Quarantines, QuarantineMarker, QuarantineJournal,
       QuarantineEvidence, QuarantinePrimary, QuarantineSettles, QuarantineClears
  <1>12. Faults => op' = op \/ pc' \notin OwnPart
    BY <1>1, <1>4 DEF Faults, PreparedSyncFails, PromoteSyncFails, QuarantineStepFails,
       Fails, Crash, Damage, memory
  <1>13. UNCHANGED datasetVars => op' = op
    BY DEF datasetVars, memory
  <1>14. QED BY <1>5, <1>6, <1>7, <1>8, <1>9, <1>10, <1>11, <1>12, <1>13
         DEF DatasetNext, Progress

LEMMA EveryStepTurns ==
  ASSUME DatasetInv', [DatasetNext]_datasetVars
  PROVE  Turns
  <1>1. CASE pc' \notin OwnPart
    BY <1>1, NotCallingNext DEF Turns
  <1>2. CASE pc \notin OwnPart
    BY <1>2, NotCalling, CallTyped DEF Turns, DatasetInv
  <1>3. CASE pc \in OwnPart /\ pc' \in OwnPart
    <2>1. op' = op
      BY <1>3, OperationStays
    <2>2. Calling' = Calling
      BY <1>3, <2>1 DEF Calling
    <2>3. QED BY <2>2 DEF Turns
  <1>4. QED BY <1>1, <1>2, <1>3

LEMMA Unseen ==
  ASSUME Turns, Current' = Current, Previous' = Previous, UNCHANGED <<undo, damaged>>
  PROVE  StoreStep
  BY DEF Turns, StoreStep, Store!storeVars, Store!StoreNext, Store!Turn

LEMMA RecordedUnseen ==
  ASSUME Turns, UNCHANGED Recorded
  PROVE  StoreStep
  <1>1. Current' = Current
    BY DEF Recorded, Current, Revision
  <1>2. Previous' = Previous
    BY DEF Recorded, Previous, Revision
  <1>3. QED BY <1>1, <1>2, Unseen DEF Recorded

(* Once bytes have been damaged the store leaves the outcome open. *)
LEMMA DamagedStep ==
  ASSUME DatasetInv', damaged'
  PROVE  StoreStep
  <1>1. damaged' = TRUE
    BY DEF DatasetInv, FilesTyped
  <1>2. Current' \in Maybe
    BY DEF DatasetInv, FilesTyped, JournalType, Current, Revision, Maybe
  <1>3. journal'.kind # "promote" => Previous' \in Maybe
    BY DEF Previous, Revision, Maybe
  <1>4. journal'.kind = "promote" => Previous' \in Maybe
    BY DEF DatasetInv, FilesTyped, JournalType, Previous
  <1>5. undo' \in SUBSET [cur : Maybe, prev : Maybe]
    BY DEF DatasetInv, DiskOK
  <1>6. Calling' \in Store!Call
    BY CallTyped DEF DatasetInv
  <1>7. QED BY <1>1, <1>2, <1>3, <1>4, <1>5, <1>6
            DEF StoreStep, Store!StoreNext, Store!Damaged, Store!MaybeVersion, Maybe

(* Without a journal the versions are the two generations. *)
LEMMA NoneCurrent == ASSUME journal.kind = "none"
                     PROVE  Current = Revision(primary) /\ Previous = Revision(previous)
  BY DEF Current, Previous

LEMMA QuietUnseen ==
  ASSUME Turns, journal.kind = "none", UNCHANGED <<previous, journal, undo, damaged>>,
         Revision(primary)' = Revision(primary)
  PROVE  StoreStep
  <1>1. Current' = Revision(primary)'
    BY DEF Current
  <1>2. Previous' = Revision(previous)'
    BY DEF Previous
  <1>3. Revision(previous)' = Revision(previous)
    OBVIOUS
  <1>4. QED BY <1>1, <1>2, <1>3, NoneCurrent, Unseen

LEMMA CleaningUnseen ==
  ASSUME Turns, RecoverCleans
  PROVE  StoreStep
  <1>1. UNCHANGED <<primary, previous, journal, undo, damaged>> /\ journal.kind = "none"
    BY DEF RecoverCleans, history
  <1>2. QED BY <1>1, QuietUnseen

LEMMA StagingUnseen ==
  ASSUME Turns, DatasetInv, StagePrevious
  PROVE  StoreStep
  <1>1. Revision(primary)' = Revision(primary)
    BY DatasetAssumption DEF StagePrevious, Revision
  <1>2. journal.kind = "none"
    BY DEF DatasetInv, Place, StagePrevious, Staged, Quiet
  <1>3. QED BY <1>1, <1>2, QuietUnseen DEF StagePrevious, history

(* The journal of a commit is its commit point. *)
LEMMA JournalCommits ==
  ASSUME DatasetInv, pc = "prepare", journal' = CommitJournal,
         UNCHANGED <<primary, previous>>, nextGen' \in {Absent, nextGen}
  PROVE  /\ Current = Revision(primary) /\ Previous = Revision(previous)
         /\ Current' = op.new /\ op.new \in Version
         /\ Previous' \in {Previous, Current}
         /\ nextGen' = nextGen =>
               Previous' = IF Current = None THEN Previous ELSE Current
  <1>1. /\ Staged
        /\ nextGen = IF primary \in Version THEN primary ELSE Absent
    BY DEF DatasetInv, Place
  <1>2. /\ Current = Revision(primary) /\ Previous = Revision(previous)
    BY <1>1, NoneCurrent DEF Staged, Quiet
  <1>3. journal'.kind = "commit" /\ journal'.new = op.new /\ op.new \in Version
    BY <1>1, CommitJournalTyped DEF DatasetInv, Staged
  <1>4. Current' = op.new
    BY <1>3 DEF Current
  <1>5. Previous' = IF nextGen' \in Version THEN nextGen' ELSE Revision(previous)
    BY <1>3 DEF Previous, Revision
  <1>6. primary \in Version <=> Revision(primary) # None
    BY DatasetAssumption DEF Revision
  <1>7. primary \in Version => Revision(primary) = primary
    BY DEF Revision
  <1>8. Absent \notin Version
    BY DatasetAssumption
  <1>9. QED BY <1>1, <1>2, <1>3, <1>4, <1>5, <1>6, <1>7, <1>8

LEMMA PreparedStep ==
  ASSUME DatasetInv, WritePrepared
  PROVE  StoreStep
  <1>1. /\ Current' = op.new /\ op.new \in Version
        /\ Previous' = IF Current = None THEN Previous ELSE Current
    BY JournalCommits DEF WritePrepared, gens
  <1>2. UNCHANGED <<undo, damaged>>
    BY DEF WritePrepared, history
  <1>3. Calling.kind = "commit" /\ Calling.version = op.new /\ Calling' = Store!NoCall
    BY CallingItself, NotCallingNext
    DEF WritePrepared, Goto, OwnPart, DatasetInv, Place, Staged
  <1>4. Store!Commit(op.new)
    BY <1>1, <1>2, <1>3 DEF Store!Commit
  <1>5. QED BY <1>1, <1>4 DEF StoreStep, Store!StoreNext

LEMMA PreparedFailsStep ==
  ASSUME DatasetInv, PreparedSyncFails
  PROVE  StoreStep
  <1>1. /\ Current = Revision(primary) /\ Previous = Revision(previous)
        /\ Current' = op.new /\ op.new \in Version
        /\ Previous' \in {Previous, Current}
    BY JournalCommits DEF PreparedSyncFails
  <1>2. undo' = {[cur |-> Current, prev |-> Previous]} /\ UNCHANGED damaged
    BY <1>1 DEF PreparedSyncFails
  <1>3. Calling.kind = "commit" /\ Calling.version = op.new /\ Calling' = Store!NoCall
    BY CallingItself, NotCallingNext
    DEF PreparedSyncFails, Leave, OwnPart, DatasetInv, Place, Staged
  <1>4. Store!DoubtfulCommit(op.new)
    BY <1>1, <1>2, <1>3 DEF Store!DoubtfulCommit, Store!Before
  <1>5. QED BY <1>1, <1>4 DEF StoreStep, Store!StoreNext

(* While the journal is there the versions are in it and in previous.next. *)
LEMMA JournalledUnseen ==
  ASSUME Turns, DatasetInv, WriteManifest \/ RemovePrevious \/ ShiftNext
  PROVE  StoreStep
  <1>1. journal.kind = "commit" /\ UNCHANGED <<journal, undo, damaged>>
    BY DEF DatasetInv, Place, Committing, WriteManifest, PublishDone, RemovePrevious,
       ShiftNext, history
  <1>2. Current' = Current
    BY <1>1 DEF Current
  <1>3. nextGen # Absent => nextGen \in Version
    BY DEF DatasetInv, FilesTyped, DiskOK, Generation
  <1>4. Previous = IF nextGen \in Version THEN nextGen ELSE Revision(previous)
    BY <1>1 DEF Previous
  <1>5. Previous' = IF nextGen' \in Version THEN nextGen' ELSE Revision(previous')
    BY <1>1 DEF Previous, Revision
  <1>6. Previous' = Previous
    BY <1>3, <1>4, <1>5, DatasetAssumption
    DEF WriteManifest, RemovePrevious, ShiftNext, Revision
  <1>7. QED BY <1>1, <1>2, <1>6, Unseen

LEMMA SwappingUnseen ==
  ASSUME Turns, DatasetInv, SwapAside \/ SwapIn \/ SwapOut
  PROVE  StoreStep
  <1>1. journal.kind = "promote" /\ UNCHANGED <<journal, undo, damaged>>
    BY DEF DatasetInv, Place, SwapAside, SwapIn, SwapOut, history
  <1>2. Current' = Current /\ Previous' = Previous
    BY <1>1 DEF Current, Previous
  <1>3. QED BY <1>1, <1>2, Unseen

(* The journal of a promotion swaps the two versions. *)
LEMMA PromoteStep ==
  ASSUME DatasetInv, CanPromote, pc' \notin OwnPart, journal' = PromoteJournal,
         UNCHANGED damaged, undo' \in {{}, Doubt}, primary \notin Version => undo' = Doubt
  PROVE  StoreStep
  <1>1. journal.kind = "none" /\ previous \in Version
    BY DEF DatasetInv, Place, Quiet, CanPromote
  <1>2. Current = Revision(primary) /\ Previous = previous
    BY <1>1, NoneCurrent DEF Revision
  <1>3. Current' = previous /\ Previous' = Revision(primary)
    BY DEF Current, Previous, PromoteJournal
  <1>4. Doubt = {[cur |-> Current, prev |-> Previous]}
    BY <1>1, <1>2 DEF Doubt, Revision
  <1>5. Current = None => undo' = Doubt
    BY <1>2, DatasetAssumption DEF Revision
  <1>6. previous # None
    BY <1>1, DatasetAssumption
  <1>7. Calling.kind = "promote" /\ Calling' = Store!NoCall
    BY CallingItself, NotCallingNext DEF CanPromote, OwnPart
  <1>8. Store!Promote
    BY <1>2, <1>3, <1>4, <1>5, <1>6, <1>7 DEF Store!Promote, Store!Before
  <1>9. QED BY <1>8 DEF StoreStep, Store!StoreNext

LEMMA PromotingStep ==
  ASSUME Turns, DatasetInv, PromotePrepared \/ PromoteSyncFails
  PROVE  StoreStep
  <1>1. CASE PromotePrepared
    <2>1. UNCHANGED damaged /\ CanPromote /\ journal' = PromoteJournal
      BY <1>1 DEF PromotePrepared
    <2>2. undo' \in {{}, Doubt} /\ (primary \notin Version => undo' = Doubt)
      BY <1>1 DEF PromotePrepared
    <2>3. pc' \notin OwnPart
      BY <1>1 DEF PromotePrepared, Goto, OwnPart
    <2>4. QED BY <2>1, <2>2, <2>3, PromoteStep
  <1>2. CASE PromoteSyncFails /\ UNCHANGED <<journal, undo>>
    BY <1>2, RecordedUnseen DEF PromoteSyncFails, Recorded, gens
  <1>3. CASE PromoteSyncFails /\ journal' = PromoteJournal /\ undo' = Doubt
    BY <1>3, PromoteStep DEF PromoteSyncFails, Leave, OwnPart
  <1>4. QED BY <1>1, <1>2, <1>3 DEF PromoteSyncFails

(* Removing the journal shows the same versions in their generations. *)
LEMMA RemoveStep ==
  ASSUME Turns, DatasetInv, RemoveJournal
  PROVE  StoreStep
  <1>1. /\ journal.kind \in Transaction /\ journal.new \in Version
        /\ primary = journal.new /\ nextGen = Absent
        /\ journal.kind = "promote" => Revision(previous) = journal.old
    BY DEF DatasetInv, DiskOK, Place, RemoveJournal
  <1>2. UNCHANGED <<primary, previous, damaged>> /\ undo' = {} /\ journal'.kind = "none"
    BY NoJournalTyped DEF RemoveJournal
  <1>3. Current = Revision(primary)
    BY <1>1 DEF Current, Transaction, Revision
  <1>4. Previous = Revision(previous)
    BY <1>1, DatasetAssumption DEF Previous, Transaction
  <1>5. Current' = Revision(primary)
    BY <1>2 DEF Current, Revision
  <1>6. Previous' = Revision(previous)
    BY <1>2 DEF Previous, Revision
  <1>7. CASE undo = {}
    BY <1>2, <1>3, <1>4, <1>5, <1>6, <1>7, Unseen
  <1>8. CASE undo # {}
    <2>1. Calling = Store!NoCall /\ Calling' \in Store!Call
      BY NotCalling, NoCallTyped DEF Turns, RemoveJournal, OwnPart
    <2>2. Store!Settle
      BY <1>2, <1>3, <1>4, <1>5, <1>6, <1>8, <2>1 DEF Store!Settle
    <2>3. QED BY <2>2 DEF StoreStep, Store!StoreNext
  <1>9. QED BY <1>7, <1>8

(* Only a transaction in doubt is set aside, which settles it. *)
LEMMA SetAsideStep ==
  ASSUME Turns, DatasetInv, QuarantineJournal, ~damaged
  PROVE  StoreStep
  <1>1. GivenUp
    BY DEF DatasetInv, QuarantinePlace, QuarantineJournal
  <1>2. /\ UNCHANGED <<primary, previous, damaged>> /\ undo' = {}
        /\ journal'.kind = "none"
    BY NoJournalTyped DEF QuarantineJournal, gens
  <1>3. Current = journal.new
    BY <1>1 DEF GivenUp, Current, Transaction
  <1>4. Current' = Revision(primary)
    BY <1>2 DEF Current, Revision
  <1>5. Previous' = Revision(previous)
    BY <1>2 DEF Previous, Revision
  <1>6. Calling = Store!NoCall /\ Calling' \in Store!Call
    BY NotCalling, NoCallTyped DEF Turns, QuarantineJournal, OwnPart
  <1>7. Store!Settle
    BY <1>1, <1>2, <1>3, <1>4, <1>5, <1>6 DEF GivenUp, Store!Settle
  <1>8. QED BY <1>7 DEF StoreStep, Store!StoreNext

(* Taking away previous.next takes back the shift of a commit in doubt. *)
LEMMA EvidenceStep ==
  ASSUME Turns, DatasetInv, pc = "qEvidence", ~damaged, nextGen' \in {Absent, nextGen},
         UNCHANGED <<primary, previous, journal, undo, damaged>>
  PROVE  StoreStep
  <1>1. Current' = Current
    BY DEF Current, Revision
  <1>2. journal.kind = "none" \/ GivenUp
    BY DEF DatasetInv, QuarantinePlace
  <1>3. CASE journal.kind = "none"
    <2>1. Previous' = Previous
      BY <1>3 DEF Previous, Revision
    <2>2. QED BY <1>1, <2>1, Unseen
  <1>4. CASE GivenUp
    <2>1. Previous' \in {Previous, Revision(previous)}
      BY <1>4, DatasetAssumption DEF GivenUp, Transaction, Previous, Revision
    <2>2. Calling = Store!NoCall /\ Calling' \in Store!Call
      BY NotCalling, NoCallTyped DEF Turns, OwnPart
    <2>3. Store!Settle
      BY <1>1, <1>4, <2>1, <2>2 DEF GivenUp, Store!Settle
    <2>4. QED BY <2>3 DEF StoreStep, Store!StoreNext
  <1>5. QED BY <1>2, <1>3, <1>4

LEMMA QuarantineFailsStep ==
  ASSUME Turns, DatasetInv, QuarantineStepFails, ~damaged
  PROVE  StoreStep
  <1>1. pc # "qPrimary"
    BY DEF DatasetInv, QuarantinePlace
  <1>2. CASE UNCHANGED Recorded
    BY <1>2, RecordedUnseen
  <1>3. CASE /\ pc = "qEvidence" /\ nextGen' \in {Absent, nextGen}
             /\ UNCHANGED <<primary, previous, journal, undo, damaged>>
    BY <1>3, EvidenceStep
  <1>4. QED BY <1>1, <1>2, <1>3
            DEF QuarantineStepFails, Recorded, files, gens, history

LEMMA FailsStep ==
  ASSUME Turns, DatasetInv, Fails
  PROVE  StoreStep
  <1>1. CASE UNCHANGED Recorded
    BY <1>1, RecordedUnseen
  <1>2. CASE /\ pc \in {"stagePrevious", "prepare"}
             /\ UNCHANGED <<primary, previous, journal, undo, damaged>>
    <2>1. journal.kind = "none"
      BY <1>2 DEF DatasetInv, Place, Staged, Quiet
    <2>2. Revision(primary)' = Revision(primary)
      BY <1>2
    <2>3. QED BY <1>2, <2>1, <2>2, QuietUnseen
  <1>3. QED BY <1>1, <1>2 DEF Fails, Recorded, files, history

Asked(g) == op.kind = "delete" \/ (op.kind = "quarantine" /\ op.gen = g)

LEMMA DiscardStep ==
  ASSUME Turns, DatasetInv, Discards
  PROVE  StoreStep
  <1>1. journal.kind = "none" /\ UNCHANGED <<journal, undo, damaged>>
    BY DEF DatasetInv, Place, Quiet, Discards, QuarantineGeneration, DeletePrimary,
       DeletePrevious, history
  <1>2. Current = Revision(primary) /\ Previous = Revision(previous)
    BY <1>1, NoneCurrent
  <1>3. Current' = Revision(primary')
    BY <1>1 DEF Current, Revision
  <1>4. Previous' = Revision(previous')
    BY <1>1 DEF Previous, Revision
  <1>5. Revision(Absent) = None
    BY DatasetAssumption DEF Revision
  <1>6. \/ primary' = primary /\ previous' = previous
        \/ primary' = Absent /\ previous' = previous /\ Asked("primary")
        \/ primary' = primary /\ previous' = Absent /\ Asked("previous")
    BY DEF Discards, QuarantineGeneration, DeletePrimary, DeletePrevious, DatasetInv,
       Place, Asked
  <1>7. pc \in OwnPart
    BY DEF Discards, QuarantineGeneration, DeletePrimary, DeletePrevious, OwnPart
  <1>8. ASSUME NEW g, Asked(g)
       PROVE  Store!Asks(g) /\ Calling' \in {Calling, Store!NoCall}
    BY <1>7, <1>8, CallingItself, NoCallTyped DEF Turns, Asked, Store!Asks
  <1>9. CASE primary' = primary /\ previous' = previous
    BY <1>1, <1>2, <1>3, <1>4, <1>9, Unseen
  <1>10. CASE primary' = Absent /\ previous' = previous /\ Asked("primary")
    <2>1. Store!DropCurrent
      BY <1>1, <1>2, <1>3, <1>4, <1>5, <1>10, <1>8 DEF Store!DropCurrent
    <2>2. QED BY <2>1 DEF StoreStep, Store!StoreNext
  <1>11. CASE primary' = primary /\ previous' = Absent /\ Asked("previous")
    <2>1. Store!DropPrevious
      BY <1>1, <1>2, <1>3, <1>4, <1>5, <1>11, <1>8 DEF Store!DropPrevious
    <2>2. QED BY <2>1 DEF StoreStep, Store!StoreNext
  <1>12. QED BY <1>6, <1>9, <1>10, <1>11

LEMMA EveryStepIsOne ==
  ASSUME DatasetInv, DatasetInv', [DatasetNext]_datasetVars
  PROVE  StoreStep
  <1>1. CASE damaged'
    BY <1>1, DamagedStep
  <1>2. CASE ~damaged'
    <2> Turns
      BY EveryStepTurns
    <2>1. QuarantineJournal \/ QuarantineEvidence \/ QuarantineStepFails => ~damaged
      BY <1>2 DEF QuarantineJournal, QuarantineEvidence, QuarantineStepFails, history
    <2>2. ~QuarantinePrimary
      BY <1>2 DEF DatasetInv, QuarantinePlace, QuarantinePrimary
    <2>3. ~Damage
      BY <1>2 DEF Damage
    <2>4. QuarantineEvidence => StoreStep
      BY <2>1, EvidenceStep DEF QuarantineEvidence, history
    <2>5. UNCHANGED Recorded => StoreStep
      BY RecordedUnseen
    <2>6. UNCHANGED datasetVars => StoreStep
      BY <2>5, OtherRecords
    <2>7. (\E c \in Client : \E o \in Operations(c) : Enter(c, o)) \/ Recovers \/ Read
             => StoreStep
      BY <2>5, RecoveringRecords, CleaningUnseen DEF Recovers
    <2>8. Commits => StoreStep
      BY <2>5, CommittingRecords, StagingUnseen, PreparedStep, JournalledUnseen, RemoveStep
      DEF Commits
    <2>9. Promotes \/ Discards => StoreStep
      BY <2>5, OtherRecords, PromotingStep, SwappingUnseen, DiscardStep DEF Promotes
    <2>10. Quarantines => StoreStep
      BY <2>1, <2>2, <2>4, <2>5, OtherRecords, SetAsideStep DEF Quarantines
    <2>11. Faults => StoreStep
      BY <2>1, <2>3, <2>5, OtherRecords, PreparedFailsStep, PromotingStep,
         QuarantineFailsStep, FailsStep DEF Faults
    <2>12. QED BY <2>6, <2>7, <2>8, <2>9, <2>10, <2>11 DEF DatasetNext, Progress
  <1>3. QED BY <1>1, <1>2

(* The dataset implements the abstract store, through every crash, error   *)
(* and recovery: as long as no bytes are damaged a version is replaced     *)
(* when the journal of the caller's commit or promotion is written and     *)
(* dropped when the caller asks for it, and recovery only settles a        *)
(* transaction whose caller was left in doubt.                             *)
THEOREM DatasetImplementsStore == DatasetSpec => ImplementsStore
  <1>1. DatasetInit => Store!StoreInit
    <2> SUFFICES ASSUME DatasetInit PROVE Store!StoreInit
      OBVIOUS
    <2>1. journal.kind = "none" /\ Revision(Absent) = None
      BY NoJournalTyped, DatasetAssumption DEF DatasetInit, Revision
    <2>2. Current = None /\ Previous = None
      BY <2>1, NoneCurrent DEF DatasetInit
    <2>3. Calling = Store!NoCall
      BY NotCalling DEF DatasetInit, OwnPart
    <2>4. QED BY <2>2, <2>3 DEF DatasetInit, Store!StoreInit
  <1>2. DatasetInv /\ DatasetInv' /\ [DatasetNext]_datasetVars
           => [Store!StoreNext]_(Store!storeVars)
    BY EveryStepIsOne DEF StoreStep
  <1>3. QED BY <1>1, <1>2, InvHolds, PTL DEF DatasetSpec, ImplementsStore, Store!StoreSpec
=============================================================================
