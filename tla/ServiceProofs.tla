--------------------------- MODULE ServiceProofs ---------------------------
(***************************************************************************)
(* What the daemon guarantees for every number of proposals, roots, files,  *)
(* crashes and steps of other programs.                                     *)
(***************************************************************************)
EXTENDS Service, JournalProofs, FiniteSetTheorems

(***************************************************************************)
(* The strengthening of the type invariant.  Paths are built from the queue *)
(* and from the running operation, so an entry that exists must have its    *)
(* names, an operation that runs its entry and its paths, and a scan only   *)
(* roots that are enrolled.                                                 *)
(***************************************************************************)
QueueOK(queue) ==
    /\ queue \in [Id -> Proposal]
    /\ \A id \in Id : queue[id].status # "absent" =>
          queue[id].source_relative \in Name /\ queue[id].destination_name \in Name

StoreOK ==
    /\ QueueOK(proposals)
    /\ roots \in [RootId -> Root]
    /\ paused \in BOOLEAN
    /\ disk \in Disk /\ QueueOK(disk.proposals)
    /\ nextRoot \in 1..(MaxRootId + 1)

MoverPc == MovePc \cup CopyPc \cup JournalPc

OperationOK ==
    /\ pc \in Pc /\ cur \in Operation
    /\ pc \in MoverPc => /\ cur.id \in Id /\ proposals[cur.id].status # "absent"
                         /\ cur.from \in Path /\ cur.to \in Path
    /\ pc \in {"copying", "stage", "copy"} => cur.fd \in Ino
    /\ pc = "set_sha" => cur.digest \in Version
    /\ pc \in {"choose_root", "choose"} => cur.id \in Id /\ cur.root \in RootId

ScanOK ==
    /\ scan \in Scan
    /\ \A r \in scan.roots : registered(r)
    /\ scan.files # {} => registered(scan.root)

CountOK == todo \subseteq Id /\ userSteps \in 0..MaxUserSteps /\ faults \in 0..MaxFaults

Inv == JournalTypeOK /\ FsTypeOK /\ StoreOK /\ OperationOK /\ ScanOK /\ CountOK

(* The strengthening implies the type invariant. *)
LEMMA InvType == Inv => TypeOK
  BY DEF Inv, TypeOK, StoreOK, QueueOK, OperationOK, ScanOK, CountOK

-----------------------------------------------------------------------------
(* Facts about the operators. *)

(* An entry without a proposal is of the right type. *)
LEMMA AbsentProposalType ==
  AbsentProposal \in Proposal /\ AbsentProposal.status = "absent"
  BY JournalAssumption, PathsAssumption
     DEF AbsentProposal, Proposal, Identity, NoIdentity, Version

(* A root that is enrolled has a folder. *)
LEMMA RootDir ==
  ASSUME roots \in [RootId -> Root], NEW r, registered(r)
  PROVE  r \in RootId /\ roots[r].dir \in Dir
  BY DEF registered, Root

(* Folder and name make a path. *)
LEMMA MakePath ==
  ASSUME NEW d \in Dir, NEW n \in Name
  PROVE  <<d, n>> \in Path /\ parent(<<d, n>>) = d
  BY DEF Path, parent

(* The folder of a path. *)
LEMMA ParentDir == ASSUME NEW p \in Path PROVE parent(p) \in Dir
  BY DEF Path, parent

(* Pruning the queue keeps it well formed. *)
LEMMA PruneOK ==
  ASSUME NEW queue, QueueOK(queue)
  PROVE  QueueOK(prune_terminal_proposals(queue))
<1> DEFINE gone == {id \in Id : /\ queue[id].status \in TerminalStatus
                                /\ Cardinality({j \in {k \in Id : queue[k].status \in TerminalStatus} : j >= id})
                                      > MAX_TERMINAL_PROPOSALS}
<1>1. prune_terminal_proposals(queue) =
        [id \in Id |-> IF id \in gone THEN AbsentProposal ELSE queue[id]]
  BY DEF prune_terminal_proposals
<1> HIDE DEF gone
<1> QED
  BY <1>1, AbsentProposalType DEF QueueOK

(* Replacing one entry by a well formed one keeps the queue well formed. *)
LEMMA UpdateOK ==
  ASSUME NEW queue, QueueOK(queue), NEW id \in Id, NEW p \in Proposal,
         p.source_relative \in Name, p.destination_name \in Name
  PROVE  QueueOK([queue EXCEPT ![id] = p])
  BY DEF QueueOK

(* A step that leaves the queue, the roots and state.json alone. *)
LEMMA StoreFrame ==
  ASSUME StoreOK, UNCHANGED <<queueVars, disk, nextRoot>>
  PROVE  StoreOK'
  BY DEF StoreOK, queueVars, QueueOK

(* A step that leaves the scan and the roots alone. *)
LEMMA ScanFrame ==
  ASSUME ScanOK, UNCHANGED <<scan, roots>>
  PROVE  ScanOK'
  BY DEF ScanOK, registered

(* The empty scan. *)
LEMMA ScanDone == ASSUME scan' = NoScan PROVE ScanOK'
  BY DEF ScanOK, NoScan, Scan

(* The empty operation. *)
LEMMA NoOperationType == NoOperation \in Operation
  BY JournalAssumption, PathsAssumption
     DEF NoOperation, Operation, NoIdentity, Identity, Version, Digest

(* Leaving an operation for a point that needs nothing of it. *)
LEMMA LeaveOK ==
  ASSUME NEW next \in {"idle", "down", "save", "retention"}, leave(next)
  PROVE  OperationOK' /\ ScanOK'
<1>1. OperationOK'
  BY NoOperationType DEF leave, OperationOK, Pc, OperationPc, MoverPc, MovePc, CopyPc,
                         JournalPc, StorePc
<1>2. ScanOK'
  BY ScanDone DEF leave
<1> QED
  BY <1>1, <1>2

-----------------------------------------------------------------------------
(***************************************************************************)
(* The file system.  Every step of the daemon is one of these four, or      *)
(* leaves the files alone.                                                  *)
(***************************************************************************)
DaemonFs ==
    \/ UNCHANGED fsVars
    \/ \E p, q \in Path : renameat_noreplace(p, q)
    \/ \E p \in Path : create_exclusive(p)
    \/ \E p \in Path, v \in Version : exists(p) /\ write_all(entry[p], v)
    \/ \E p \in Path : unlinkat(p)

(* What the daemon does to the files keeps their type. *)
LEMMA DaemonFsType ==
  ASSUME FsTypeOK, DaemonFs
  PROVE  FsTypeOK'
<1> USE FsAssumption, PathsAssumption DEF FsTypeOK, Ino, NoIno
<1>1. CASE UNCHANGED fsVars
  BY <1>1 DEF fsVars
<1>2. CASE \E p, q \in Path : renameat_noreplace(p, q)
  BY <1>2 DEF renameat_noreplace
<1>3. CASE \E p \in Path : create_exclusive(p)
  BY <1>3 DEF create_exclusive, Version, Torn
<1>4. CASE \E p \in Path, v \in Version : exists(p) /\ write_all(entry[p], v)
  BY <1>4 DEF write_all, exists
<1>5. CASE \E p \in Path : unlinkat(p)
  BY <1>5 DEF unlinkat
<1> QED
  BY <1>1, <1>2, <1>3, <1>4, <1>5 DEF DaemonFs

(* What other programs do to the files keeps their type. *)
LEMMA UserFsType ==
  ASSUME FsTypeOK, user_step(UserPath)
  PROVE  FsTypeOK'
<1> USE FsAssumption, PathsAssumption DEF FsTypeOK, Ino, NoIno
<1>0. UserPath \subseteq Path
  BY DEF UserPath
<1>1. CASE \E p \in UserPath : user_create(p)
  BY <1>0, <1>1 DEF user_create, Version
<1>2. CASE \E p \in UserPath : user_write(p)
  BY <1>0, <1>2 DEF user_write, exists, Version
<1>3. CASE \E p \in UserPath : user_remove(p)
  BY <1>0, <1>3 DEF user_remove
<1>4. CASE \E p \in UserPath, q \in UserPath : user_rename(p, q)
  BY <1>0, <1>4 DEF user_rename
<1>5. CASE \E p \in UserPath, q \in UserPath : user_link(p, q)
  BY <1>0, <1>5 DEF user_link
<1> QED
  BY <1>1, <1>2, <1>3, <1>4, <1>5 DEF user_step

(* The staging file lies in the folder of the destination. *)
LEMMA StagePath ==
  ASSUME NEW id \in Id, NEW d \in Dir
  PROVE  stage_path(id, d) \in Path
  BY ServiceAssumption, MakePath DEF stage_path

(* Reading an open descriptor returns some content. *)
LEMMA ReadResult ==
  ASSUME FsTypeOK, cur \in Operation, cur.fd \in Ino
  PROVE  read_result \subseteq Version
  BY PathsAssumption DEF read_result, FsTypeOK, Operation, Identity, Version, Torn

-----------------------------------------------------------------------------
(***************************************************************************)
(* What is shown of every step of the daemon: it is a step of the journal,  *)
(* touches the files only in the ways of DaemonFs, and keeps the invariant. *)
(***************************************************************************)
DaemonStep ==
    /\ [JournalNext]_journalVars
    /\ DaemonFs
    /\ StoreOK' /\ OperationOK' /\ ScanOK' /\ CountOK'

(* Saving. *)
LEMMA SaveStep == ASSUME Inv, save PROVE DaemonStep
<1>1. UNCHANGED <<journalVars, fsVars, queueVars, nextRoot, todo, userSteps, faults>>
  BY DEF save
<1>2. StoreOK'
  BY <1>1 DEF save, Inv, StoreOK, queueVars, Disk, QueueOK
<1>3. OperationOK' /\ ScanOK'
  <2>1. CASE pc = "choose_root"
    <3>1. pc' = "choose" /\ cur' = cur /\ scan' = scan
      BY <2>1 DEF save
    <3>2. ScanOK'
      BY <1>1, <3>1, ScanFrame DEF Inv, queueVars
    <3> QED
      BY <1>1, <2>1, <3>1, <3>2
         DEF Inv, OperationOK, Pc, OperationPc, MoverPc, MovePc, CopyPc, JournalPc, StorePc
  <2>2. CASE pc # "choose_root"
    BY <2>2, LeaveOK DEF save
  <2> QED
    BY <2>1, <2>2
<1>4. CountOK'
  BY <1>1 DEF Inv, CountOK
<1> QED
  BY <1>1, <1>2, <1>3, <1>4 DEF DaemonStep, DaemonFs

(* Pausing and resuming on request. *)
LEMMA PausedStep == ASSUME Inv, NEW b \in BOOLEAN, set_paused(b) PROVE DaemonStep
<1>1. UNCHANGED <<journalVars, fsVars, proposals, roots, disk, nextRoot, todo, userSteps, faults>>
  BY DEF set_paused
<1>2. StoreOK'
  BY <1>1 DEF set_paused, Inv, StoreOK, QueueOK
<1>3. OperationOK' /\ ScanOK'
  BY LeaveOK DEF set_paused
<1>4. CountOK'
  BY <1>1 DEF Inv, CountOK
<1> QED
  BY <1>1, <1>2, <1>3, <1>4 DEF DaemonStep, DaemonFs

(* Changing the agent's settings, and making a rule. *)
LEMMA SettingsStep ==
  ASSUME Inv, configure_agent \/ \E id \in Id : create_rule_from_proposal(id)
  PROVE  DaemonStep
<1>1. /\ UNCHANGED <<journalVars, fsVars, queueVars, disk, nextRoot, todo, userSteps, faults>>
      /\ leave("save")
  BY DEF configure_agent, create_rule_from_proposal
<1>2. StoreOK' /\ OperationOK' /\ ScanOK' /\ CountOK'
  BY <1>1, StoreFrame, LeaveOK DEF Inv, CountOK
<1> QED
  BY <1>1, <1>2 DEF DaemonStep, DaemonFs

(* Pausing on a full queue. *)
LEMMA ScanPauseStep == ASSUME Inv, scan_pause PROVE DaemonStep
<1>1. UNCHANGED <<journalVars, fsVars, proposals, roots, disk, nextRoot, todo, userSteps, faults>>
  BY DEF scan_pause
<1>2. StoreOK'
  BY <1>1 DEF scan_pause, Inv, StoreOK, QueueOK
<1>3. OperationOK' /\ ScanOK'
  BY LeaveOK DEF scan_pause
<1>4. CountOK'
  BY <1>1 DEF Inv, CountOK
<1> QED
  BY <1>1, <1>2, <1>3, <1>4 DEF DaemonStep, DaemonFs

(* Enrolling a folder keeps the enrolled roots and the type of the store. *)
LEMMA PushRoot ==
  ASSUME Inv, NEW d \in Dir, NEW w \in BOOLEAN, NEW t \in BOOLEAN, push_root(d, w, t),
         UNCHANGED <<proposals, paused, disk>>
  PROVE  /\ StoreOK' /\ nextRoot \in RootId
         /\ \A r : registered(r) => registered(r)'
<1>1. [dir |-> d, watched |-> w, destination |-> t] \in Root
  BY DEF Root
<1>2. nextRoot \in RootId /\ nextRoot' = nextRoot + 1
      /\ roots' = [roots EXCEPT ![nextRoot] = [dir |-> d, watched |-> w, destination |-> t]]
  BY DEF push_root
<1>3. StoreOK'
  BY <1>1, <1>2, ServiceAssumption DEF Inv, StoreOK, QueueOK, RootId
<1>4. \A r : registered(r) => registered(r)'
  BY <1>2, ServiceAssumption DEF registered, Inv, StoreOK
<1> QED
  BY <1>2, <1>3, <1>4

(* Enrolling a folder. *)
LEMMA AddRootStep ==
  ASSUME Inv, NEW d \in Dir, NEW w \in BOOLEAN, NEW t \in BOOLEAN, add_root(d, w, t)
  PROVE  DaemonStep
<1>1. UNCHANGED <<journalVars, fsVars, proposals, paused, disk, todo, userSteps, faults>>
  BY DEF add_root
<1>2. StoreOK'
  BY <1>1, PushRoot DEF add_root
<1>3. OperationOK' /\ ScanOK'
  BY LeaveOK DEF add_root
<1>4. CountOK'
  BY <1>1 DEF Inv, CountOK
<1> QED
  BY <1>1, <1>2, <1>3, <1>4 DEF DaemonStep, DaemonFs

(* Removing a root. *)
LEMMA RemoveRootStep == ASSUME Inv, NEW r \in RootId, remove_root(r) PROVE DaemonStep
<1>1. UNCHANGED <<journalVars, fsVars, proposals, paused, disk, nextRoot, todo, userSteps, faults>>
  BY DEF remove_root
<1>2. NoRootEntry \in Root
  BY DEF NoRootEntry, Root
<1>3. StoreOK'
  BY <1>1, <1>2 DEF remove_root, Inv, StoreOK, QueueOK
<1>4. OperationOK' /\ ScanOK'
  BY LeaveOK DEF remove_root
<1>5. CountOK'
  BY <1>1 DEF Inv, CountOK
<1> QED
  BY <1>1, <1>3, <1>4, <1>5 DEF DaemonStep, DaemonFs

-----------------------------------------------------------------------------
(* A queue entry that exists has its names and its type. *)
LEMMA EntryNamed ==
  ASSUME StoreOK, NEW id \in Id, proposals[id].status # "absent"
  PROVE  /\ proposals[id] \in Proposal
         /\ proposals[id].source_relative \in Name
         /\ proposals[id].destination_name \in Name
  BY DEF StoreOK, QueueOK

(* Replacing one queue entry by a well formed one. *)
LEMMA QueueStep ==
  ASSUME StoreOK, UNCHANGED <<roots, paused, disk, nextRoot>>, QueueOK(proposals')
  PROVE  StoreOK'
  BY DEF StoreOK, QueueOK

(* A final status, and the pruning that follows it, keep the queue well formed. *)
LEMMA SettleOK ==
  ASSUME StoreOK, NEW id \in Id, proposals[id].status # "absent",
         NEW revision, revision + 1 \in 0..MaxRevision, NEW status \in Status,
         settle(id, revision, status)
  PROVE  QueueOK(proposals')
<1> DEFINE p == [proposals[id] EXCEPT !.revision = revision + 1, !.status = status]
<1>1. p \in Proposal /\ p.source_relative \in Name /\ p.destination_name \in Name
  BY EntryNamed DEF Proposal
<1>2. proposals' = prune_terminal_proposals([proposals EXCEPT ![id] = p])
  BY DEF settle
<1> HIDE DEF p
<1>3. QueueOK([proposals EXCEPT ![id] = p])
  BY <1>1, UpdateOK DEF StoreOK
<1> QED
  BY <1>2, <1>3, PruneOK

(* Choosing a destination. *)
LEMMA ChooseStep ==
  ASSUME Inv, NEW id \in Id, NEW v \in 0..MaxRevision, NEW r \in RootId,
         choose_destination(id, v, r)
  PROVE  DaemonStep
<1> DEFINE name == proposals[id].source_relative
           p == [proposals[id] EXCEPT !.revision = v + 1, !.destination = r,
                                      !.destination_name = Lossy[name]]
<1>1. UNCHANGED <<fsVars, roots, paused, disk, nextRoot, todo, userSteps, faults>>
  BY DEF choose_destination
<1>2. proposals[id].status # "absent" /\ v + 1 \in 0..MaxRevision
  BY JournalAssumption DEF choose_destination, proposal_index, revise_proposal
<1>3. proposals[id] \in Proposal /\ name \in Name /\ Lossy[name] \in Name
  BY <1>2, EntryNamed, ServiceAssumption DEF Inv
<1>4. p \in Proposal /\ p.source_relative \in Name /\ p.destination_name \in Name
  BY <1>2, <1>3 DEF Proposal
<1>5. proposals' = [proposals EXCEPT ![id] = p]
  BY DEF choose_destination
<1>6. StoreOK'
  <2> HIDE DEF p
  <2> QED
    BY <1>1, <1>4, <1>5, UpdateOK, QueueStep DEF Inv, StoreOK
<1>7. <<roots[r].dir, name>> \in Path
  BY <1>3, RootDir, MakePath DEF choose_destination, is_destination, Inv, StoreOK
<1>8. JournalNext
  BY <1>7 DEF choose_destination, JournalNext
<1>9. OperationOK' /\ ScanOK'
  BY LeaveOK DEF choose_destination
<1>10. CountOK'
  BY <1>1 DEF Inv, CountOK
<1> QED
  BY <1>1, <1>6, <1>8, <1>9, <1>10 DEF DaemonStep, DaemonFs

(* Choosing a folder, which may have to be enrolled first. *)
LEMMA ChoosePathStep ==
  ASSUME Inv, NEW id \in Id, NEW v \in 0..MaxRevision, NEW d \in Dir,
         choose_destination_path(id, v, d)
  PROVE  DaemonStep
<1>1. CASE \E r \in RootId : choose_destination(id, v, r)
  BY <1>1, ChooseStep
<1>2. CASE /\ push_root(d, FALSE, TRUE)
           /\ pc' = "choose_root"
           /\ cur' = [NoOperation EXCEPT !.id = id, !.revision = v, !.root = nextRoot]
           /\ UNCHANGED <<journalVars, fsVars, proposals, paused, disk, scan, todo,
                          userSteps, faults>>
  <2>1. StoreOK' /\ nextRoot \in RootId /\ \A r : registered(r) => registered(r)'
    BY <1>2, PushRoot
  <2>2. cur' \in Operation /\ cur'.id = id /\ cur'.root = nextRoot
    BY <1>2, <2>1, NoOperationType DEF Operation
  <2>3. OperationOK'
    BY <1>2, <2>1, <2>2 DEF OperationOK, Pc, OperationPc, MoverPc, MovePc, CopyPc,
                            JournalPc, StorePc
  <2>4. ScanOK'
    BY <1>2, <2>1 DEF Inv, ScanOK
  <2>5. CountOK'
    BY <1>2 DEF Inv, CountOK
  <2> QED
    BY <1>2, <2>1, <2>3, <2>4, <2>5 DEF DaemonStep, DaemonFs
<1> QED
  BY <1>1, <1>2 DEF choose_destination_path

(* Renaming. *)
LEMMA RenameStep ==
  ASSUME Inv, NEW id \in Id, NEW v \in 0..MaxRevision, NEW n \in Name, rename(id, v, n)
  PROVE  DaemonStep
<1> DEFINE p == [proposals[id] EXCEPT !.revision = v + 1, !.destination_name = n]
<1>1. UNCHANGED <<fsVars, roots, paused, disk, nextRoot, todo, userSteps, faults>>
  BY DEF rename
<1>2. proposals[id].status # "absent" /\ v + 1 \in 0..MaxRevision
  BY JournalAssumption DEF rename, proposal_index, revise_proposal
<1>3. proposals[id] \in Proposal /\ proposals[id].source_relative \in Name
  BY <1>2, EntryNamed DEF Inv
<1>4. p \in Proposal /\ p.source_relative \in Name /\ p.destination_name \in Name
  BY <1>2, <1>3 DEF Proposal
<1>5. proposals' = [proposals EXCEPT ![id] = p]
  BY DEF rename
<1>6. StoreOK'
  <2> HIDE DEF p
  <2> QED
    BY <1>1, <1>4, <1>5, UpdateOK, QueueStep DEF Inv, StoreOK
<1>7. <<roots[proposals[id].destination].dir, n>> \in Path
  BY <1>3, RootDir, MakePath DEF rename, is_destination, Inv, StoreOK
<1>8. JournalNext
  BY <1>7 DEF rename, JournalNext
<1>9. OperationOK' /\ ScanOK'
  BY LeaveOK DEF rename
<1>10. CountOK'
  BY <1>1 DEF Inv, CountOK
<1> QED
  BY <1>1, <1>6, <1>8, <1>9, <1>10 DEF DaemonStep, DaemonFs

(* Ignoring. *)
LEMMA IgnoreStep ==
  ASSUME Inv, NEW id \in Id, NEW v \in 0..MaxRevision, ignore(id, v)
  PROVE  DaemonStep
<1>1. UNCHANGED <<fsVars, roots, paused, disk, nextRoot, todo, userSteps, faults>>
  BY DEF ignore
<1>2. v + 1 \in 0..MaxRevision
  BY JournalAssumption DEF ignore, transition, can_transition
<1>3. StoreOK'
  BY <1>1, <1>2, SettleOK, QueueStep DEF ignore, proposal_index, Inv, Status
<1>4. JournalNext
  BY DEF ignore, JournalNext, State, TerminalState
<1>5. OperationOK' /\ ScanOK'
  BY LeaveOK DEF ignore
<1>6. CountOK'
  BY <1>1 DEF Inv, CountOK
<1> QED
  BY <1>1, <1>3, <1>4, <1>5, <1>6 DEF DaemonStep, DaemonFs

(* Retention of the journal. *)
LEMMA JournalRetentionStep == ASSUME Inv, enforce_journal_retention PROVE DaemonStep
<1>1. UNCHANGED <<fsVars, queueVars, disk, nextRoot, todo, userSteps, faults>>
  BY DEF enforce_journal_retention
<1>2. StoreOK'
  BY <1>1, StoreFrame DEF Inv
<1>3. JournalNext
  BY DEF enforce_journal_retention, JournalNext
<1>4. OperationOK' /\ ScanOK'
  BY LeaveOK DEF enforce_journal_retention
<1>5. CountOK'
  BY <1>1 DEF Inv, CountOK
<1> QED
  BY <1>1, <1>2, <1>3, <1>4, <1>5 DEF DaemonStep, DaemonFs

-----------------------------------------------------------------------------
(* The start of a move or of an undo. *)
LEMMA ApproveStep ==
  ASSUME Inv, NEW id \in Id, NEW v \in 0..MaxRevision, approve(id, v)
  PROVE  DaemonStep
<1> DEFINE from == source_path(id)
           to == destination_path(id)
           p == [proposals[id] EXCEPT !.revision = v + 1]
<1>1. UNCHANGED <<fsVars, roots, paused, disk, nextRoot, scan, todo, userSteps, faults>>
  BY DEF approve
<1>2. proposals[id].status # "absent" /\ v + 1 \in 0..MaxRevision
  BY JournalAssumption DEF approve, proposal_index, transition, can_transition
<1>3. proposals[id] \in Proposal /\ proposals[id].source_relative \in Name
      /\ proposals[id].destination_name \in Name
  BY <1>2, EntryNamed DEF Inv
<1>4. p \in Proposal /\ p.source_relative \in Name /\ p.destination_name \in Name
      /\ p.status # "absent"
  BY <1>2, <1>3 DEF Proposal
<1>5. proposals' = [proposals EXCEPT ![id] = p]
  BY DEF approve
<1>6. StoreOK' /\ proposals'[id].status # "absent"
  <2> HIDE DEF p
  <2> QED
    BY <1>1, <1>4, <1>5, UpdateOK, QueueStep DEF Inv, StoreOK, QueueOK
<1>7. from \in Path /\ to \in Path
  BY <1>3, RootDir, MakePath
     DEF approve, is_destination, is_watched, source_path, destination_path, Inv, StoreOK
<1>8. entry[from] \in Ino
  BY <1>7 DEF approve, exists, Inv, FsTypeOK
<1>9. proposals[id].identity \in Identity
  BY <1>3 DEF Proposal
<1>10. cur' = [NoOperation EXCEPT !.id = id, !.revision = v + 1, !.from = from, !.to = to,
                                  !.expected = proposals[id].identity, !.fd = entry[from]]
  BY DEF approve
<1>11. cur' \in Operation /\ cur'.id = id /\ cur'.from = from /\ cur'.to = to
       /\ cur'.fd = entry[from]
  <2> HIDE DEF from, to
  <2> QED
    BY <1>2, <1>7, <1>8, <1>9, <1>10, NoOperationType DEF Operation
<1>12. pc' \in {"move_check", "copying"}
  BY DEF approve
<1>13. OperationOK'
  <2> HIDE DEF from, to
  <2> QED
    BY <1>6, <1>7, <1>8, <1>11, <1>12
       DEF OperationOK, Pc, OperationPc, MoverPc, MovePc, CopyPc, JournalPc, StorePc
<1>14. ScanOK' /\ CountOK'
  BY <1>1, ScanFrame DEF Inv, CountOK
<1>15. JournalNext
  BY DEF approve, JournalNext, State, ActiveState
<1> QED
  BY <1>1, <1>6, <1>13, <1>14, <1>15 DEF DaemonStep, DaemonFs

(* The start of an undo. *)
LEMMA UndoStep ==
  ASSUME Inv, NEW id \in Id, NEW v \in 0..MaxRevision, undo(id, v)
  PROVE  DaemonStep
<1> DEFINE to == source_path(id)
           from == destination_path(id)
<1>1. UNCHANGED <<fsVars, queueVars, disk, nextRoot, scan, todo, userSteps, faults>>
  BY DEF undo
<1>2. proposals[id].status # "absent" /\ v + 1 \in 0..MaxRevision
  BY JournalAssumption DEF undo, proposal_index, transition, can_transition
<1>3. proposals[id] \in Proposal /\ proposals[id].source_relative \in Name
      /\ proposals[id].destination_name \in Name
  BY <1>2, EntryNamed DEF Inv
<1>4. StoreOK' /\ proposals'[id].status # "absent"
  BY <1>1, <1>2, StoreFrame DEF Inv, queueVars
<1>5. from \in Path /\ to \in Path
  BY <1>3, RootDir, MakePath
     DEF undo, is_destination, source_path, destination_path, Inv, StoreOK
<1>6. proposals[id].identity \in Identity
  BY <1>3 DEF Proposal
<1>7. cur' = [NoOperation EXCEPT !.id = id, !.revision = v + 1, !.from = from, !.to = to,
                                 !.expected = proposals[id].identity, !.undo = TRUE]
  BY DEF undo
<1>8. cur' \in Operation /\ cur'.id = id /\ cur'.from = from /\ cur'.to = to
  <2> HIDE DEF from, to
  <2> QED
    BY <1>2, <1>5, <1>6, <1>7, NoOperationType DEF Operation
<1>9. pc' = "move_check"
  BY DEF undo
<1>10. OperationOK'
  <2> HIDE DEF from, to
  <2> QED
    BY <1>4, <1>5, <1>8, <1>9
       DEF OperationOK, Pc, OperationPc, MoverPc, MovePc, CopyPc, JournalPc, StorePc
<1>11. ScanOK' /\ CountOK'
  BY <1>1, ScanFrame DEF Inv, CountOK, queueVars
<1>12. JournalNext
  BY DEF undo, JournalNext, State, ActiveState
<1> QED
  BY <1>1, <1>4, <1>10, <1>11, <1>12 DEF DaemonStep, DaemonFs

(* A step of the mover: only pc, the digest and the revision it holds change. *)
LEMMA MoverFrame ==
  ASSUME Inv, unchangedByMover
  PROVE  StoreOK' /\ ScanOK' /\ CountOK' /\ proposals' = proposals
<1>1. UNCHANGED <<queueVars, disk, nextRoot, scan, todo, userSteps, faults>>
  BY DEF unchangedByMover
<1>2. StoreOK' /\ ScanOK' /\ proposals' = proposals
  BY <1>1, StoreFrame, ScanFrame DEF Inv, queueVars
<1>3. CountOK'
  BY <1>1 DEF Inv, CountOK
<1> QED
  BY <1>2, <1>3

(* A check of the mover: it goes on, and changes nothing else. *)
LEMMA MoverCheck ==
  ASSUME Inv, move_check \/ move_verify \/ verify \/ retire_check
  PROVE  DaemonStep
<1>1. UNCHANGED <<journalVars, fsVars, cur>> /\ unchangedByMover
  BY DEF move_check, move_verify, verify, retire_check
<1>2. \/ pc = "move_check" /\ pc' = "move_rename"
      \/ pc = "move_verify" /\ pc' \in {"undone", "published"}
      \/ pc = "verify" /\ pc' = "published"
      \/ pc = "retire_check" /\ pc' = "unlink"
  BY DEF move_check, move_verify, verify, retire_check, goto
<1>3. StoreOK' /\ ScanOK' /\ CountOK' /\ proposals' = proposals
  BY <1>1, MoverFrame
<1>4. OperationOK'
  BY <1>1, <1>2, <1>3
     DEF Inv, OperationOK, Pc, OperationPc, MoverPc, MovePc, CopyPc, JournalPc, StorePc
<1> QED
  BY <1>1, <1>3, <1>4 DEF DaemonStep, DaemonFs

(* The steps of the mover that change the files. *)
LEMMA MoverFs ==
  ASSUME Inv, move_rename \/ stage_create \/ publish_stage \/ retire_unlink
  PROVE  DaemonStep
<1>1. UNCHANGED <<journalVars, cur>> /\ unchangedByMover
  BY DEF move_rename, stage_create, publish_stage, retire_unlink
<1>2. \/ pc = "move_rename" /\ pc' = "move_verify"
      \/ pc = "stage" /\ pc' = "copy"
      \/ pc = "publish" /\ pc' = "verify"
      \/ pc = "unlink" /\ pc' = "source_removed"
  BY DEF move_rename, stage_create, publish_stage, retire_unlink, goto
<1>3. StoreOK' /\ ScanOK' /\ CountOK' /\ proposals' = proposals
  BY <1>1, MoverFrame
<1>4. OperationOK'
  BY <1>1, <1>2, <1>3
     DEF Inv, OperationOK, Pc, OperationPc, MoverPc, MovePc, CopyPc, JournalPc, StorePc
<1>5. cur.from \in Path /\ cur.to \in Path /\ stage_path(cur.id, parent(cur.to)) \in Path
  BY <1>2, ParentDir, StagePath DEF Inv, OperationOK, MoverPc, MovePc, CopyPc
<1>6. DaemonFs
  BY <1>5 DEF move_rename, stage_create, publish_stage, retire_unlink, DaemonFs
<1> QED
  BY <1>1, <1>3, <1>4, <1>6 DEF DaemonStep

(* Copying the bytes. *)
LEMMA CopyStep == ASSUME Inv, stage_copy PROVE DaemonStep
<1>1. pc = "copy" /\ pc' = "set_sha" /\ UNCHANGED journalVars /\ unchangedByMover
  BY DEF stage_copy, goto
<1>2. cur.fd \in Ino /\ cur \in Operation /\ stage_path(cur.id, parent(cur.to)) \in Path
  BY <1>1, ParentDir, StagePath DEF Inv, OperationOK, MoverPc, CopyPc
<1>3. PICK v \in read_result :
         /\ write_all(entry[stage_path(cur.id, parent(cur.to))], v)
         /\ cur' = [cur EXCEPT !.digest = v]
  BY DEF stage_copy
<1>4. v \in Version
  BY <1>2, <1>3, ReadResult DEF Inv
<1>5. cur' \in Operation /\ cur'.digest = v /\ cur'.id = cur.id /\ cur'.from = cur.from
      /\ cur'.to = cur.to /\ cur'.fd = cur.fd
  BY <1>2, <1>3, <1>4 DEF Operation, Digest
<1>6. StoreOK' /\ ScanOK' /\ CountOK' /\ proposals' = proposals
  BY <1>1, MoverFrame
<1>7. OperationOK'
  BY <1>1, <1>4, <1>5, <1>6
     DEF Inv, OperationOK, Pc, OperationPc, MoverPc, MovePc, CopyPc, JournalPc, StorePc
<1>8. DaemonFs
  BY <1>2, <1>3, <1>4 DEF stage_copy, DaemonFs
<1> QED
  BY <1>1, <1>6, <1>7, <1>8 DEF DaemonStep

(* Recording the digest. *)
LEMMA DigestStep == ASSUME Inv, record_sha256 PROVE DaemonStep
<1>1. /\ pc = "set_sha" /\ pc' = "publish"
      /\ set_sha256(cur.id, cur.digest)
      /\ UNCHANGED <<fsVars, cur>> /\ unchangedByMover
  BY DEF record_sha256, goto
<1>2. cur.id \in Id /\ cur.digest \in Version
  BY <1>1 DEF Inv, OperationOK, MoverPc, CopyPc
<1>3. StoreOK' /\ ScanOK' /\ CountOK' /\ proposals' = proposals
  BY <1>1, MoverFrame
<1>4. OperationOK'
  BY <1>1, <1>2, <1>3
     DEF Inv, OperationOK, Pc, OperationPc, MoverPc, MovePc, CopyPc, JournalPc, StorePc
<1>5. JournalNext
  BY <1>1, <1>2 DEF JournalNext
<1> QED
  BY <1>1, <1>3, <1>4, <1>5 DEF DaemonStep, DaemonFs

(* The journal commits in the middle of an operation. *)
LEMMA RecordStep ==
  ASSUME Inv, record_copying \/ record_published \/ record_removed
  PROVE  DaemonStep
<1>1. PICK state \in State : transition(cur.id, cur.revision, state)
  BY DEF record_copying, record_published, record_removed, record, State, ActiveState
<1>2. /\ cur' = [cur EXCEPT !.revision = cur.revision + 1]
      /\ UNCHANGED fsVars /\ unchangedByMover
  BY DEF record_copying, record_published, record_removed, record
<1>3. \/ pc = "copying" /\ pc' = "stage"
      \/ pc = "published" /\ pc' = "source_removed"
      \/ pc = "published" /\ pc' = "retire_check" /\ cur.digest # NoDigest
      \/ pc = "source_removed" /\ pc' = "completed"
  BY DEF record_copying, record_published, record_removed, record, goto
<1>4. cur.id \in Id /\ cur \in Operation /\ cur.revision \in 0..MaxRevision
  BY <1>3 DEF Inv, OperationOK, Operation, MoverPc, CopyPc, JournalPc
<1>5. cur.revision + 1 \in 0..MaxRevision
  BY <1>1, <1>4, JournalAssumption DEF transition, can_transition
<1>6. /\ cur' \in Operation /\ cur'.id = cur.id /\ cur'.from = cur.from
      /\ cur'.to = cur.to /\ cur'.fd = cur.fd
  BY <1>2, <1>4, <1>5 DEF Operation
<1>7. StoreOK' /\ ScanOK' /\ CountOK' /\ proposals' = proposals
  BY <1>2, MoverFrame
<1>8. OperationOK'
  BY <1>3, <1>6, <1>7
     DEF Inv, OperationOK, Pc, OperationPc, MoverPc, MovePc, CopyPc, JournalPc, StorePc
<1>9. JournalNext
  BY <1>1, <1>4 DEF JournalNext
<1> QED
  BY <1>2, <1>7, <1>8, <1>9 DEF DaemonStep, DaemonFs

(* The last commit of a move or of an undo. *)
LEMMA FinishStep == ASSUME Inv, finish_approve \/ finish_undo PROVE DaemonStep
<1>1. PICK state \in {"completed", "undone"} :
         transition(cur.id, cur.revision, state) /\ settle(cur.id, cur.revision, state)
  BY DEF finish_approve, finish_undo, finish
<1>2. /\ pc \in {"completed", "undone"} /\ leave("retention")
      /\ UNCHANGED <<fsVars, roots, paused, disk, nextRoot, todo, userSteps, faults>>
  BY DEF finish_approve, finish_undo, finish
<1>3. cur.id \in Id /\ cur.revision \in 0..MaxRevision /\ proposals[cur.id].status # "absent"
  BY <1>2 DEF Inv, OperationOK, Operation, MoverPc, MovePc, JournalPc
<1>4. cur.revision + 1 \in 0..MaxRevision
  BY <1>1, <1>3, JournalAssumption DEF transition, can_transition
<1>5. StoreOK'
  BY <1>1, <1>2, <1>3, <1>4, SettleOK, QueueStep DEF Inv, Status
<1>6. OperationOK' /\ ScanOK'
  BY <1>2, LeaveOK
<1>7. CountOK'
  BY <1>2 DEF Inv, CountOK
<1>8. JournalNext
  BY <1>1, <1>3 DEF JournalNext, State, TerminalState
<1> QED
  BY <1>2, <1>5, <1>6, <1>7, <1>8 DEF DaemonStep, DaemonFs

-----------------------------------------------------------------------------
(* Starting a scan, taking the next root, passing over a file, and the end. *)
LEMMA ScanStep ==
  ASSUME Inv,
         \/ scan_once \/ scan_end
         \/ \E r \in RootId : scan_root(r)
         \/ \E n \in Name : scan_skip(n)
  PROVE  DaemonStep
<1>1. UNCHANGED <<journalVars, fsVars, queueVars, disk, nextRoot, todo, userSteps, faults>>
  BY DEF scan_once, scan_end, scan_root, scan_skip
<1>2. StoreOK' /\ CountOK'
  BY <1>1, StoreFrame DEF Inv, CountOK
<1>3. \A r : registered(r)' = registered(r)
  BY <1>1 DEF queueVars, registered
<1>4. CASE scan_end
  <2>1. OperationOK' /\ ScanOK'
    BY <1>4, LeaveOK DEF scan_end
  <2> QED
    BY <1>1, <1>2, <2>1 DEF DaemonStep, DaemonFs
<1>5. CASE ~scan_end
  <2>1. pc' = "scan" /\ cur' = cur
    BY <1>5 DEF scan_once, scan_root, scan_skip
  <2>2. OperationOK'
    BY <2>1 DEF Inv, OperationOK, Pc, OperationPc, MoverPc, MovePc, CopyPc, JournalPc, StorePc
  <2>3. ScanOK'
    <3>1. CASE scan_once
      BY <1>3, <3>1 DEF scan_once, ScanOK, Scan, NoScan, is_watched
    <3>2. CASE \E r \in RootId : scan_root(r)
      BY <1>3, <3>2, ZenonT(60) DEF scan_root, ScanOK, Scan, Inv
    <3>3. CASE \E n \in Name : scan_skip(n)
      BY <1>3, <3>3 DEF scan_skip, ScanOK, Scan, Inv
    <3> QED
      BY <1>5, <3>1, <3>2, <3>3
  <2> QED
    BY <1>1, <1>2, <2>2, <2>3 DEF DaemonStep, DaemonFs
<1> QED
  BY <1>4, <1>5

(* A new proposal. *)
LEMMA ConsiderStep ==
  ASSUME Inv, NEW n \in Name, NEW c \in RootId \cup {NoRoot}, consider(n, c)
  PROVE  DaemonStep
<1> DEFINE p == <<roots[scan.root].dir, n>>
           new == [status |-> "proposed", revision |-> 1,
                   source_root |-> scan.root, source_relative |-> n,
                   destination |-> c, destination_name |-> Lossy[n],
                   identity |-> identity_fd(entry[p])]
<1>1. UNCHANGED <<fsVars, roots, paused, disk, nextRoot, pc, cur, todo, userSteps, faults>>
  BY DEF consider
<1>2. pc = "scan" /\ n \in scan.files /\ nextId \in Id
  BY DEF consider, create
<1>3. registered(scan.root) /\ scan.root \in RootId /\ roots[scan.root].dir \in Dir
  BY <1>2, RootDir DEF Inv, StoreOK, ScanOK
<1>4. p \in Path
  BY <1>3, MakePath
<1>5. identity_fd(entry[p]) \in Identity
  BY <1>4 DEF consider, single_link, exists, identity_fd, Identity, Inv, FsTypeOK
<1>6. new \in Proposal /\ new.source_relative \in Name /\ new.destination_name \in Name
  BY <1>3, <1>5, ServiceAssumption, JournalAssumption DEF Proposal, Status
<1>7. proposals' = [proposals EXCEPT ![nextId] = new]
  BY DEF consider
<1>8. StoreOK'
  <2> HIDE DEF new
  <2> QED
    BY <1>1, <1>2, <1>6, <1>7, UpdateOK, QueueStep DEF Inv, StoreOK
<1>9. destination_path_for(c, n) \in Path \cup {NoPath}
  BY RootDir, MakePath DEF destination_path_for, is_destination, Inv, StoreOK
<1>10. create(nextId, p, destination_path_for(c, n))
  BY DEF consider
<1>11. JournalNext
  BY <1>2, <1>4, <1>9, <1>10 DEF JournalNext
<1>12. OperationOK'
  BY <1>1, <1>2 DEF Inv, OperationOK, MoverPc, MovePc, CopyPc, JournalPc
<1>13. scan' = [scan EXCEPT !.files = scan.files \ {n}, !.created = TRUE]
  BY DEF consider
<1>14. \A r : registered(r)' = registered(r)
  BY <1>1 DEF registered
<1>15. ScanOK'
  BY <1>3, <1>13, <1>14 DEF Inv, ScanOK, Scan
<1>16. CountOK'
  BY <1>1 DEF Inv, CountOK
<1> QED
  BY <1>1, <1>8, <1>11, <1>12, <1>15, <1>16 DEF DaemonStep, DaemonFs

(* An operation that returns an error. *)
LEMMA ErrorStep == ASSUME Inv, operation_error PROVE DaemonStep
<1>1. UNCHANGED <<journalVars, fsVars, queueVars, disk, nextRoot, todo, userSteps>>
  BY DEF operation_error
<1>2. StoreOK'
  BY <1>1, StoreFrame DEF Inv
<1>3. OperationOK' /\ ScanOK'
  BY LeaveOK DEF operation_error
<1>4. CountOK'
  BY <1>1, ServiceAssumption DEF operation_error, Inv, CountOK
<1> QED
  BY <1>1, <1>2, <1>3, <1>4 DEF DaemonStep, DaemonFs

(* A crash: memory becomes what state.json holds. *)
LEMMA CrashStep == ASSUME Inv, crash PROVE DaemonStep
<1>1. UNCHANGED <<journalVars, fsVars, disk, nextRoot, userSteps>>
  BY DEF crash
<1>2. StoreOK'
  BY <1>1 DEF crash, Inv, StoreOK, Disk, QueueOK
<1>3. OperationOK' /\ ScanOK'
  BY LeaveOK DEF crash
<1>4. CountOK'
  BY <1>1, ServiceAssumption DEF crash, Inv, CountOK
<1> QED
  BY <1>1, <1>2, <1>3, <1>4 DEF DaemonStep, DaemonFs

(* Opening the store. *)
LEMMA OpenStep == ASSUME Inv, open PROVE DaemonStep
<1>1. UNCHANGED <<fsVars, roots, paused, disk, nextRoot, cur, scan, userSteps, faults>>
  BY DEF open
<1>2. StoreOK'
  BY <1>1, PruneOK, QueueStep DEF open, Inv, StoreOK
<1>3. OperationOK'
  BY <1>1 DEF open, Inv, OperationOK, Pc, MoverPc, MovePc, CopyPc, JournalPc
<1>4. ScanOK'
  BY <1>1, ScanFrame DEF Inv
<1>5. CountOK'
  BY <1>1 DEF open, Inv, CountOK, nonterminal, Active
<1>6. JournalNext
  BY DEF open, JournalNext
<1> QED
  BY <1>1, <1>2, <1>3, <1>4, <1>5, <1>6 DEF DaemonStep, DaemonFs

(* Recovery of one row. *)
LEMMA RecoverStep == ASSUME Inv, NEW id \in Id, recover_entry(id) PROVE DaemonStep
<1>1. UNCHANGED <<fsVars, roots, paused, disk, nextRoot, pc, cur, scan, userSteps, faults>>
  BY DEF recover_entry
<1>2. pc = "recover" /\ todo' \subseteq todo
  BY DEF recover_entry
<1>3. OperationOK'
  BY <1>1, <1>2 DEF Inv, OperationOK, MoverPc, MovePc, CopyPc, JournalPc
<1>4. ScanOK' /\ CountOK'
  BY <1>1, <1>2, ScanFrame DEF Inv, CountOK
<1>5. CASE UNCHANGED <<journalVars, proposals>>
  <2>1. StoreOK'
    BY <1>1, <1>5, StoreFrame DEF Inv, queueVars
  <2> QED
    BY <1>1, <1>3, <1>4, <1>5, <2>1 DEF DaemonStep, DaemonFs
<1>6. CASE \E s \in {"completed", "needs_attention"} :
              transition(id, rows[id].revision, s) /\ recovered(id, s)
  <2>1. PICK s \in {"completed", "needs_attention"} :
              transition(id, rows[id].revision, s) /\ recovered(id, s)
    BY <1>6
  <2>2. rows[id].revision \in 0..MaxRevision /\ rows[id].revision + 1 \in 0..MaxRevision
    BY <2>1, JournalAssumption DEF transition, can_transition, Inv, JournalTypeOK, Row
  <2>3. JournalNext
    BY <2>1, <2>2 DEF JournalNext, State, ActiveState, TerminalState
  <2>4. CASE proposals[id].status = "absent"
    <3>1. StoreOK'
      BY <1>1, <2>1, <2>4, StoreFrame DEF recovered, Inv, queueVars
    <3> QED
      BY <1>1, <1>3, <1>4, <2>3, <3>1 DEF DaemonStep, DaemonFs
  <2>5. CASE proposals[id].status # "absent"
    <3> DEFINE p == [proposals[id] EXCEPT !.revision = rows[id].revision + 1, !.status = s]
    <3>1. p \in Proposal /\ p.source_relative \in Name /\ p.destination_name \in Name
      BY <2>2, <2>5, EntryNamed DEF Proposal, Status, Inv
    <3>2. proposals' = [proposals EXCEPT ![id] = p]
      BY <2>1, <2>5 DEF recovered
    <3> HIDE DEF p
    <3>3. StoreOK'
      BY <1>1, <3>1, <3>2, UpdateOK, QueueStep DEF Inv, StoreOK
    <3> QED
      BY <1>1, <1>3, <1>4, <2>3, <3>3 DEF DaemonStep, DaemonFs
  <2> QED
    BY <2>4, <2>5
<1> QED
  BY <1>5, <1>6 DEF recover_entry

(* The end of recovery. *)
LEMMA RecoverEndStep == ASSUME Inv, recover_end PROVE DaemonStep
<1>1. UNCHANGED <<journalVars, fsVars, queueVars, disk, nextRoot, cur, scan, todo,
                  userSteps, faults>>
      /\ pc' = "recover_save"
  BY DEF recover_end, goto
<1>2. StoreOK' /\ ScanOK'
  BY <1>1, StoreFrame, ScanFrame DEF Inv, queueVars
<1>3. OperationOK'
  BY <1>1 DEF Inv, OperationOK, Pc, MoverPc, MovePc, CopyPc, JournalPc
<1>4. CountOK'
  BY <1>1 DEF Inv, CountOK
<1> QED
  BY <1>1, <1>2, <1>3, <1>4 DEF DaemonStep, DaemonFs

-----------------------------------------------------------------------------
(* Every request, every step of the daemon and every crash. *)
LEMMA OwnSteps == ASSUME Inv, Request \/ Daemon \/ crash PROVE DaemonStep
<1>1. CASE Request
  BY <1>1, PausedStep, SettingsStep, AddRootStep, RemoveRootStep, ChooseStep, ChoosePathStep,
     RenameStep, IgnoreStep, ApproveStep, UndoStep, ScanStep
     DEF Request, proposal_destination
<1>2. CASE Mover
  BY <1>2, MoverCheck, MoverFs, CopyStep, DigestStep, RecordStep, FinishStep DEF Mover
<1>3. CASE choose_enrolled
  <2>1. cur.id \in Id /\ cur.revision \in 0..MaxRevision /\ cur.root \in RootId
    BY <1>3 DEF choose_enrolled, Inv, OperationOK, Operation
  <2> QED
    BY <1>3, <2>1, ChooseStep DEF choose_enrolled
<1>4. CASE Daemon /\ ~Mover /\ ~choose_enrolled
  BY <1>4, JournalRetentionStep, SaveStep, ScanPauseStep, ScanStep, ConsiderStep,
     ErrorStep, OpenStep, RecoverStep, RecoverEndStep
     DEF Daemon
<1>5. CASE crash
  BY <1>5, CrashStep
<1> QED
  BY <1>1, <1>2, <1>3, <1>4, <1>5

(* The initial states. *)
LEMMA InitInv == Init => Inv
<1> SUFFICES ASSUME Init PROVE Inv
  OBVIOUS
<1>1. JournalTypeOK
  BY JournalInitType DEF Init
<1>2. Cardinality(StartFiles) \in Nat
  BY ServiceAssumption, FS_CardinalityType
<1>3. FsTypeOK
  BY <1>2, ServiceAssumption, FsAssumption, PathsAssumption
     DEF Init, FsTypeOK, Version, Torn, Ino
<1>4. QueueOK(StartQueue)
  BY AbsentProposalType DEF StartQueue, QueueOK
<1>5. StoreOK
  BY <1>4, ServiceAssumption DEF Init, StoreOK, Disk, QueueOK
<1>6. OperationOK /\ ScanOK
  BY NoOperationType
     DEF Init, OperationOK, ScanOK, NoScan, Scan, Pc, MoverPc, MovePc, CopyPc, JournalPc
<1>7. CountOK
  BY ServiceAssumption DEF Init, CountOK
<1> QED
  BY <1>1, <1>3, <1>5, <1>6, <1>7 DEF Inv

(* Every step of the system is a step of the journal and keeps the invariant. *)
LEMMA InvStep == Inv /\ [Next]_vars => Inv' /\ [JournalNext]_journalVars
<1> SUFFICES ASSUME Inv, [Next]_vars PROVE Inv' /\ [JournalNext]_journalVars
  OBVIOUS
<1>1. CASE Request \/ Daemon \/ crash
  <2>1. DaemonStep
    BY <1>1, OwnSteps
  <2> QED
    BY <2>1, DaemonFsType, JournalTypeStep DEF DaemonStep, Inv
<1>2. CASE user_acts
  <2>1. UNCHANGED <<journalVars, queueVars, disk, nextRoot, opVars, faults>>
        /\ userSteps' = userSteps + 1 /\ userSteps < MaxUserSteps
    BY <1>2 DEF user_acts
  <2>2. FsTypeOK'
    BY <1>2, UserFsType DEF user_acts, Inv
  <2>3. StoreOK' /\ ScanOK'
    BY <2>1, StoreFrame, ScanFrame DEF Inv, opVars, queueVars
  <2>4. OperationOK' /\ CountOK'
    BY <2>1, ServiceAssumption DEF Inv, OperationOK, CountOK, opVars, queueVars
  <2>5. JournalTypeOK'
    BY <2>1, JournalTypeStep DEF Inv
  <2> QED
    BY <2>1, <2>2, <2>3, <2>4, <2>5 DEF Inv
<1>3. CASE time_passes
  <2>1. JournalNext /\ UNCHANGED <<fsVars, queueVars, disk, nextRoot, opVars, userSteps, faults>>
    BY <1>3 DEF time_passes, JournalNext
  <2>2. StoreOK' /\ ScanOK' /\ FsTypeOK'
    BY <2>1, StoreFrame, ScanFrame, DaemonFsType DEF Inv, opVars, queueVars, DaemonFs
  <2>3. OperationOK' /\ CountOK'
    BY <2>1 DEF Inv, OperationOK, CountOK, opVars, queueVars
  <2> QED
    BY <2>1, <2>2, <2>3, JournalTypeStep DEF Inv
<1>4. CASE UNCHANGED vars
  <2>1. StoreOK' /\ ScanOK' /\ FsTypeOK'
    BY <1>4, StoreFrame, ScanFrame, DaemonFsType DEF vars, Inv, opVars, queueVars, DaemonFs
  <2>2. OperationOK' /\ CountOK' /\ UNCHANGED journalVars
    BY <1>4 DEF vars, Inv, OperationOK, CountOK, opVars, queueVars
  <2> QED
    BY <2>1, <2>2, JournalTypeStep DEF Inv
<1> QED
  BY <1>1, <1>2, <1>3, <1>4 DEF Next

(***************************************************************************)
(* Every variable of the daemon keeps its type, through every request,      *)
(* error, crash and restart.                                                *)
(***************************************************************************)
THEOREM TypeCorrect == Spec => []TypeOK
<1>1. Spec => []Inv
  BY InitInv, InvStep, PTL DEF Spec
<1> QED
  BY <1>1, InvType, PTL

(***************************************************************************)
(* The daemon is a caller of the journal that never asks for anything the   *)
(* journal's specification does not describe: the detailed specification    *)
(* implements JournalSpec.                                                  *)
(***************************************************************************)
THEOREM ServiceImplementsJournal == Spec => JournalSpec
<1>1. Init => JournalInit
  BY DEF Init
<1>2. Spec => []Inv
  BY InitInv, InvStep, PTL DEF Spec
<1>3. Inv /\ [Next]_vars => [JournalNext]_journalVars
  BY InvStep
<1> QED
  BY <1>1, <1>2, <1>3, PTL DEF Spec, JournalSpec

(***************************************************************************)
(* What the journal guarantees every caller therefore holds of the whole    *)
(* system: rows only move forward, a revision names one content, the        *)
(* evidence of an unfinished move is never deleted, and retention deletes   *)
(* the oldest rows first.                                                   *)
(***************************************************************************)
THEOREM JournalGuarantees ==
  Spec => ForwardOnly /\ RevisionNamesContent /\ ActiveEvidenceKept /\ RetentionKeepsNewest
  BY ServiceImplementsJournal, ForwardTheorem, RevisionTheorem, EvidenceTheorem,
     RetentionTheorem, PTL

(***************************************************************************)
(* No step of the daemon binds a name that is taken to another file,        *)
(* whatever other programs do at any moment.                                *)
(***************************************************************************)
THEOREM NoOverwriteTheorem == Spec => NoOverwrite
<1> DEFINE Kept == OwnStep => \A p \in Path : exists(p) => entry'[p] \in {entry[p], NoIno}
<1>1. ASSUME FsTypeOK, DaemonFs PROVE Kept
  <2>1. CASE UNCHANGED fsVars
    BY <2>1 DEF fsVars
  <2>2. CASE \E p, q \in Path : renameat_noreplace(p, q)
    BY <2>2, <1>1 DEF renameat_noreplace, exists, FsTypeOK
  <2>3. CASE \E p \in Path : create_exclusive(p)
    BY <2>3, <1>1 DEF create_exclusive, exists, FsTypeOK
  <2>4. CASE \E p \in Path, v \in Version : exists(p) /\ write_all(entry[p], v)
    BY <2>4, <1>1 DEF write_all
  <2>5. CASE \E p \in Path : unlinkat(p)
    BY <2>5, <1>1 DEF unlinkat, FsTypeOK
  <2> QED
    BY <1>1, <2>1, <2>2, <2>3, <2>4, <2>5 DEF DaemonFs
<1>2. ASSUME Inv, [Next]_vars PROVE Kept
  <2>1. CASE Request \/ Daemon \/ crash
    <3>1. DaemonFs /\ FsTypeOK
      BY <1>2, <2>1, OwnSteps DEF DaemonStep, Inv
    <3> QED
      BY <1>1, <3>1
  <2>2. CASE user_acts
    BY <1>2, <2>2 DEF user_acts, OwnStep, Inv, CountOK
  <2>3. CASE time_passes
    BY <2>3 DEF time_passes, fsVars
  <2>4. CASE UNCHANGED vars
    BY <2>4 DEF vars, fsVars
  <2> QED
    BY <1>2, <2>1, <2>2, <2>3, <2>4 DEF Next
<1>3. Inv /\ [Next]_vars => Kept
  BY <1>2
<1>4. Spec => []Inv
  BY InitInv, InvStep, PTL DEF Spec
<1> QED
  BY <1>3, <1>4, PTL DEF Spec, NoOverwrite

-----------------------------------------------------------------------------
(* The sets that a step of a scan or of a recovery shortens are finite. *)
LEMMA WorkFinite ==
  ASSUME NEW files \in SUBSET Name, NEW list \in SUBSET RootId, NEW ids \in SUBSET Id
  PROVE  /\ IsFiniteSet(files) /\ IsFiniteSet(list) /\ IsFiniteSet(ids)
         /\ Cardinality(files) \in Nat /\ Cardinality(list) \in Nat /\ Cardinality(ids) \in Nat
         /\ Cardinality(Name) \in Nat /\ Cardinality(files) <= Cardinality(Name)
         /\ Cardinality(Id) \in Nat /\ Cardinality(ids) <= Cardinality(Id)
<1>1. IsFiniteSet(Id) /\ IsFiniteSet(RootId) /\ IsFiniteSet(Name)
  BY JournalAssumption, ServiceAssumption, NamesFinite, FS_Interval DEF Id, RootId
<1>2. /\ IsFiniteSet(files) /\ Cardinality(files) <= Cardinality(Name)
      /\ IsFiniteSet(list)
      /\ IsFiniteSet(ids) /\ Cardinality(ids) <= Cardinality(Id)
  BY <1>1, FS_Subset
<1> QED
  BY <1>1, <1>2, FS_CardinalityType

(* What is left of a scan and of a recovery. *)
LEMMA WorkType ==
  ASSUME Inv
  PROVE  /\ scan \in Scan /\ pc \in Pc
         /\ scan.files \in SUBSET Name /\ scan.roots \in SUBSET RootId /\ todo \in SUBSET Id
  BY DEF Inv, ScanOK, OperationOK, CountOK, Scan

(* The places of an operation have an order, and only waiting is the last. *)
LEMMA PlaceOrder ==
  ASSUME NEW at \in Pc \ {"scan", "recover", "down"}
  PROVE  place[at] \in 0..13 /\ (place[at] = 0 <=> at = "idle")
  BY DEF place, Pc, OperationPc, MovePc, CopyPc, JournalPc, StorePc

(* The bound is a number, and it is zero while the daemon waits. *)
LEMMA StepsLeftType ==
  ASSUME Inv
  PROVE  stepsLeft \in Nat /\ (stepsLeft = 0 <=> pc = "idle")
<1>1. /\ Cardinality(scan.files) \in Nat /\ Cardinality(scan.roots) \in Nat
      /\ Cardinality(todo) \in Nat /\ Cardinality(Name) \in Nat /\ Cardinality(Id) \in Nat
  BY WorkType, WorkFinite
<1>2. CASE pc = "scan"
  <2> DEFINE area == Cardinality(scan.roots) * (Cardinality(Name) + 1)
  <2>1. area \in Nat
    BY <1>1
  <2>2. stepsLeft = 2 + Cardinality(scan.files) + area
    BY <1>2 DEF stepsLeft
  <2> HIDE DEF area
  <2> QED
    BY <1>1, <1>2, <2>1, <2>2
<1>3. CASE pc = "recover"
  <2>1. stepsLeft = 2 + Cardinality(todo)
    BY <1>3 DEF stepsLeft
  <2> QED
    BY <1>1, <1>3, <2>1
<1>4. CASE pc = "down"
  <2>1. stepsLeft = 3 + Cardinality(Id)
    BY <1>4 DEF stepsLeft
  <2> QED
    BY <1>1, <1>4, <2>1
<1>5. CASE pc \notin {"scan", "recover", "down"}
  <2>1. stepsLeft = place[pc]
    BY <1>5 DEF stepsLeft
  <2> QED
    BY <1>5, <2>1, WorkType, PlaceOrder
<1> QED
  BY <1>2, <1>3, <1>4, <1>5

(* A step to an earlier place. *)
LEMMA EarlierPlace ==
  ASSUME pc \notin {"scan", "recover", "down"}, pc' \notin {"scan", "recover", "down"},
         place[pc'] < place[pc]
  PROVE  stepsLeft' < stepsLeft
<1>1. stepsLeft = place[pc] /\ stepsLeft' = place[pc']
  BY DEF stepsLeft, place
<1> QED
  BY <1>1

(* The mover goes through the places of a move in their order. *)
LEMMA MoverDescends == ASSUME Mover PROVE stepsLeft' < stepsLeft
<1>1. \/ pc = "move_check" /\ pc' = "move_rename"
      \/ pc = "move_rename" /\ pc' = "move_verify"
      \/ pc = "move_verify" /\ pc' \in {"undone", "published"}
      \/ pc = "copying" /\ pc' = "stage"
      \/ pc = "stage" /\ pc' = "copy"
      \/ pc = "copy" /\ pc' = "set_sha"
      \/ pc = "set_sha" /\ pc' = "publish"
      \/ pc = "publish" /\ pc' = "verify"
      \/ pc = "verify" /\ pc' = "published"
      \/ pc = "published" /\ pc' \in {"source_removed", "retire_check"}
      \/ pc = "retire_check" /\ pc' = "unlink"
      \/ pc = "unlink" /\ pc' = "source_removed"
      \/ pc = "source_removed" /\ pc' = "completed"
      \/ pc \in {"completed", "undone"} /\ pc' = "retention"
  <2>1. CASE move_check \/ move_rename \/ move_verify
    BY <2>1 DEF move_check, move_rename, move_verify, goto
  <2>2. CASE stage_create \/ stage_copy \/ record_sha256 \/ publish_stage \/ verify
    BY <2>2 DEF stage_create, stage_copy, record_sha256, publish_stage, verify, goto
  <2>3. CASE retire_check \/ retire_unlink
    BY <2>3 DEF retire_check, retire_unlink, goto
  <2>4. CASE record_copying \/ record_published \/ record_removed
    BY <2>4 DEF record_copying, record_published, record_removed, record, goto
  <2>5. CASE finish_approve \/ finish_undo
    BY <2>5 DEF finish_approve, finish_undo, finish, leave
  <2> QED
    BY <2>1, <2>2, <2>3, <2>4, <2>5 DEF Mover
<1>2. place[pc'] < place[pc]
  BY <1>1 DEF place
<1>3. pc \notin {"scan", "recover", "down"} /\ pc' \notin {"scan", "recover", "down"}
  BY <1>1
<1> QED
  BY <1>2, <1>3, EarlierPlace

(* The steps around a move: saving, retention, the edit after an enrolment. *)
LEMMA StoreDescends ==
  ASSUME choose_enrolled \/ enforce_journal_retention \/ save
  PROVE  stepsLeft' < stepsLeft
<1>1. \/ pc = "choose" /\ pc' = "save"
      \/ pc = "retention" /\ pc' \in {"save", "idle"}
      \/ pc = "choose_root" /\ pc' = "choose"
      \/ pc \in {"save", "recover_save"} /\ pc' = "idle"
  BY DEF choose_enrolled, choose_destination, enforce_journal_retention, save, leave
<1>2. place[pc'] < place[pc]
  BY <1>1 DEF place
<1>3. pc \notin {"scan", "recover", "down"} /\ pc' \notin {"scan", "recover", "down"}
  BY <1>1
<1> QED
  BY <1>2, <1>3, EarlierPlace

(* One root less outweighs all the files that are found in it. *)
LEMMA RootOutweighsFiles ==
  ASSUME NEW r \in Nat, NEW k \in Nat, NEW f \in Nat, NEW found \in Nat, found < k
  PROVE  2 + found + (r - 1) * k < 2 + f + r * k
<1> DEFINE area == r * k
<1>1. (r - 1) * k = area - k /\ area \in Int
  OBVIOUS
<1> HIDE DEF area
<1>2. 2 + found + (area - k) < 2 + f + area
  BY <1>1
<1> QED
  BY <1>1, <1>2 DEF area

(* A scan lists its roots and considers their files once each. *)
LEMMA ScanDescends ==
  ASSUME Inv, Inv', pc = "scan",
         \/ scan_pause \/ scan_end
         \/ \E r \in RootId : scan_root(r)
         \/ \E n \in Name : scan_skip(n)
         \/ \E n \in Name, c \in RootId \cup {NoRoot} : consider(n, c)
  PROVE  stepsLeft' < stepsLeft
<1> DEFINE list == scan.roots
           files == scan.files
           k == Cardinality(Name) + 1
<1>1. /\ Cardinality(list) \in Nat /\ Cardinality(files) \in Nat /\ k \in Nat
      /\ IsFiniteSet(list) /\ IsFiniteSet(files)
  BY WorkType, WorkFinite
<1>2. stepsLeft = 2 + Cardinality(files) + Cardinality(list) * k
  BY DEF stepsLeft
<1>3. CASE scan_pause \/ scan_end
  <2>1. pc' \in {"save", "idle"}
    BY <1>3 DEF scan_pause, scan_end, leave
  <2>2. stepsLeft' \in {0, 1}
    BY <2>1 DEF stepsLeft, place
  <2> DEFINE area == Cardinality(list) * k
  <2> HIDE DEF list, files, k
  <2>3. area \in Nat
    BY <1>1
  <2> HIDE DEF area
  <2>4. stepsLeft = 2 + Cardinality(files) + area
    BY <1>2 DEF area
  <2> QED
    BY <1>1, <2>2, <2>3, <2>4
<1>4. ASSUME NEW r \in RootId, scan_root(r) PROVE stepsLeft' < stepsLeft
  <2>1. /\ pc' = pc /\ r \in list
        /\ scan' = [scan EXCEPT !.roots = @ \ {r}, !.root = r,
                       !.files = {n \in Name : exists(<<roots[r].dir, n>>)}]
    BY <1>4 DEF scan_root
  <2> DEFINE found == scan'.files
  <2>2. scan'.roots = list \ {r} /\ found \in SUBSET Name
    BY <2>1, WorkType DEF Scan
  <2>3. Cardinality(scan'.roots) = Cardinality(list) - 1
    <3>1. r \in list
      BY <2>1
    <3> HIDE DEF list
    <3>2. Cardinality(list \ {r}) = Cardinality(list) - 1
      BY <1>1, <3>1, FS_RemoveElement
    <3> QED
      BY <2>2, <3>2
  <2>4. Cardinality(found) \in Nat /\ Cardinality(found) < k
    <3>1. /\ Cardinality(found) \in Nat /\ Cardinality(Name) \in Nat
          /\ Cardinality(found) <= Cardinality(Name)
      BY <2>2, WorkType, WorkFinite
    <3> HIDE DEF found
    <3> QED
      BY <3>1
  <2>5. stepsLeft' = 2 + Cardinality(found) + Cardinality(scan'.roots) * k
    BY <2>1 DEF stepsLeft
  <2>6. stepsLeft' = 2 + Cardinality(found) + (Cardinality(list) - 1) * k
    BY <2>3, <2>5
  <2> HIDE DEF list, files, k, found
  <2> QED
    BY <1>1, <1>2, <2>4, <2>6, RootOutweighsFiles
<1>5. ASSUME NEW n, pc' = pc, n \in files, scan'.files = files \ {n}, scan'.roots = list
      PROVE  stepsLeft' < stepsLeft
  <2>1. Cardinality(scan'.files) = Cardinality(files) - 1
    <3> HIDE DEF files, list
    <3>1. Cardinality(files \ {n}) = Cardinality(files) - 1
      BY <1>1, <1>5, FS_RemoveElement
    <3> QED
      BY <1>5, <3>1
  <2> DEFINE area == Cardinality(list) * k
  <2>2. stepsLeft' = 2 + (Cardinality(files) - 1) + area
    BY <1>5, <2>1 DEF stepsLeft
  <2>3. area \in Nat
    BY <1>1
  <2> HIDE DEF list, files, k, area
  <2>4. stepsLeft = 2 + Cardinality(files) + area
    BY <1>2 DEF area
  <2> QED
    BY <1>1, <2>2, <2>3, <2>4
<1>6. ASSUME NEW n \in Name, scan_skip(n) PROVE stepsLeft' < stepsLeft
  <2>1. pc' = pc /\ n \in files /\ scan' = [scan EXCEPT !.files = @ \ {n}]
    BY <1>6 DEF scan_skip
  <2>2. scan'.files = files \ {n} /\ scan'.roots = list
    BY <2>1, WorkType DEF Scan
  <2> QED
    BY <1>5, <2>1, <2>2
<1>7. ASSUME NEW n \in Name, NEW c, consider(n, c) PROVE stepsLeft' < stepsLeft
  <2>1. pc' = pc /\ n \in files /\ scan' = [scan EXCEPT !.files = @ \ {n}, !.created = TRUE]
    BY <1>7 DEF consider
  <2>2. scan'.files = files \ {n} /\ scan'.roots = list
    BY <2>1, WorkType DEF Scan
  <2> QED
    BY <1>5, <2>1, <2>2
<1> QED
  BY <1>3, <1>4, <1>6, <1>7

(* A restart looks at each active row once. *)
LEMMA RecoveryDescends ==
  ASSUME Inv, Inv', open \/ (\E id \in Id : recover_entry(id)) \/ recover_end
  PROVE  stepsLeft' < stepsLeft
<1>1. IsFiniteSet(todo) /\ Cardinality(todo) \in Nat /\ Cardinality(Id) \in Nat
  BY WorkType, WorkFinite
<1>2. CASE open
  <2>1. pc = "down" /\ pc' = "recover"
    BY <1>2 DEF open
  <2>2. Cardinality(todo') \in Nat /\ Cardinality(todo') <= Cardinality(Id)
    <3>1. todo' \in SUBSET Id
      BY DEF Inv, CountOK
    <3> QED
      BY <3>1, WorkType, WorkFinite
  <2>3. stepsLeft = 3 + Cardinality(Id) /\ stepsLeft' = 2 + Cardinality(todo')
    BY <2>1 DEF stepsLeft
  <2> QED
    BY <1>1, <2>2, <2>3
<1>3. ASSUME NEW id \in Id, recover_entry(id) PROVE stepsLeft' < stepsLeft
  <2>1. pc = "recover" /\ pc' = "recover" /\ id \in todo /\ todo' = todo \ {id}
    BY <1>3 DEF recover_entry
  <2>2. Cardinality(todo') = Cardinality(todo) - 1
    BY <1>1, <2>1, FS_RemoveElement
  <2>3. stepsLeft = 2 + Cardinality(todo) /\ stepsLeft' = 2 + Cardinality(todo')
    BY <2>1 DEF stepsLeft
  <2> QED
    BY <1>1, <2>2, <2>3
<1>4. CASE recover_end
  <2>1. pc = "recover" /\ pc' = "recover_save"
    BY <1>4 DEF recover_end, goto
  <2>2. stepsLeft = 2 + Cardinality(todo) /\ stepsLeft' = 1
    BY <2>1 DEF stepsLeft, place
  <2> QED
    BY <1>1, <2>2
<1> QED
  BY <1>2, <1>3, <1>4

(* A failed step ends the operation. *)
LEMMA ErrorDescends == ASSUME Inv, operation_error PROVE stepsLeft' < stepsLeft
<1>1. pc # "idle" /\ pc' = "idle"
  BY DEF operation_error, leave, OperationPc, MovePc, CopyPc, JournalPc, StorePc
<1>2. stepsLeft \in Nat /\ stepsLeft # 0
  BY <1>1, StepsLeftType
<1>3. stepsLeft' = 0
  BY <1>1 DEF stepsLeft, place
<1> QED
  BY <1>2, <1>3

(* Every step of the daemon but the one that begins a scan's pause. *)
LEMMA DaemonDescends ==
  ASSUME Inv, Inv', Daemon, pc # "idle"
  PROVE  stepsLeft' < stepsLeft
<1> DEFINE scanning == \/ scan_pause \/ scan_end
                       \/ \E r \in RootId : scan_root(r)
                       \/ \E n \in Name : scan_skip(n)
                       \/ \E n \in Name, c \in RootId \cup {NoRoot} : consider(n, c)
<1>1. CASE scanning
  <2>1. pc = "scan"
    BY <1>1 DEF scan_pause, scan_end, scan_root, scan_skip, consider
  <2> QED
    BY <1>1, <2>1, ScanDescends
<1>2. CASE ~scanning
  BY <1>2, MoverDescends, StoreDescends, RecoveryDescends, ErrorDescends DEF Daemon
<1> QED
  BY <1>1, <1>2

(* While the daemon does not wait, and lives, the program's steps are its.  *)
LEMMA OwnStepIsDaemon ==
  ASSUME Inv, Next, vars' # vars,
         pc # "idle", pc' # "down", OwnStep, clock' = clock
  PROVE  Daemon
<1>1. ~Request
  <2>1. Request => pc = "idle"
    BY ZenonT(60) DEF Request, set_paused, configure_agent, create_rule_from_proposal,
       add_root, remove_root, proposal_destination, choose_destination_path, rename,
       ignore, approve, undo, scan_once
  <2> QED
    BY <2>1
<1>2. ~crash
  BY DEF crash, leave
<1>3. ~user_acts
  <2>1. userSteps \in Int
    BY DEF Inv, CountOK
  <2> QED
    BY <2>1 DEF user_acts, OwnStep
<1>4. ~time_passes
  <2>1. time_passes => UNCHANGED vars
    BY DEF time_passes, set_clock, vars, journalVars
  <2> QED
    BY <2>1
<1> QED
  BY <1>1, <1>2, <1>3, <1>4 DEF Next

(***************************************************************************)
(* A running operation, scan or restart ends: each step of the daemon       *)
(* leaves it fewer to take, and their number is a natural number that is    *)
(* zero only while the daemon waits for a request.  As long as its steps    *)
(* are taken (its fairness) it therefore returns to its loop, from every    *)
(* error, with any number of roots, files and interrupted moves.            *)
(***************************************************************************)
THEOREM StepsRunOutTheorem ==
  Spec => /\ [](stepsLeft \in Nat /\ (stepsLeft = 0 <=> pc = "idle"))
          /\ StepsRunOut
<1> DEFINE Running == pc # "idle" /\ pc' # "down" /\ OwnStep /\ clock' = clock
<1>1. Spec => []Inv
  BY InitInv, InvStep, PTL DEF Spec
<1>2. Inv => stepsLeft \in Nat /\ (stepsLeft = 0 <=> pc = "idle")
  BY StepsLeftType
<1>3. Inv /\ Inv' /\ [Next]_vars => [Running => stepsLeft' < stepsLeft]_vars
  BY OwnStepIsDaemon, DaemonDescends
<1> QED
  BY <1>1, <1>2, <1>3, PTL DEF Spec, StepsRunOut

=============================================================================
