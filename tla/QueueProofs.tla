---------------------------- MODULE QueueProofs ----------------------------
(***************************************************************************)
(* The review queue, state.json and the journal, for every value of the     *)
(* constants: the queue never runs ahead of the journal, the journal names  *)
(* the paths that the mover works on, and no file is touched before the     *)
(* journal has committed the intent.  All of that rests on names being      *)
(* their own lossy form: run lossy_name shows what happens otherwise.  The  *)
(* last two parts, on the sources of the entries and on recovery, need no   *)
(* such thing.                                                              *)
(***************************************************************************)
EXTENDS ServiceProofs

(* Every file name is UTF-8, so that to_string_lossy does not change it. *)
Utf8Names == \A n \in Name : Lossy[n] = n

(***************************************************************************)
(* The strengthening.  A queue entry p, with the roots enrolled beside it,  *)
(* and its journal row.  The source is part of it because the mover, and    *)
(* recovery, find the file once by the entry and once by the row.           *)
(***************************************************************************)
EntryRow(p, enrolled, row) ==
    p.status # "absent" =>
        /\ p.status = "needs_attention" => row.state = "needs_attention"
        /\ row.state # "absent" =>
              /\ p.revision <= row.revision
              /\ p.revision = row.revision => p.status = StatusOf(row.state)
              /\ enrolled[p.source_root].dir # NoDir =>
                    row.source = <<enrolled[p.source_root].dir, p.source_relative>>
              /\ (p.revision = row.revision /\ row.state = "proposed"
                  /\ p.destination \in RootId
                  /\ enrolled[p.destination].dir # NoDir
                  /\ enrolled[p.destination].destination) =>
                    row.destination = <<enrolled[p.destination].dir, p.destination_name>>

(* Ids are handed out once: an entry has an old id and old roots. *)
EntryKnown(p, id, idLimit, rootLimit) ==
    p.status # "absent" =>
        /\ id < idLimit
        /\ p.source_root \in RootId /\ p.source_root < rootLimit
        /\ p.destination < rootLimit

QueueRow(queue, enrolled) ==
    \A id \in Id : /\ EntryRow(queue[id], enrolled, rows[id])
                   /\ EntryKnown(queue[id], id, nextId, nextRoot)

RootsKnown(enrolled) ==
    \A r \in RootId : enrolled[r].dir # NoDir => r < nextRoot

(* What the journal has committed at each step of the running operation. *)
MoverRow ==
    pc \in MoverPc =>
        LET row == rows[cur.id] IN
        /\ row.state # "absent" /\ row.revision = cur.revision
        /\ cur.undo => /\ pc \in MovePc /\ row.state = "undoing"
                       /\ cur.to = row.source
        /\ ~cur.undo => cur.from = row.source /\ cur.to = row.destination
        /\ (~cur.undo /\ pc \in {"move_check", "move_rename", "copying"}) =>
              row.state = "approved"
        /\ pc \in {"stage", "copy", "set_sha", "publish"} => row.state = "copying"
        /\ pc \in {"retire_check", "unlink"} => row.state = "published"
        /\ pc \in MovePc => cur.digest = NoDigest
        /\ (pc \in {"publish", "verify", "retire_check", "unlink"}
            \/ (pc = "published" /\ cur.digest # NoDigest)) => row.sha256 # NoDigest

StoreRow ==
    /\ RootsKnown(roots) /\ RootsKnown(disk.roots)
    /\ QueueRow(proposals, roots) /\ QueueRow(disk.proposals, disk.roots)

QueueInv == StoreRow /\ MoverRow

-----------------------------------------------------------------------------
(* What a journal step may do to a row that was created before. *)
RowChange(row, new) ==
    \/ /\ new.state = row.state /\ new.revision = row.revision
       /\ new.source = row.source /\ new.destination = row.destination
    \/ /\ row.state # "absent" /\ new.revision = row.revision + 1
       /\ new.source = row.source
       /\ row.state = "needs_attention" => new.state = "needs_attention"
    \/ row.state \in TerminalState /\ new.state = "absent"

(* Every journal step treats old rows so, and ids only grow. *)
LEMMA RowChanges ==
  ASSUME JournalTypeOK, [JournalNext]_journalVars, NEW id \in Id, id < nextId
  PROVE  RowChange(rows[id], rows'[id]) /\ rows[id] \in Row /\ rows'[id] \in Row
<1>1. rows[id] \in Row /\ rows'[id] \in Row /\ RowStep(id)
  BY RowStepLemma, JournalTypeStep DEF JournalTypeOK
<1>2. id # nextId
  BY DEF JournalTypeOK, Id
<1>3. CASE \E s \in State :
          /\ rows[id].state # "absent" /\ allowed(rows[id].state, s)
          /\ rows'[id] = [rows[id] EXCEPT !.state = s, !.revision = rows[id].revision + 1,
                                          !.updated_at = clock]
  <2>1. PICK s \in State :
          /\ rows[id].state # "absent" /\ allowed(rows[id].state, s)
          /\ rows'[id] = [rows[id] EXCEPT !.state = s, !.revision = rows[id].revision + 1,
                                          !.updated_at = clock]
    BY <1>3
  <2>2. rows[id].state = "needs_attention" => s = "needs_attention"
    BY <2>1 DEF allowed
  <2>3. /\ rows'[id].state = s /\ rows'[id].revision = rows[id].revision + 1
        /\ rows'[id].source = rows[id].source
    BY <1>1, <2>1 DEF Row
  <2> QED
    BY <1>1, <2>1, <2>2, <2>3 DEF RowChange
<1>4. CASE rows[id].state \in TerminalState /\ rows'[id] = AbsentRow
  BY <1>1, <1>4, AbsentRowType DEF RowChange
<1> QED
  BY <1>1, <1>2, <1>3, <1>4 DEF RowStep, RowChange, Row

(* Ids only grow. *)
LEMMA IdsGrow ==
  ASSUME JournalTypeOK, [JournalNext]_journalVars
  PROVE  nextId \in Int /\ nextId' \in Int /\ nextId <= nextId'
<1>1. nextId' \in {nextId, nextId + 1}
  BY DEF JournalNext, journalVars, create, transition, revise_proposal, set_sha256,
         enforce_retention, set_clock
<1> QED
  BY <1>1, JournalAssumption DEF JournalTypeOK

(* Roots may be removed; those below the limit are never enrolled again. *)
RootsKept(old, new, limit) ==
    \A r \in RootId : r < limit => new[r] = old[r] \/ new[r].dir = NoDir

(* An entry agrees with its row after a step of the journal, a change of    *)
(* the roots, or both.                                                      *)
LEMMA EntryFrame ==
  ASSUME NEW p \in Proposal, NEW old, NEW new, NEW row \in Row, NEW row2 \in Row,
         NEW id, NEW idLimit, NEW limit,
         RowChange(row, row2), RootsKept(old, new, limit),
         EntryRow(p, old, row), EntryKnown(p, id, idLimit, limit)
  PROVE  EntryRow(p, new, row2)
<1> SUFFICES ASSUME p.status # "absent" PROVE EntryRow(p, new, row2)
  BY DEF EntryRow
<1>1. /\ p.source_root \in RootId /\ p.source_root < limit /\ p.destination < limit
  BY DEF EntryKnown
<1>2. p.revision \in Nat /\ row.revision \in Nat /\ row2.revision \in Nat
  BY JournalAssumption DEF Proposal, Row
<1>3. /\ new[p.source_root].dir # NoDir => new[p.source_root] = old[p.source_root]
      /\ (p.destination \in RootId /\ new[p.destination].dir # NoDir) =>
            new[p.destination] = old[p.destination]
  BY <1>1 DEF RootsKept
<1>4. CASE /\ row2.state = row.state /\ row2.revision = row.revision
           /\ row2.source = row.source /\ row2.destination = row.destination
  BY <1>2, <1>3, <1>4 DEF EntryRow
<1>5. CASE /\ row.state # "absent" /\ row2.revision = row.revision + 1
           /\ row2.source = row.source
           /\ row.state = "needs_attention" => row2.state = "needs_attention"
  BY <1>2, <1>3, <1>5 DEF EntryRow
<1>6. CASE row.state \in TerminalState /\ row2.state = "absent"
  BY <1>6 DEF EntryRow, TerminalState
<1> QED
  BY <1>4, <1>5, <1>6 DEF RowChange

(* The same for an entry of the queue in memory or in state.json. *)
LEMMA KeptEntry ==
  ASSUME Inv, [JournalNext]_journalVars, nextRoot' \in Int, nextRoot <= nextRoot',
         NEW id \in Id, NEW p \in Proposal, NEW old, NEW new,
         RootsKept(old, new, nextRoot),
         EntryRow(p, old, rows[id]), EntryKnown(p, id, nextId, nextRoot)
  PROVE  EntryRow(p, new, rows'[id]) /\ EntryKnown(p, id, nextId', nextRoot')
<1> SUFFICES ASSUME p.status # "absent"
             PROVE  EntryRow(p, new, rows'[id]) /\ EntryKnown(p, id, nextId', nextRoot')
  BY DEF EntryRow, EntryKnown
<1>1. id < nextId
  BY DEF EntryKnown
<1>2. RowChange(rows[id], rows'[id]) /\ rows[id] \in Row /\ rows'[id] \in Row
  BY <1>1, RowChanges DEF Inv
<1>3. EntryRow(p, new, rows'[id])
  BY <1>2, EntryFrame
<1>4. nextId \in Int /\ nextId' \in Int /\ nextId <= nextId' /\ id \in Int /\ nextRoot \in Int
  BY IdsGrow DEF Inv, Id, StoreOK
<1>5. p.source_root \in Int /\ p.destination \in Int
  BY ServiceAssumption DEF Proposal, RootId, NoRoot
<1>6. EntryKnown(p, id, nextId', nextRoot')
  BY <1>4, <1>5 DEF EntryKnown
<1> QED
  BY <1>3, <1>6

(* state.json stays in step with the journal while nothing is saved. *)
LEMMA DiskFrame ==
  ASSUME Inv, StoreRow, [JournalNext]_journalVars, nextRoot' \in Int, nextRoot <= nextRoot',
         disk' = disk
  PROVE  QueueRow(disk.proposals, disk.roots)' /\ RootsKnown(disk.roots)'
<1>1. \A id \in Id : disk.proposals[id] \in Proposal
  BY DEF Inv, StoreOK, QueueOK
<1>2. RootsKept(disk.roots, disk.roots, nextRoot)
  BY DEF RootsKept
<1>3. ASSUME NEW id \in Id
      PROVE  /\ EntryRow(disk.proposals[id], disk.roots, rows'[id])
             /\ EntryKnown(disk.proposals[id], id, nextId', nextRoot')
  <2>1. /\ EntryRow(disk.proposals[id], disk.roots, rows[id])
        /\ EntryKnown(disk.proposals[id], id, nextId, nextRoot)
    BY DEF StoreRow, QueueRow
  <2> QED
    BY <1>1, <1>2, <2>1, KeptEntry
<1>4. QueueRow(disk.proposals, disk.roots)'
  BY <1>3 DEF QueueRow
<1>5. RootsKnown(disk.roots)'
  BY ServiceAssumption DEF RootsKnown, StoreRow, Inv, StoreOK, RootId
<1> QED
  BY <1>4, <1>5

(* The queue in memory: entries go, stay, or one of them becomes p. *)
LEMMA QueueChange ==
  ASSUME Inv, StoreRow, [JournalNext]_journalVars, nextRoot' \in Int, nextRoot <= nextRoot',
         RootsKept(roots, roots', nextRoot),
         NEW id, NEW p,
         \A j \in Id : \/ proposals'[j].status = "absent"
                       \/ proposals'[j] = proposals[j]
                       \/ j = id /\ proposals'[j] = p,
         id \in Id => /\ EntryRow(p, roots', rows'[id])
                      /\ EntryKnown(p, id, nextId', nextRoot')
  PROVE  QueueRow(proposals, roots)'
<1>1. \A j \in Id : proposals[j] \in Proposal
  BY DEF Inv, StoreOK, QueueOK
<1>2. ASSUME NEW j \in Id
      PROVE  /\ EntryRow(proposals'[j], roots', rows'[j])
             /\ EntryKnown(proposals'[j], j, nextId', nextRoot')
  <2>1. CASE proposals'[j].status = "absent"
    BY <2>1 DEF EntryRow, EntryKnown
  <2>2. CASE proposals'[j] = proposals[j]
    <3>1. /\ EntryRow(proposals[j], roots, rows[j])
          /\ EntryKnown(proposals[j], j, nextId, nextRoot)
      BY DEF StoreRow, QueueRow
    <3> QED
      BY <1>1, <2>2, <3>1, KeptEntry
  <2>3. CASE j = id /\ proposals'[j] = p
    BY <2>3
  <2> QED
    BY <2>1, <2>2, <2>3
<1> QED
  BY <1>2 DEF QueueRow

(* A step that changes the queue but neither the roots nor state.json. *)
LEMMA QueueStepRow ==
  ASSUME Inv, StoreRow, [JournalNext]_journalVars, UNCHANGED <<roots, disk, nextRoot>>,
         NEW id, NEW p,
         \A j \in Id : \/ proposals'[j].status = "absent"
                       \/ proposals'[j] = proposals[j]
                       \/ j = id /\ proposals'[j] = p,
         id \in Id => /\ EntryRow(p, roots, rows'[id])
                      /\ EntryKnown(p, id, nextId', nextRoot)
  PROVE  StoreRow'
<1>1. nextRoot' \in Int /\ nextRoot <= nextRoot' /\ RootsKept(roots, roots', nextRoot)
  BY DEF Inv, StoreOK, RootsKept
<1>2. QueueRow(proposals, roots)'
  BY <1>1, QueueChange
<1>3. RootsKnown(roots)'
  BY DEF StoreRow, RootsKnown
<1> QED
  BY <1>1, <1>2, <1>3, DiskFrame DEF StoreRow

(* A step that changes none of them. *)
LEMMA StoreRowFrame ==
  ASSUME Inv, StoreRow, [JournalNext]_journalVars, UNCHANGED <<proposals, roots, disk, nextRoot>>
  PROVE  StoreRow'
<1>1. 0 \notin Id
  BY DEF Id
<1>2. \A j \in Id : proposals'[j] = proposals[j]
  OBVIOUS
<1> QED
  BY <1>1, <1>2, QueueStepRow

-----------------------------------------------------------------------------
(* The entry that follows its row through a transition. *)
LEMMA TransitionRow ==
  ASSUME Inv, StoreRow, NEW id \in Id, NEW v, NEW s \in State, transition(id, v, s),
         proposals[id].status # "absent",
         NEW p, p.status = StatusOf(s), p.revision = v + 1,
         p.source_root = proposals[id].source_root,
         p.source_relative = proposals[id].source_relative,
         p.destination = proposals[id].destination
  PROVE  EntryRow(p, roots, rows'[id]) /\ EntryKnown(p, id, nextId', nextRoot)
<1>1. /\ rows[id] \in Row /\ rows[id].state # "absent" /\ rows[id].revision = v
      /\ allowed(rows[id].state, s)
      /\ rows'[id] = [rows[id] EXCEPT !.state = s, !.revision = v + 1, !.updated_at = clock]
      /\ nextId' = nextId
  BY DEF transition, can_transition, Inv, JournalTypeOK
<1>2. s # "proposed" /\ (StatusOf(s) = "needs_attention" => s = "needs_attention")
  BY <1>1 DEF allowed, StatusOf
<1>3. /\ rows'[id].state = s /\ rows'[id].revision = v + 1
      /\ rows'[id].source = rows[id].source
  BY <1>1 DEF Row
<1>4. /\ EntryRow(proposals[id], roots, rows[id])
      /\ EntryKnown(proposals[id], id, nextId, nextRoot)
  BY DEF StoreRow, QueueRow
<1>5. v + 1 \in Int
  BY <1>1 DEF Row
<1>6. EntryRow(p, roots, rows'[id])
  BY <1>1, <1>2, <1>3, <1>4, <1>5 DEF EntryRow
<1>7. EntryKnown(p, id, nextId', nextRoot)
  BY <1>1, <1>4 DEF EntryKnown
<1> QED
  BY <1>6, <1>7

(* The entry that follows its row through a change of destination. *)
LEMMA ReviseRow ==
  ASSUME Inv, StoreRow, NEW id \in Id, NEW v, NEW d, revise_proposal(id, v, d),
         proposal_index(id, v),
         NEW p, p.status = proposals[id].status, p.revision = v + 1,
         p.source_root = proposals[id].source_root,
         p.source_relative = proposals[id].source_relative,
         is_destination(p.destination),
         d = <<roots[p.destination].dir, p.destination_name>>
  PROVE  EntryRow(p, roots, rows'[id]) /\ EntryKnown(p, id, nextId', nextRoot)
<1>1. /\ rows[id] \in Row /\ rows[id].state = "proposed" /\ rows[id].revision = v
      /\ rows'[id] = [rows[id] EXCEPT !.destination = d, !.revision = v + 1,
                                      !.updated_at = clock]
      /\ nextId' = nextId
  BY DEF revise_proposal, Inv, JournalTypeOK
<1>2. /\ rows'[id].state = "proposed" /\ rows'[id].revision = v + 1
      /\ rows'[id].source = rows[id].source /\ rows'[id].destination = d
  BY <1>1 DEF Row
<1>3. /\ EntryRow(proposals[id], roots, rows[id])
      /\ EntryKnown(proposals[id], id, nextId, nextRoot)
  BY DEF StoreRow, QueueRow
<1>4. proposals[id].status = "proposed" /\ v + 1 \in Int
  BY <1>1, <1>3 DEF EntryRow, proposal_index, StatusOf, Row
<1>5. EntryRow(p, roots, rows'[id])
  BY <1>1, <1>2, <1>3, <1>4 DEF EntryRow, StatusOf
<1>6. p.destination < nextRoot
  BY DEF is_destination, registered, StoreRow, RootsKnown
<1>7. EntryKnown(p, id, nextId', nextRoot)
  BY <1>1, <1>3, <1>4, <1>6 DEF EntryKnown
<1> QED
  BY <1>5, <1>7

(* What pruning does to an entry. *)
LEMMA PruneEntry ==
  ASSUME NEW queue, NEW j \in Id
  PROVE  \/ prune_terminal_proposals(queue)[j].status = "absent"
         \/ prune_terminal_proposals(queue)[j] = queue[j]
<1> DEFINE gone == {id \in Id : /\ queue[id].status \in TerminalStatus
                                /\ Cardinality({k \in {i \in Id : queue[i].status \in TerminalStatus} : k >= id})
                                      > MAX_TERMINAL_PROPOSALS}
<1>1. prune_terminal_proposals(queue) =
        [id \in Id |-> IF id \in gone THEN AbsentProposal ELSE queue[id]]
  BY DEF prune_terminal_proposals
<1> HIDE DEF gone
<1> QED
  BY <1>1, AbsentProposalType

(* A transition that settles its entry: ignore, and the end of a move or undo. *)
LEMMA SettleRow ==
  ASSUME Inv, StoreRow, NEW id \in Id, NEW v, NEW s \in State \ {"approved"},
         transition(id, v, s), [JournalNext]_journalVars,
         proposals[id].status # "absent", settle(id, v, s),
         UNCHANGED <<roots, disk, nextRoot>>
  PROVE  StoreRow'
<1> DEFINE p == [proposals[id] EXCEPT !.revision = v + 1, !.status = s]
           queue == [proposals EXCEPT ![id] = p]
<1>1. proposals[id] \in Proposal /\ proposals \in [Id -> Proposal]
  BY DEF Inv, StoreOK, QueueOK
<1>2. /\ p.status = s /\ p.revision = v + 1
      /\ p.source_root = proposals[id].source_root
      /\ p.source_relative = proposals[id].source_relative
      /\ p.destination = proposals[id].destination
  BY <1>1 DEF Proposal
<1>3. proposals' = prune_terminal_proposals(queue)
  BY DEF settle
<1>4. s = StatusOf(s)
  BY DEF StatusOf
<1> HIDE DEF p
<1>5. \A j \in Id : queue[j] = proposals[j] \/ (j = id /\ queue[j] = p)
  BY <1>1
<1>6. EntryRow(p, roots, rows'[id]) /\ EntryKnown(p, id, nextId', nextRoot)
  BY <1>2, <1>4, TransitionRow
<1> HIDE DEF queue
<1>7. \A j \in Id : \/ proposals'[j].status = "absent"
                    \/ proposals'[j] = proposals[j]
                    \/ j = id /\ proposals'[j] = p
  BY <1>3, <1>5, PruneEntry
<1> QED
  BY <1>6, <1>7, QueueStepRow

-----------------------------------------------------------------------------
(* Where no operation of the mover runs. *)
QuietPc == Pc \ MoverPc

(* There MoverRow says nothing. *)
LEMMA NotMoving == ASSUME pc' \in QuietPc PROVE MoverRow'
  BY DEF QuietPc, MoverRow

(* The values of pc outside the mover. *)
LEMMA QuietPcs ==
  QuietPc = StorePc \cup {"idle", "down", "recover", "recover_save"}
  BY DEF QuietPc, Pc, OperationPc, StorePc, MoverPc, MovePc, CopyPc, JournalPc

(* Steps that change neither the queue nor the roots, outside the mover. *)
LEMMA QuietSteps ==
  ASSUME Inv, QueueInv, [JournalNext]_journalVars,
         \/ \E b \in BOOLEAN : set_paused(b)
         \/ configure_agent \/ \E id \in Id : create_rule_from_proposal(id)
         \/ scan_once \/ scan_pause \/ scan_end
         \/ \E r \in RootId : scan_root(r)
         \/ \E n \in Name : scan_skip(n)
         \/ enforce_journal_retention \/ operation_error \/ recover_end
  PROVE  QueueInv'
<1>1. UNCHANGED <<proposals, roots, disk, nextRoot>>
  BY DEF set_paused, configure_agent, create_rule_from_proposal, scan_once, scan_pause,
         scan_end, scan_root, scan_skip, enforce_journal_retention, operation_error,
         recover_end, queueVars
<1>2. pc' \in StorePc \cup {"idle", "recover_save"}
  BY DEF set_paused, configure_agent, create_rule_from_proposal, scan_once, scan_pause,
         scan_end, scan_root, scan_skip, enforce_journal_retention, operation_error,
         recover_end, leave, goto, StorePc
<1>3. StoreRow'
  BY <1>1, StoreRowFrame DEF QueueInv
<1>4. MoverRow'
  BY <1>2, QuietPcs, NotMoving
<1> QED
  BY <1>3, <1>4 DEF QueueInv

(* Saving: state.json becomes what memory holds. *)
LEMMA SaveRow == ASSUME Inv, QueueInv, save PROVE QueueInv'
<1>1. /\ UNCHANGED <<journalVars, queueVars, nextRoot>>
      /\ disk' = [proposals |-> proposals, roots |-> roots, paused |-> paused]
      /\ pc' \in {"choose", "idle"}
  BY DEF save, leave
<1>2. QueueRow(proposals, roots)' /\ RootsKnown(roots)'
  BY <1>1 DEF QueueInv, StoreRow, QueueRow, RootsKnown, queueVars, journalVars
<1>3. disk'.proposals = proposals' /\ disk'.roots = roots'
  BY <1>1 DEF queueVars
<1>4. QueueRow(disk.proposals, disk.roots)' /\ RootsKnown(disk.roots)'
  BY <1>2, <1>3 DEF QueueRow, RootsKnown
<1>5. MoverRow'
  BY <1>1, QuietPcs, NotMoving DEF StorePc
<1> QED
  BY <1>2, <1>4, <1>5 DEF QueueInv, StoreRow

(* Enrolling a folder takes a root id that no entry refers to. *)
LEMMA PushRootRow ==
  ASSUME Inv, StoreRow, NEW d, NEW w, NEW t, push_root(d, w, t), UNCHANGED journalVars,
         UNCHANGED <<proposals, disk>>
  PROVE  StoreRow'
<1>1. nextRoot \in RootId /\ nextRoot' = nextRoot + 1
      /\ roots' = [roots EXCEPT ![nextRoot] = [dir |-> d, watched |-> w, destination |-> t]]
  BY DEF push_root
<1>2. nextRoot' \in Int /\ nextRoot <= nextRoot' /\ \A r \in RootId : r \in Int
  BY <1>1, ServiceAssumption DEF RootId
<1>3. RootsKept(roots, roots', nextRoot)
  BY <1>1, <1>2 DEF RootsKept, Inv, StoreOK
<1>4. 0 \notin Id /\ \A j \in Id : proposals'[j] = proposals[j]
  BY DEF Id
<1>5. QueueRow(proposals, roots)'
  BY <1>2, <1>3, <1>4, QueueChange
<1>6. RootsKnown(roots)'
  BY <1>1, <1>2 DEF RootsKnown, StoreRow, Inv, StoreOK
<1> QED
  BY <1>2, <1>5, <1>6, DiskFrame DEF StoreRow

(* Enrolling a folder on request. *)
LEMMA AddRootRow ==
  ASSUME Inv, QueueInv, NEW d \in Dir, NEW w \in BOOLEAN, NEW t \in BOOLEAN, add_root(d, w, t)
  PROVE  QueueInv'
<1>1. push_root(d, w, t) /\ UNCHANGED <<journalVars, proposals, disk>> /\ pc' = "save"
  BY DEF add_root, leave
<1>2. StoreRow'
  BY <1>1, PushRootRow DEF QueueInv
<1> QED
  BY <1>1, <1>2, QuietPcs, NotMoving DEF QueueInv, StorePc

(* Removing a root. *)
LEMMA RemoveRootRow ==
  ASSUME Inv, QueueInv, NEW r \in RootId, remove_root(r)
  PROVE  QueueInv'
<1>1. /\ roots' = [roots EXCEPT ![r] = NoRootEntry]
      /\ UNCHANGED <<journalVars, proposals, disk, nextRoot>> /\ pc' = "save"
  BY DEF remove_root, leave
<1>2. nextRoot' \in Int /\ nextRoot <= nextRoot'
  BY <1>1 DEF Inv, StoreOK
<1>3. \A q \in RootId : roots'[q] = roots[q] \/ roots'[q].dir = NoDir
  BY <1>1 DEF NoRootEntry, Inv, StoreOK
<1>4. RootsKept(roots, roots', nextRoot)
  BY <1>3 DEF RootsKept
<1>5. 0 \notin Id /\ \A j \in Id : proposals'[j] = proposals[j]
  BY <1>1 DEF Id
<1>6. QueueRow(proposals, roots)'
  BY <1>1, <1>2, <1>4, <1>5, QueueChange DEF QueueInv
<1>7. RootsKnown(roots)'
  BY <1>1, <1>3 DEF RootsKnown, QueueInv, StoreRow
<1>8. StoreRow'
  BY <1>1, <1>2, <1>6, <1>7, DiskFrame DEF QueueInv, StoreRow
<1> QED
  BY <1>1, <1>8, QuietPcs, NotMoving DEF QueueInv, StorePc

-----------------------------------------------------------------------------
(* Choosing a destination: the row gets the raw name, the entry the lossy one. *)
LEMMA ChooseRow ==
  ASSUME Utf8Names, Inv, QueueInv, [JournalNext]_journalVars,
         NEW id \in Id, NEW v \in 0..MaxRevision, NEW r \in RootId,
         choose_destination(id, v, r)
  PROVE  QueueInv'
<1> DEFINE name == proposals[id].source_relative
           p == [proposals[id] EXCEPT !.revision = v + 1, !.destination = r,
                                      !.destination_name = Lossy[name]]
<1>1. /\ UNCHANGED <<roots, disk, nextRoot>> /\ pc' = "save"
      /\ proposal_index(id, v) /\ is_destination(r)
      /\ revise_proposal(id, v, <<roots[r].dir, name>>)
      /\ proposals' = [proposals EXCEPT ![id] = p]
  BY DEF choose_destination, leave
<1>2. proposals[id] \in Proposal /\ name \in Name /\ proposals \in [Id -> Proposal]
  BY <1>1, EntryNamed DEF Inv, proposal_index, StoreOK, QueueOK
<1>3. /\ p.status = proposals[id].status /\ p.revision = v + 1
      /\ p.source_root = proposals[id].source_root
      /\ p.source_relative = proposals[id].source_relative
      /\ p.destination = r /\ p.destination_name = name
  BY <1>2 DEF Proposal, Utf8Names
<1> HIDE DEF p
<1>4. EntryRow(p, roots, rows'[id]) /\ EntryKnown(p, id, nextId', nextRoot)
  BY <1>1, <1>3, ReviseRow DEF QueueInv
<1>5. \A j \in Id : proposals'[j] = proposals[j] \/ (j = id /\ proposals'[j] = p)
  BY <1>1, <1>2
<1>6. StoreRow'
  BY <1>1, <1>4, <1>5, QueueStepRow DEF QueueInv
<1> QED
  BY <1>1, <1>6, QuietPcs, NotMoving DEF QueueInv, StorePc

(* Choosing a folder, enrolled already or enrolled first. *)
LEMMA ChoosePathRow ==
  ASSUME Utf8Names, Inv, QueueInv, [JournalNext]_journalVars,
         NEW id \in Id, NEW v \in 0..MaxRevision, NEW d \in Dir,
         choose_destination_path(id, v, d)
  PROVE  QueueInv'
<1>1. CASE \E r \in RootId : choose_destination(id, v, r)
  BY <1>1, ChooseRow
<1>2. CASE /\ push_root(d, FALSE, TRUE) /\ pc' = "choose_root"
           /\ UNCHANGED <<journalVars, proposals, disk>>
  <2>1. StoreRow'
    BY <1>2, PushRootRow DEF QueueInv
  <2> QED
    BY <1>2, <2>1, QuietPcs, NotMoving DEF QueueInv, StorePc
<1> QED
  BY <1>1, <1>2 DEF choose_destination_path

(* Renaming. *)
LEMMA RenameRow ==
  ASSUME Inv, QueueInv, [JournalNext]_journalVars,
         NEW id \in Id, NEW v \in 0..MaxRevision, NEW n \in Name, rename(id, v, n)
  PROVE  QueueInv'
<1> DEFINE p == [proposals[id] EXCEPT !.revision = v + 1, !.destination_name = n]
<1>1. /\ UNCHANGED <<roots, disk, nextRoot>> /\ pc' = "save"
      /\ proposal_index(id, v) /\ is_destination(proposals[id].destination)
      /\ revise_proposal(id, v, <<roots[proposals[id].destination].dir, n>>)
      /\ proposals' = [proposals EXCEPT ![id] = p]
  BY DEF rename, leave
<1>2. proposals[id] \in Proposal /\ proposals \in [Id -> Proposal]
  BY DEF Inv, StoreOK, QueueOK
<1>3. /\ p.status = proposals[id].status /\ p.revision = v + 1
      /\ p.source_root = proposals[id].source_root
      /\ p.source_relative = proposals[id].source_relative
      /\ p.destination = proposals[id].destination /\ p.destination_name = n
  BY <1>2 DEF Proposal
<1> HIDE DEF p
<1>4. EntryRow(p, roots, rows'[id]) /\ EntryKnown(p, id, nextId', nextRoot)
  BY <1>1, <1>3, ReviseRow DEF QueueInv
<1>5. \A j \in Id : proposals'[j] = proposals[j] \/ (j = id /\ proposals'[j] = p)
  BY <1>1, <1>2
<1>6. StoreRow'
  BY <1>1, <1>4, <1>5, QueueStepRow DEF QueueInv
<1> QED
  BY <1>1, <1>6, QuietPcs, NotMoving DEF QueueInv, StorePc

(* Ignoring. *)
LEMMA IgnoreRow ==
  ASSUME Inv, QueueInv, [JournalNext]_journalVars,
         NEW id \in Id, NEW v \in 0..MaxRevision, ignore(id, v)
  PROVE  QueueInv'
<1>1. /\ UNCHANGED <<roots, disk, nextRoot>> /\ pc' = "retention"
      /\ proposals[id].status # "absent"
      /\ transition(id, v, "ignored") /\ settle(id, v, "ignored")
  BY DEF ignore, leave, proposal_index
<1>2. StoreRow'
  BY <1>1, SettleRow DEF QueueInv, State, TerminalState
<1> QED
  BY <1>1, <1>2, QuietPcs, NotMoving DEF QueueInv, StorePc

(* The last commit of a move or of an undo. *)
LEMMA FinishRow ==
  ASSUME Inv, QueueInv, [JournalNext]_journalVars, finish_approve \/ finish_undo
  PROVE  QueueInv'
<1>1. PICK state \in {"completed", "undone"} :
         transition(cur.id, cur.revision, state) /\ settle(cur.id, cur.revision, state)
  BY DEF finish_approve, finish_undo, finish
<1>2. /\ pc \in {"completed", "undone"} /\ pc' = "retention"
      /\ UNCHANGED <<roots, disk, nextRoot>>
  BY DEF finish_approve, finish_undo, finish, leave
<1>3. cur.id \in Id /\ proposals[cur.id].status # "absent"
  BY <1>2 DEF Inv, OperationOK, MoverPc, MovePc, JournalPc
<1>4. StoreRow'
  BY <1>1, <1>2, <1>3, SettleRow DEF QueueInv, State, TerminalState
<1> QED
  BY <1>2, <1>4, QuietPcs, NotMoving DEF QueueInv, StorePc

(* A new proposal. *)
LEMMA ConsiderRow ==
  ASSUME Utf8Names, Inv, QueueInv, [JournalNext]_journalVars,
         NEW n \in Name, NEW c \in RootId \cup {NoRoot}, consider(n, c)
  PROVE  QueueInv'
<1> DEFINE path == <<roots[scan.root].dir, n>>
           p == [status |-> "proposed", revision |-> 1,
                 source_root |-> scan.root, source_relative |-> n,
                 destination |-> c, destination_name |-> Lossy[n],
                 identity |-> identity_fd(entry[path])]
<1>1. /\ UNCHANGED <<roots, disk, nextRoot, pc>> /\ pc = "scan" /\ n \in scan.files
      /\ c \in decision
      /\ create(nextId, path, destination_path_for(c, n))
      /\ proposals' = [proposals EXCEPT ![nextId] = p]
  BY DEF consider
<1>2. registered(scan.root) /\ scan.root \in RootId /\ scan.root < nextRoot
  BY <1>1 DEF Inv, ScanOK, registered, QueueInv, StoreRow, RootsKnown
<1>3. c < nextRoot
  BY <1>1 DEF decision, NoRoot, Inv, StoreOK
<1>4. /\ nextId \in Id /\ nextId' = nextId + 1 /\ rows'[nextId].state = "proposed"
      /\ rows'[nextId].revision = 1 /\ rows'[nextId].source = path
      /\ rows'[nextId].destination = destination_path_for(c, n)
  BY <1>1 DEF create, Inv, JournalTypeOK
<1>5. p.destination_name = n
  BY DEF Utf8Names
<1>6. EntryRow(p, roots, rows'[nextId])
  BY <1>4, <1>5
     DEF EntryRow, StatusOf, destination_path_for, is_destination, registered
<1>7. EntryKnown(p, nextId, nextId', nextRoot)
  BY <1>2, <1>3, <1>4 DEF EntryKnown, Id
<1> HIDE DEF p
<1>8. \A j \in Id : proposals'[j] = proposals[j] \/ (j = nextId /\ proposals'[j] = p)
  BY <1>1 DEF Inv, StoreOK, QueueOK
<1>9. StoreRow'
  BY <1>1, <1>6, <1>7, <1>8, QueueStepRow DEF QueueInv
<1> QED
  BY <1>1, <1>9, QuietPcs, NotMoving DEF QueueInv, StorePc

(* Opening the store. *)
LEMMA OpenRow == ASSUME Inv, QueueInv, [JournalNext]_journalVars, open PROVE QueueInv'
<1>1. /\ UNCHANGED <<roots, disk, nextRoot>> /\ pc' = "recover"
      /\ proposals' = prune_terminal_proposals(proposals)
  BY DEF open
<1>2. 0 \notin Id /\ \A j \in Id : proposals'[j].status = "absent" \/ proposals'[j] = proposals[j]
  BY <1>1, PruneEntry DEF Id
<1>3. StoreRow'
  BY <1>1, <1>2, QueueStepRow DEF QueueInv
<1> QED
  BY <1>1, <1>3, QuietPcs, NotMoving DEF QueueInv

(* Recovery of one row. *)
LEMMA RecoverRow ==
  ASSUME Inv, QueueInv, [JournalNext]_journalVars, NEW id \in Id, recover_entry(id)
  PROVE  QueueInv'
<1>1. UNCHANGED <<roots, disk, nextRoot>> /\ pc' = "recover"
  BY DEF recover_entry
<1>2. CASE UNCHANGED <<journalVars, proposals>>
  BY <1>1, <1>2, StoreRowFrame, QuietPcs, NotMoving DEF QueueInv
<1>3. CASE \E s \in {"completed", "needs_attention"} :
              transition(id, rows[id].revision, s) /\ recovered(id, s)
  <2>1. PICK s \in {"completed", "needs_attention"} :
              transition(id, rows[id].revision, s) /\ recovered(id, s)
    BY <1>3
  <2>2. CASE proposals[id].status = "absent"
    <3>1. proposals' = proposals
      BY <2>1, <2>2 DEF recovered
    <3> QED
      BY <1>1, <3>1, StoreRowFrame, QuietPcs, NotMoving DEF QueueInv
  <2>3. CASE proposals[id].status # "absent"
    <3> DEFINE p == [proposals[id] EXCEPT !.revision = rows[id].revision + 1, !.status = s]
    <3>1. proposals' = [proposals EXCEPT ![id] = p]
      BY <2>1, <2>3 DEF recovered
    <3>2. proposals[id] \in Proposal /\ proposals \in [Id -> Proposal]
      BY DEF Inv, StoreOK, QueueOK
    <3>3. /\ p.status = s /\ p.revision = rows[id].revision + 1
          /\ p.source_root = proposals[id].source_root
          /\ p.source_relative = proposals[id].source_relative
          /\ p.destination = proposals[id].destination
      BY <3>2 DEF Proposal
    <3>4. s \in State /\ s = StatusOf(s)
      BY <2>1 DEF State, ActiveState, TerminalState, StatusOf
    <3> HIDE DEF p
    <3>5. EntryRow(p, roots, rows'[id]) /\ EntryKnown(p, id, nextId', nextRoot)
      BY <2>1, <2>3, <3>3, <3>4, TransitionRow DEF QueueInv
    <3>6. \A j \in Id : proposals'[j] = proposals[j] \/ (j = id /\ proposals'[j] = p)
      BY <3>1, <3>2
    <3>7. StoreRow'
      BY <1>1, <3>5, <3>6, QueueStepRow DEF QueueInv
    <3> QED
      BY <1>1, <3>7, QuietPcs, NotMoving DEF QueueInv
  <2> QED
    BY <2>2, <2>3
<1> QED
  BY <1>2, <1>3 DEF recover_entry

(* A crash: memory becomes what state.json holds. *)
LEMMA CrashRow == ASSUME Inv, QueueInv, crash PROVE QueueInv'
<1>1. /\ proposals' = disk.proposals /\ roots' = disk.roots /\ pc' = "down"
      /\ UNCHANGED <<journalVars, disk, nextRoot>>
  BY DEF crash, leave
<1>2. QueueRow(disk.proposals, disk.roots)' /\ RootsKnown(disk.roots)'
  BY <1>1 DEF QueueInv, StoreRow, QueueRow, RootsKnown, journalVars
<1>3. QueueRow(proposals, roots)' /\ RootsKnown(roots)'
  BY <1>1, <1>2 DEF QueueRow, RootsKnown
<1> QED
  BY <1>1, <1>2, <1>3, QuietPcs, NotMoving DEF QueueInv, StoreRow

-----------------------------------------------------------------------------
(* approve: the entry resolves to the very paths that the row names. *)
LEMMA ApproveRow ==
  ASSUME Inv, QueueInv, [JournalNext]_journalVars,
         NEW id \in Id, NEW v \in 0..MaxRevision, approve(id, v)
  PROVE  QueueInv'
<1> DEFINE p == [proposals[id] EXCEPT !.revision = v + 1]
<1>1. /\ UNCHANGED <<roots, disk, nextRoot>>
      /\ pc' \in {"move_check", "copying"}
      /\ proposals[id].status # "absent" /\ proposals[id].revision = v
      /\ is_destination(proposals[id].destination) /\ is_watched(proposals[id].source_root)
      /\ transition(id, v, "approved")
      /\ proposals' = [proposals EXCEPT ![id] = p]
  BY DEF approve, proposal_index
<1>2. proposals[id] \in Proposal /\ proposals \in [Id -> Proposal]
  BY DEF Inv, StoreOK, QueueOK
<1>3. /\ rows[id] \in Row /\ rows[id].state = "proposed" /\ rows[id].revision = v
      /\ rows' = [rows EXCEPT ![id] = [rows[id] EXCEPT !.state = "approved",
                                         !.revision = v + 1, !.updated_at = clock]]
  BY <1>1 DEF transition, can_transition, allowed, Inv, JournalTypeOK
<1>4. EntryRow(proposals[id], roots, rows[id])
  BY DEF QueueInv, StoreRow, QueueRow
<1>5. /\ proposals[id].status = "proposed"
      /\ rows[id].source = source_path(id) /\ rows[id].destination = destination_path(id)
  BY <1>1, <1>3, <1>4
     DEF EntryRow, StatusOf, source_path, destination_path, is_destination, is_watched, registered
<1>6. /\ p.status = "proposed" /\ p.revision = v + 1
      /\ p.source_root = proposals[id].source_root
      /\ p.source_relative = proposals[id].source_relative
      /\ p.destination = proposals[id].destination
  BY <1>2, <1>5 DEF Proposal
<1> HIDE DEF p
<1>7. EntryRow(p, roots, rows'[id]) /\ EntryKnown(p, id, nextId', nextRoot)
  BY <1>1, <1>6, TransitionRow DEF QueueInv, StatusOf, State, ActiveState
<1>8. \A j \in Id : proposals'[j] = proposals[j] \/ (j = id /\ proposals'[j] = p)
  BY <1>1, <1>2
<1>9. StoreRow'
  BY <1>1, <1>7, <1>8, QueueStepRow DEF QueueInv
<1>10. /\ cur'.id = id /\ cur'.revision = v + 1 /\ cur'.from = source_path(id)
       /\ cur'.to = destination_path(id) /\ cur'.undo = FALSE /\ cur'.digest = NoDigest
  BY DEF approve, NoOperation
<1>11. /\ rows'[id].state = "approved" /\ rows'[id].revision = v + 1
       /\ rows'[id].source = rows[id].source /\ rows'[id].destination = rows[id].destination
  BY <1>3 DEF Row, Inv, JournalTypeOK
<1>12. MoverRow'
  BY <1>1, <1>5, <1>10, <1>11 DEF MoverRow, MovePc
<1> QED
  BY <1>9, <1>12 DEF QueueInv

(* undo: the entry resolves to the source that the row names. *)
LEMMA UndoRow ==
  ASSUME Inv, QueueInv, [JournalNext]_journalVars,
         NEW id \in Id, NEW v \in 0..MaxRevision, undo(id, v)
  PROVE  QueueInv'
<1>1. /\ UNCHANGED <<proposals, roots, disk, nextRoot>> /\ pc' = "move_check"
      /\ proposals[id].status # "absent" /\ registered(proposals[id].source_root)
      /\ transition(id, v, "undoing")
  BY DEF undo, proposal_index, queueVars
<1>2. StoreRow'
  BY <1>1, StoreRowFrame DEF QueueInv
<1>3. /\ rows[id] \in Row /\ rows[id].state # "absent"
      /\ rows' = [rows EXCEPT ![id] = [rows[id] EXCEPT !.state = "undoing",
                                         !.revision = v + 1, !.updated_at = clock]]
  BY <1>1 DEF transition, can_transition, Inv, JournalTypeOK
<1>4. rows[id].source = source_path(id)
  BY <1>1, <1>3 DEF QueueInv, StoreRow, QueueRow, EntryRow, source_path, registered
<1>5. /\ rows'[id].state = "undoing" /\ rows'[id].revision = v + 1
      /\ rows'[id].source = rows[id].source
  BY <1>3 DEF Row, Inv, JournalTypeOK
<1>6. /\ cur'.id = id /\ cur'.revision = v + 1 /\ cur'.to = source_path(id)
      /\ cur'.undo = TRUE /\ cur'.digest = NoDigest
  BY DEF undo, NoOperation
<1>7. MoverRow'
  BY <1>1, <1>4, <1>5, <1>6 DEF MoverRow, MovePc
<1> QED
  BY <1>2, <1>7 DEF QueueInv

(* The steps of the mover that leave the journal and the operation alone. *)
LEMMA MoverKeepsRow ==
  ASSUME Inv, QueueInv,
         \/ move_check \/ move_rename \/ move_verify \/ stage_create
         \/ publish_stage \/ verify \/ retire_check \/ retire_unlink
  PROVE  QueueInv'
<1>1. UNCHANGED <<journalVars, cur>> /\ unchangedByMover
  BY DEF move_check, move_rename, move_verify, stage_create, publish_stage, verify,
         retire_check, retire_unlink
<1>2. UNCHANGED <<proposals, roots, disk, nextRoot, rows, cur>>
  BY <1>1 DEF unchangedByMover, queueVars, journalVars
<1>3. \/ pc = "move_check" /\ pc' = "move_rename"
      \/ pc = "move_rename" /\ pc' = "move_verify"
      \/ pc = "move_verify" /\ pc' = "undone" /\ cur.undo
      \/ pc = "move_verify" /\ pc' = "published" /\ ~cur.undo
      \/ pc = "stage" /\ pc' = "copy"
      \/ pc = "publish" /\ pc' = "verify"
      \/ pc = "verify" /\ pc' = "published"
      \/ pc = "retire_check" /\ pc' = "unlink"
      \/ pc = "unlink" /\ pc' = "source_removed"
  BY DEF move_check, move_rename, move_verify, stage_create, publish_stage, verify,
         retire_check, retire_unlink, goto
<1>4. StoreRow'
  BY <1>1, <1>2, StoreRowFrame DEF QueueInv
<1>5. MoverRow'
  BY <1>2, <1>3 DEF QueueInv, MoverRow, MoverPc, MovePc, CopyPc, JournalPc
<1> QED
  BY <1>4, <1>5 DEF QueueInv

(* Copying the bytes. *)
LEMMA CopyRow == ASSUME Inv, QueueInv, stage_copy PROVE QueueInv'
<1>1. /\ UNCHANGED <<journalVars, proposals, roots, disk, nextRoot, rows>>
      /\ pc = "copy" /\ pc' = "set_sha"
  BY DEF stage_copy, unchangedByMover, queueVars, goto, journalVars
<1>2. /\ cur'.id = cur.id /\ cur'.revision = cur.revision /\ cur'.from = cur.from
      /\ cur'.to = cur.to /\ cur'.undo = cur.undo
  <2>1. PICK x : cur' = [cur EXCEPT !.digest = x]
    BY DEF stage_copy
  <2> QED
    BY <2>1 DEF Inv, OperationOK, Operation
<1>3. StoreRow'
  BY <1>1, StoreRowFrame DEF QueueInv
<1>4. MoverRow'
  BY <1>1, <1>2 DEF QueueInv, MoverRow, MoverPc, MovePc, CopyPc, JournalPc
<1> QED
  BY <1>3, <1>4 DEF QueueInv

(* Recording the digest. *)
LEMMA DigestRow ==
  ASSUME Inv, QueueInv, [JournalNext]_journalVars, record_sha256
  PROVE  QueueInv'
<1>1. /\ UNCHANGED <<proposals, roots, disk, nextRoot, cur>>
      /\ pc = "set_sha" /\ pc' = "publish" /\ set_sha256(cur.id, cur.digest)
  BY DEF record_sha256, unchangedByMover, queueVars, goto
<1>2. cur.id \in Id /\ cur.digest \in Version
  BY <1>1 DEF Inv, OperationOK, MoverPc, CopyPc
<1>3. /\ rows[cur.id] \in Row
      /\ rows' = [rows EXCEPT ![cur.id] = [rows[cur.id] EXCEPT !.sha256 = cur.digest,
                                                               !.updated_at = clock]]
  BY <1>1, <1>2 DEF set_sha256, Inv, JournalTypeOK
<1>4. /\ rows'[cur.id].state = rows[cur.id].state
      /\ rows'[cur.id].revision = rows[cur.id].revision
      /\ rows'[cur.id].source = rows[cur.id].source
      /\ rows'[cur.id].destination = rows[cur.id].destination
      /\ rows'[cur.id].sha256 # NoDigest
  BY <1>2, <1>3, PathsAssumption DEF Row, Inv, JournalTypeOK, Version, NoDigest
<1>5. StoreRow'
  BY <1>1, StoreRowFrame DEF QueueInv
<1>6. MoverRow'
  BY <1>1, <1>4 DEF QueueInv, MoverRow, MoverPc, MovePc, CopyPc, JournalPc
<1> QED
  BY <1>5, <1>6 DEF QueueInv

(* The journal commits in the middle of an operation. *)
LEMMA RecordRow ==
  ASSUME Inv, QueueInv, [JournalNext]_journalVars,
         record_copying \/ record_published \/ record_removed
  PROVE  QueueInv'
<1>1. /\ UNCHANGED <<proposals, roots, disk, nextRoot>>
      /\ cur' = [cur EXCEPT !.revision = cur.revision + 1]
  BY DEF record_copying, record_published, record_removed, record, unchangedByMover, queueVars
<1>2. PICK s \in {"copying", "published", "source_removed"} :
         /\ transition(cur.id, cur.revision, s)
         /\ \/ s = "copying" /\ pc = "copying" /\ pc' = "stage"
            \/ s = "published" /\ pc = "published" /\ pc' = "source_removed"
            \/ s = "published" /\ pc = "published" /\ pc' = "retire_check" /\ cur.digest # NoDigest
            \/ s = "source_removed" /\ pc = "source_removed" /\ pc' = "completed"
  BY DEF record_copying, record_published, record_removed, record, goto
<1>3. pc \in MoverPc /\ cur.id \in Id
  BY <1>2 DEF Inv, OperationOK, MoverPc, CopyPc, JournalPc
<1>4. /\ cur'.id = cur.id /\ cur'.revision = cur.revision + 1 /\ cur'.from = cur.from
      /\ cur'.to = cur.to /\ cur'.undo = cur.undo /\ cur'.digest = cur.digest
  BY <1>1 DEF Inv, OperationOK, Operation
<1>5. /\ rows[cur.id] \in Row
      /\ rows' = [rows EXCEPT ![cur.id] = [rows[cur.id] EXCEPT !.state = s,
                      !.revision = cur.revision + 1, !.updated_at = clock]]
  BY <1>2, <1>3 DEF transition, Inv, JournalTypeOK
<1>6. /\ rows'[cur.id].state = s /\ rows'[cur.id].revision = cur.revision + 1
      /\ rows'[cur.id].source = rows[cur.id].source
      /\ rows'[cur.id].destination = rows[cur.id].destination
      /\ rows'[cur.id].sha256 = rows[cur.id].sha256
  BY <1>3, <1>5 DEF Row, Inv, JournalTypeOK
<1>7. StoreRow'
  BY <1>1, StoreRowFrame DEF QueueInv
<1>8. ~cur.undo
  BY <1>2, <1>3 DEF QueueInv, MoverRow, MovePc
<1>9. MoverRow'
  BY <1>2, <1>3, <1>4, <1>6, <1>8 DEF QueueInv, MoverRow, MovePc
<1> QED
  BY <1>7, <1>9 DEF QueueInv

-----------------------------------------------------------------------------
(* The initial states. *)
LEMMA QueueInit == Init => QueueInv
<1> SUFFICES ASSUME Init PROVE QueueInv
  OBVIOUS
<1>1. \A id \in Id : proposals[id].status = "absent" /\ disk.proposals[id].status = "absent"
  BY AbsentProposalType DEF Init, StartQueue
<1>2. QueueRow(proposals, roots) /\ QueueRow(disk.proposals, disk.roots)
  BY <1>1 DEF QueueRow, EntryRow, EntryKnown
<1>3. RootsKnown(roots) /\ RootsKnown(disk.roots)
  BY DEF Init, RootsKnown
<1>4. MoverRow
  BY DEF Init, MoverRow, MoverPc, MovePc, CopyPc, JournalPc
<1> QED
  BY <1>2, <1>3, <1>4 DEF QueueInv, StoreRow

(* Every step keeps the strengthening. *)
LEMMA QueueInvStep ==
  ASSUME Utf8Names, Inv, QueueInv, [Next]_vars
  PROVE  QueueInv'
<1>0. [JournalNext]_journalVars
  BY InvStep
<1>1. CASE Request
  BY <1>0, <1>1, QuietSteps, AddRootRow, RemoveRootRow, ChooseRow, ChoosePathRow, RenameRow,
     IgnoreRow, ApproveRow, UndoRow
     DEF Request, proposal_destination
<1>2. CASE Mover
  BY <1>0, <1>2, MoverKeepsRow, CopyRow, DigestRow, RecordRow, FinishRow DEF Mover
<1>3. CASE choose_enrolled
  <2>1. cur.id \in Id /\ cur.revision \in 0..MaxRevision /\ cur.root \in RootId
    BY <1>3 DEF choose_enrolled, Inv, OperationOK, Operation
  <2> QED
    BY <1>0, <1>3, <2>1, ChooseRow DEF choose_enrolled
<1>4. CASE Daemon /\ ~Mover /\ ~choose_enrolled
  BY <1>0, <1>4, QuietSteps, SaveRow, ConsiderRow, OpenRow, RecoverRow DEF Daemon
<1>5. CASE crash
  BY <1>5, CrashRow
<1>6. CASE user_acts \/ time_passes \/ UNCHANGED vars
  <2>1. UNCHANGED <<proposals, roots, disk, nextRoot, rows, cur, pc>>
    BY <1>6 DEF user_acts, time_passes, set_clock, vars, journalVars, queueVars, opVars
  <2>2. StoreRow'
    BY <1>0, <2>1, StoreRowFrame DEF QueueInv
  <2>3. MoverRow'
    BY <2>1 DEF QueueInv, MoverRow
  <2> QED
    BY <2>2, <2>3 DEF QueueInv
<1> QED
  BY <1>1, <1>2, <1>3, <1>4, <1>5, <1>6 DEF Next

(***************************************************************************)
(* With UTF-8 names the queue never runs ahead of the journal, in memory or *)
(* in state.json, through every order of commits, failed saves and crashes. *)
(***************************************************************************)
THEOREM QueueNeverAheadTheorem == ASSUME Utf8Names PROVE Spec => []QueueNeverAhead
<1>1. ASSUME Inv, QueueInv PROVE QueueNeverAhead
  <2>1. ASSUME NEW queue, NEW enrolled, QueueRow(queue, enrolled)
        PROVE  QueueAgrees(queue, enrolled)
    BY <2>1 DEF QueueRow, EntryRow, EntryKnown, QueueAgrees
  <2> QED
    BY <1>1, <2>1 DEF QueueInv, StoreRow, QueueNeverAhead
<1>2. Inv /\ QueueInv => QueueNeverAhead
  BY <1>1
<1>3. Inv /\ QueueInv /\ [Next]_vars => QueueInv'
  BY QueueInvStep
<1>4. Spec => []Inv
  BY InitInv, InvStep, PTL DEF Spec
<1> QED
  BY <1>2, <1>3, <1>4, QueueInit, PTL DEF Spec

(***************************************************************************)
(* With UTF-8 names the row of a running move names the very paths that the *)
(* mover works on.                                                          *)
(***************************************************************************)
THEOREM JournalNamesTargetTheorem == ASSUME Utf8Names PROVE Spec => []JournalNamesTarget
<1>1. QueueInv => JournalNamesTarget
  BY DEF QueueInv, MoverRow, MoverPc, JournalNamesTarget
<1>2. Inv /\ QueueInv /\ [Next]_vars => QueueInv'
  BY QueueInvStep
<1>3. Spec => []Inv
  BY InitInv, InvStep, PTL DEF Spec
<1> QED
  BY <1>1, <1>2, <1>3, QueueInit, PTL DEF Spec

-----------------------------------------------------------------------------
(* A rename changes exactly its two names. *)
LEMMA RenameChanges ==
  ASSUME FsTypeOK, NEW p \in Path, NEW q \in Path, renameat_noreplace(p, q)
  PROVE  {x \in Path : entry'[x] # entry[x]} = {p, q} /\ entry[q] = NoIno
  BY DEF renameat_noreplace, exists, FsTypeOK

(* The four steps of the mover that change a name. *)
LEMMA MoverIntent ==
  ASSUME Inv, QueueInv, move_rename \/ stage_create \/ publish_stage \/ retire_unlink
  PROVE  IntentStep
<1>1. pc \in {"move_rename", "stage", "publish", "unlink"}
  BY DEF move_rename, stage_create, publish_stage, retire_unlink, goto
<1>2. pc \in MoverPc /\ cur.id \in Id /\ cur.from \in Path /\ cur.to \in Path
      /\ stage_path(cur.id, parent(cur.to)) \in Path
  BY <1>1, ParentDir, StagePath DEF Inv, OperationOK, MoverPc, MovePc, CopyPc
<1>3. FsTypeOK
  BY DEF Inv
<1> DEFINE row == rows[cur.id]
           changed == {p \in Path : entry'[p] # entry[p]}
<1>4. CASE move_rename
  <2>1. pc = "move_rename" /\ changed = {cur.from, cur.to} /\ entry[cur.to] = NoIno
    BY <1>2, <1>3, <1>4, RenameChanges DEF move_rename, goto
  <2>2. CASE cur.undo
    BY <1>2, <2>1, <2>2 DEF QueueInv, MoverRow, IntentStep
  <2>3. CASE ~cur.undo
    BY <1>2, <2>1, <2>3 DEF QueueInv, MoverRow, IntentStep
  <2> QED
    BY <2>2, <2>3
<1>5. ~cur.undo \/ pc = "move_rename"
  BY <1>1, <1>2 DEF QueueInv, MoverRow, MovePc
<1>6. CASE stage_create
  <2> DEFINE at == stage_path(cur.id, parent(cur.to))
  <2>1. pc = "stage" /\ create_exclusive(at)
    BY <1>6 DEF stage_create, goto
  <2>2. changed = {at}
    BY <1>2, <1>3, <2>1, FsAssumption DEF create_exclusive, exists, FsTypeOK, Ino, NoIno
  <2>3. row.state = "copying" /\ cur.to = row.destination
    BY <1>2, <1>5, <2>1 DEF QueueInv, MoverRow
  <2> QED
    BY <1>2, <2>2, <2>3 DEF IntentStep
<1>7. CASE publish_stage
  <2> DEFINE at == stage_path(cur.id, parent(cur.to))
  <2>1. pc = "publish" /\ renameat_noreplace(at, cur.to)
    BY <1>7 DEF publish_stage, goto
  <2>2. changed = {at, cur.to}
    BY <1>2, <1>3, <2>1, RenameChanges
  <2>3. row.state = "copying" /\ cur.to = row.destination /\ row.sha256 # NoDigest
    BY <1>2, <1>5, <2>1 DEF QueueInv, MoverRow
  <2> QED
    BY <1>2, <2>2, <2>3 DEF IntentStep
<1>8. CASE retire_unlink
  <2>1. pc = "unlink" /\ unlinkat(cur.from)
    BY <1>8 DEF retire_unlink, goto
  <2>2. changed = {cur.from}
    BY <1>2, <1>3, <2>1 DEF unlinkat, exists, FsTypeOK
  <2>3. row.state = "published" /\ cur.from = row.source /\ row.sha256 # NoDigest
    BY <1>2, <1>5, <2>1 DEF QueueInv, MoverRow
  <2> QED
    BY <1>2, <2>2, <2>3 DEF IntentStep
<1> QED
  BY <1>4, <1>6, <1>7, <1>8

(* No other step of the program changes a name. *)
LEMMA IntentLemma == ASSUME Inv, QueueInv, [Next]_vars PROVE IntentStep
<1>1. CASE move_rename \/ stage_create \/ publish_stage \/ retire_unlink
  BY <1>1, MoverIntent
<1>2. CASE entry' = entry
  BY <1>2 DEF IntentStep
<1>3. CASE user_acts
  BY <1>3 DEF user_acts, OwnStep, IntentStep, Inv, CountOK
<1>4. ASSUME Request PROVE entry' = entry
  BY <1>4, ZenonT(60) DEF Request, fsVars, set_paused, configure_agent, create_rule_from_proposal,
     add_root, remove_root, proposal_destination, choose_destination_path,
     choose_destination, rename, ignore, approve, undo, scan_once
<1>5. ASSUME Mover, ~(move_rename \/ stage_create \/ publish_stage \/ retire_unlink)
      PROVE  entry' = entry
  BY <1>5 DEF Mover, fsVars, move_check, move_verify, record_copying, record_published,
     record_removed, record, stage_copy, write_all, record_sha256, verify, retire_check,
     finish_approve, finish_undo, finish
<1>6. ASSUME Daemon, ~Mover PROVE entry' = entry
  BY <1>6 DEF Daemon, fsVars, choose_enrolled, choose_destination,
     enforce_journal_retention, save, scan_pause, scan_root, scan_skip, consider, scan_end,
     operation_error, open, recover_entry, recover_end
<1>7. ASSUME crash \/ time_passes \/ UNCHANGED vars PROVE entry' = entry
  BY <1>7 DEF crash, time_passes, vars, fsVars
<1> QED
  BY <1>1, <1>2, <1>3, <1>4, <1>5, <1>6, <1>7 DEF Next

(***************************************************************************)
(* With UTF-8 names, whenever the program changes a name, the committed row *)
(* of the running operation already announces that change.                  *)
(***************************************************************************)
THEOREM DurableIntentTheorem == ASSUME Utf8Names PROVE Spec => DurableIntent
<1>1. Inv /\ QueueInv /\ [Next]_vars => IntentStep
  BY IntentLemma
<1>2. Inv /\ QueueInv /\ [Next]_vars => QueueInv'
  BY QueueInvStep
<1>3. Spec => []Inv
  BY InitInv, InvStep, PTL DEF Spec
<1> QED
  BY <1>1, <1>2, <1>3, QueueInit, PTL DEF Spec, DurableIntent

-----------------------------------------------------------------------------
(***************************************************************************)
(* The destination that the queue shows.  An edit reaches the row, then the *)
(* entry, then state.json, and a crash returns the entry to state.json, so  *)
(* the two may name different destinations.  But while nothing has failed,  *)
(* state.json is only behind until the save that ends the edit, and a row   *)
(* leaves "proposed" only by a request that names its own revision.         *)
(***************************************************************************)
Shown(p, enrolled, row) ==
    (/\ p.status # "absent" /\ row.state # "absent"
     /\ p.destination \in RootId
     /\ enrolled[p.destination].dir # NoDir
     /\ enrolled[p.destination].destination) =>
        row.destination = <<enrolled[p.destination].dir, p.destination_name>>

AllShown(queue, enrolled) == \A id \in Id : Shown(queue[id], enrolled, rows[id])

ReviewedShown(queue, enrolled) ==
    \A id \in Id : rows[id].state # "proposed" => Shown(queue[id], enrolled, rows[id])

DestinationInv ==
    /\ faults = 0 => AllShown(proposals, roots)
    /\ faults <= 1 => ReviewedShown(proposals, roots)
    /\ faults = 0 => ReviewedShown(disk.proposals, disk.roots)
    /\ faults = 0 /\ pc # "save" => AllShown(disk.proposals, disk.roots)

(* The steps that give a proposal its destination. *)
Edited(id) ==
    \/ \E v, r : choose_destination(id, v, r)
    \/ \E v \in 0..MaxRevision, n \in Name : rename(id, v, n)

Considered == \E n \in Name, c \in RootId \cup {NoRoot} : consider(n, c)

SameTarget(p, q) ==
    /\ p.status # "absent"
    /\ q.destination = p.destination /\ q.destination_name = p.destination_name

(* Every other step but a crash leaves the entries their destination. *)
LEMMA TargetKept ==
  ASSUME Inv, [Next]_vars, ~crash, ~Considered, \A i \in Id : ~Edited(i),
         NEW id \in Id, proposals'[id].status # "absent"
  PROVE  SameTarget(proposals[id], proposals'[id])
<1>0. proposals \in [Id -> Proposal]
  BY DEF Inv, StoreOK, QueueOK
<1>1. CASE proposals' = proposals
  BY <1>1 DEF SameTarget
<1>2. ASSUME NEW i \in Id, NEW v, approve(i, v) PROVE SameTarget(proposals[id], proposals'[id])
  BY <1>0, <1>2 DEF approve, proposal_index, SameTarget, Proposal
<1>3. ASSUME NEW i \in Id, proposals[i].status # "absent", NEW v, NEW s, settle(i, v, s)
      PROVE  SameTarget(proposals[id], proposals'[id])
  <2> DEFINE q == [proposals[i] EXCEPT !.revision = v + 1, !.status = s]
             queue == [proposals EXCEPT ![i] = q]
  <2>1. proposals' = prune_terminal_proposals(queue)
    BY <1>3 DEF settle
  <2>2. SameTarget(proposals[i], q)
    BY <1>0, <1>3 DEF SameTarget, Proposal
  <2> HIDE DEF q
  <2>3. queue[id] = proposals[id] \/ (id = i /\ queue[id] = q)
    BY <1>0
  <2> HIDE DEF queue
  <2>4. proposals'[id] = queue[id]
    BY <2>1, PruneEntry
  <2> QED
    BY <2>2, <2>3, <2>4 DEF SameTarget
<1>4. CASE open
  BY <1>4, PruneEntry DEF open, SameTarget
<1>5. ASSUME NEW i \in Id, NEW s, recovered(i, s) PROVE SameTarget(proposals[id], proposals'[id])
  BY <1>0, <1>5 DEF recovered, SameTarget, Proposal
<1>6. CASE Request
  <2>1. CASE \/ \E b \in BOOLEAN : set_paused(b)
             \/ configure_agent \/ \E i \in Id : create_rule_from_proposal(i)
             \/ \E d \in Dir, w \in BOOLEAN, t \in BOOLEAN : add_root(d, w, t)
             \/ \E r \in RootId : remove_root(r)
             \/ \E i \in Id, v \in 0..MaxRevision : undo(i, v)
             \/ scan_once
    BY <1>1, <2>1 DEF set_paused, configure_agent, create_rule_from_proposal, add_root,
       remove_root, undo, scan_once, queueVars
  <2>2. CASE \E i \in Id, v \in 0..MaxRevision, d \in Dir : choose_destination_path(i, v, d)
    BY <1>1, <2>2 DEF choose_destination_path, Edited
  <2>3. CASE \E i \in Id, v \in 0..MaxRevision : ignore(i, v)
    BY <1>3, <2>3 DEF ignore, proposal_index
  <2> QED
    BY <1>2, <1>6, <2>1, <2>2, <2>3 DEF Request, proposal_destination, Edited
<1>7. CASE Mover
  <2>1. CASE finish_approve \/ finish_undo
    <3>1. cur.id \in Id /\ proposals[cur.id].status # "absent"
      BY <2>1 DEF finish_approve, finish_undo, finish, MoverPc, JournalPc, MovePc, Inv, OperationOK
    <3> QED
      BY <1>3, <2>1, <3>1 DEF finish_approve, finish_undo, finish
  <2>2. CASE ~finish_approve /\ ~finish_undo
    BY <1>1, <1>7, <2>2 DEF Mover, move_check, move_rename, move_verify, record_copying,
       stage_create, stage_copy, record_sha256, publish_stage, verify, record_published,
       retire_check, retire_unlink, record_removed, record, unchangedByMover, queueVars
  <2> QED
    BY <2>1, <2>2
<1>8. CASE Daemon /\ ~Mover
  <2>1. ~choose_enrolled
    BY DEF choose_enrolled, Edited, Inv, OperationOK
  <2>2. CASE \/ enforce_journal_retention \/ save \/ scan_pause \/ scan_end
             \/ \E r \in RootId : scan_root(r)
             \/ \E n \in Name : scan_skip(n)
             \/ operation_error \/ recover_end
    BY <1>1, <2>2 DEF enforce_journal_retention, save, scan_pause, scan_root, scan_skip,
       scan_end, operation_error, recover_end, queueVars
  <2>3. ASSUME NEW i \in Id, recover_entry(i) PROVE SameTarget(proposals[id], proposals'[id])
    BY <1>1, <1>5, <2>3 DEF recover_entry
  <2> QED
    BY <1>4, <1>8, <2>1, <2>2, <2>3 DEF Daemon, Considered
<1>9. CASE user_acts \/ time_passes \/ UNCHANGED vars
  BY <1>1, <1>9 DEF user_acts, time_passes, vars, queueVars
<1> QED
  BY <1>6, <1>7, <1>8, <1>9 DEF Next

(* A row that leaves "proposed" does so by a request at its own revision. *)
Requested(id) ==
    /\ pc = "idle"
    /\ proposals[id].status # "absent" /\ proposals[id].revision = rows[id].revision

RowKept(id) ==
    rows'[id].state # "absent" =>
        /\ rows[id].state # "absent"
        /\ rows'[id].destination = rows[id].destination
        /\ rows[id].state = "proposed" /\ rows'[id].state # "proposed" => Requested(id)

(* The same steps leave the rows theirs. *)
LEMMA RowTargetKept ==
  ASSUME Inv, [Next]_vars, ~Considered, \A i \in Id : ~Edited(i), NEW id \in Id
  PROVE  RowKept(id)
<1>0. rows \in [Id -> Row]
  BY DEF Inv, JournalTypeOK
<1>1. CASE rows' = rows
  BY <1>1 DEF RowKept
<1>2. ASSUME NEW i \in Id, NEW v, NEW s \in State, transition(i, v, s),
             rows[i].state = "proposed" => Requested(i)
      PROVE  RowKept(id)
  <2>1. rows[i].state # "absent"
    BY <1>2 DEF transition, can_transition
  <2>2. /\ rows'[i].destination = rows[i].destination
        /\ \A j \in Id : j # i => rows'[j] = rows[j]
    BY <1>0, <1>2 DEF transition, Row
  <2> QED
    BY <1>2, <2>1, <2>2 DEF RowKept
<1>3. CASE record_sha256
  <2>1. rows' = [rows EXCEPT ![cur.id] = [@ EXCEPT !.sha256 = cur.digest, !.updated_at = clock]]
    BY <1>3 DEF record_sha256, set_sha256
  <2>2. rows'[id].state = rows[id].state /\ rows'[id].destination = rows[id].destination
    BY <1>0, <2>1 DEF Row
  <2> QED
    BY <2>2 DEF RowKept
<1>4. CASE enforce_retention
  BY <1>4, AbsentRowType DEF enforce_retention, RowKept
<1>5. CASE Request
  <2>1. CASE \/ \E b \in BOOLEAN : set_paused(b)
             \/ configure_agent \/ \E i \in Id : create_rule_from_proposal(i)
             \/ \E d \in Dir, w \in BOOLEAN, t \in BOOLEAN : add_root(d, w, t)
             \/ \E r \in RootId : remove_root(r)
             \/ scan_once
    BY <1>1, <2>1 DEF set_paused, configure_agent, create_rule_from_proposal, add_root,
       remove_root, scan_once, journalVars
  <2>2. CASE \E i \in Id, v \in 0..MaxRevision, d \in Dir : choose_destination_path(i, v, d)
    BY <1>1, <2>2 DEF choose_destination_path, Edited, journalVars
  <2>3. ASSUME NEW i \in Id, NEW v, ignore(i, v) \/ approve(i, v) \/ undo(i, v)
        PROVE  RowKept(id)
    <3>1. PICK s \in {"ignored", "approved", "undoing"} : transition(i, v, s)
      BY <2>3 DEF ignore, approve, undo
    <3>2. Requested(i)
      BY <2>3, <3>1 DEF ignore, approve, undo, proposal_index, Requested, transition, can_transition
    <3> QED
      BY <1>2, <3>1, <3>2 DEF State, ActiveState, TerminalState
  <2> QED
    BY <1>5, <2>1, <2>2, <2>3 DEF Request, proposal_destination, Edited
<1>6. CASE Mover
  <2>1. CASE \/ record_copying \/ record_published \/ record_removed
             \/ finish_approve \/ finish_undo
    <3>1. PICK s \in {"copying", "published", "source_removed", "completed", "undone"} :
             transition(cur.id, cur.revision, s) /\ pc = s
      BY <2>1 DEF record_copying, record_published, record_removed, record, goto,
         finish_approve, finish_undo, finish
    <3>2. cur.id \in Id
      BY <3>1 DEF Inv, OperationOK, MoverPc, MovePc, CopyPc, JournalPc
    <3>3. rows[cur.id].state # "proposed" /\ s \in State
      BY <3>1 DEF transition, can_transition, allowed, State, ActiveState, TerminalState
    <3> QED
      BY <1>2, <3>1, <3>2, <3>3
  <2>2. CASE \/ move_check \/ move_rename \/ move_verify \/ stage_create \/ stage_copy
             \/ publish_stage \/ verify \/ retire_check \/ retire_unlink
    BY <1>1, <2>2 DEF move_check, move_rename, move_verify, stage_create, stage_copy,
       publish_stage, verify, retire_check, retire_unlink, journalVars
  <2> QED
    BY <1>3, <1>6, <2>1, <2>2 DEF Mover
<1>7. CASE Daemon /\ ~Mover
  <2>1. ~choose_enrolled
    BY DEF choose_enrolled, Edited, Inv, OperationOK
  <2>2. CASE \/ save \/ scan_pause \/ scan_end \/ operation_error \/ recover_end
             \/ \E r \in RootId : scan_root(r)
             \/ \E n \in Name : scan_skip(n)
    BY <1>1, <2>2 DEF save, scan_pause, scan_root, scan_skip, scan_end, operation_error,
       recover_end, journalVars
  <2>3. CASE enforce_journal_retention \/ open
    BY <1>4, <2>3 DEF enforce_journal_retention, open
  <2>4. ASSUME NEW i \in Id, recover_entry(i) PROVE RowKept(id)
    <3>1. rows[i].state # "proposed" \/ rows' = rows
      BY <2>4 DEF recover_entry, evidence, Interrupted, journalVars
    <3> QED
      BY <1>1, <1>2, <2>4, <3>1 DEF recover_entry, journalVars, State, ActiveState, TerminalState
  <2> QED
    BY <1>7, <2>1, <2>2, <2>3, <2>4 DEF Daemon, Considered
<1>8. CASE crash \/ user_acts \/ time_passes \/ UNCHANGED vars
  BY <1>1, <1>8 DEF crash, user_acts, time_passes, set_clock, vars, journalVars
<1> QED
  BY <1>5, <1>6, <1>7, <1>8 DEF Next

(* state.json changes only when memory is saved. *)
LEMMA DiskSteps ==
  ASSUME [Next]_vars
  PROVE  \/ disk' = disk
         \/ /\ UNCHANGED <<proposals, roots, rows, nextId, faults>>
            /\ disk'.proposals = proposals /\ disk'.roots = roots
            /\ pc \in {"save", "choose_root", "recover_save"}
<1>1. CASE save
  BY <1>1 DEF save, queueVars, journalVars
<1>2. CASE Request
  BY <1>2, ZenonT(60) DEF Request, set_paused, configure_agent, create_rule_from_proposal, add_root,
     remove_root, proposal_destination, choose_destination_path, choose_destination, rename,
     ignore, approve, undo, scan_once
<1>3. CASE Mover
  BY <1>3 DEF Mover, move_check, move_rename, move_verify, record_copying, stage_create,
     stage_copy, record_sha256, publish_stage, verify, record_published, retire_check,
     retire_unlink, record_removed, record, finish_approve, finish_undo, finish,
     unchangedByMover
<1>4. CASE Daemon /\ ~Mover /\ ~save
  BY <1>4 DEF Daemon, choose_enrolled, choose_destination, enforce_journal_retention,
     scan_pause, scan_root, scan_skip, consider, scan_end, operation_error, open,
     recover_entry, recover_end
<1>5. CASE crash \/ user_acts \/ time_passes \/ UNCHANGED vars
  BY <1>5 DEF crash, user_acts, time_passes, vars
<1> QED
  BY <1>1, <1>2, <1>3, <1>4, <1>5 DEF Next

(* Roots are enrolled under new ids. *)
LEMMA RootSteps ==
  ASSUME Inv, [Next]_vars, ~crash
  PROVE  RootsKept(roots, roots', nextRoot)
<1>0. roots \in [RootId -> Root] /\ nextRoot \in Int /\ \A r \in RootId : r \in Int
  BY DEF Inv, StoreOK, RootId
<1>1. CASE roots' = roots
  BY <1>1 DEF RootsKept
<1>2. ASSUME NEW d, NEW w, NEW t, push_root(d, w, t) PROVE RootsKept(roots, roots', nextRoot)
  BY <1>0, <1>2 DEF push_root, RootsKept
<1>3. ASSUME NEW r \in RootId, remove_root(r) PROVE RootsKept(roots, roots', nextRoot)
  BY <1>0, <1>3 DEF remove_root, RootsKept, NoRootEntry
<1>4. CASE Request
  BY <1>1, <1>2, <1>3, <1>4, ZenonT(60) DEF Request, set_paused, configure_agent,
     create_rule_from_proposal, add_root, proposal_destination,
     choose_destination_path, choose_destination, rename, ignore, approve, undo, scan_once,
     queueVars
<1>5. CASE Mover
  BY <1>1, <1>5 DEF Mover, move_check, move_rename, move_verify, record_copying, stage_create,
     stage_copy, record_sha256, publish_stage, verify, record_published, retire_check,
     retire_unlink, record_removed, record, finish_approve, finish_undo, finish,
     unchangedByMover, queueVars
<1>6. CASE Daemon /\ ~Mover
  BY <1>1, <1>6 DEF Daemon, choose_enrolled, choose_destination, enforce_journal_retention,
     save, scan_pause, scan_root, scan_skip, consider, scan_end, operation_error, open,
     recover_entry, recover_end, queueVars
<1>7. CASE user_acts \/ time_passes \/ UNCHANGED vars
  BY <1>1, <1>7 DEF user_acts, time_passes, vars, queueVars
<1> QED
  BY <1>4, <1>5, <1>6, <1>7 DEF Next

(* A save that is due is made, or something has failed. *)
LEMMA SaveDue ==
  ASSUME Inv, [Next]_vars, pc = "save", pc' # "save", disk' = disk
  PROVE  faults' = faults + 1 \/ (UNCHANGED <<proposals, roots, rows>> /\ disk'.proposals = proposals
                                  /\ disk'.roots = roots)
<1>1. CASE crash
  BY <1>1 DEF crash
<1>2. CASE operation_error
  BY <1>2 DEF operation_error, refused
<1>3. CASE save
  BY <1>3 DEF save, queueVars, journalVars
<1>4. ~Request
  BY DEF Request, set_paused, configure_agent, create_rule_from_proposal, add_root,
     remove_root, proposal_destination, choose_destination_path, rename,
     ignore, approve, undo, scan_once
<1>5. ~Mover
  BY DEF Mover, move_check, move_rename, move_verify, record_copying, stage_create,
     stage_copy, record_sha256, publish_stage, verify, record_published, retire_check,
     retire_unlink, record_removed, record, finish_approve, finish_undo, finish, goto
<1>6. CASE Daemon /\ ~Mover /\ ~save /\ ~operation_error
  BY <1>6 DEF Daemon, choose_enrolled, enforce_journal_retention, goto,
     scan_pause, scan_root, scan_skip, consider, scan_end, open, recover_entry, recover_end
<1>7. CASE user_acts \/ time_passes \/ UNCHANGED vars
  BY <1>7 DEF user_acts, time_passes, vars, opVars
<1> QED
  BY <1>1, <1>2, <1>3, <1>4, <1>5, <1>6, <1>7 DEF Next

(* Nothing un-happens. *)
LEMMA FaultsGrow == ASSUME Inv, [Next]_vars PROVE faults \in Nat /\ faults' \in Nat /\ faults <= faults'
<1>0. faults \in Nat /\ faults' \in Nat
  BY InvStep, ServiceAssumption DEF Inv, CountOK
<1>1. faults' = faults \/ faults' = faults + 1
  <2>1. CASE Request
    BY <2>1, ZenonT(60) DEF Request, set_paused, configure_agent, create_rule_from_proposal, add_root,
       remove_root, proposal_destination, choose_destination_path, choose_destination, rename,
       ignore, approve, undo, scan_once
  <2>2. CASE Mover
    BY <2>2 DEF Mover, move_check, move_rename, move_verify, record_copying, stage_create,
       stage_copy, record_sha256, publish_stage, verify, record_published, retire_check,
       retire_unlink, record_removed, record, finish_approve, finish_undo, finish,
       unchangedByMover
  <2>3. CASE Daemon /\ ~Mover
    BY <2>3 DEF Daemon, choose_enrolled, choose_destination, enforce_journal_retention,
       save, scan_pause, scan_root, scan_skip, consider, scan_end, operation_error, open,
       recover_entry, recover_end
  <2>4. CASE crash \/ user_acts \/ time_passes \/ UNCHANGED vars
    BY <2>4 DEF crash, user_acts, time_passes, vars
  <2> QED
    BY <2>1, <2>2, <2>3, <2>4 DEF Next
<1> QED
  BY <1>0, <1>1

(* An entry goes on showing its row's destination. *)
LEMMA ShownFrame ==
  ASSUME NEW p, NEW q, NEW old, NEW new, NEW row, NEW row2, NEW id, NEW idLimit, NEW limit,
         Shown(p, old, row), EntryKnown(p, id, idLimit, limit), RootsKept(old, new, limit),
         q.status # "absent" => SameTarget(p, q),
         row2.state # "absent" => row.state # "absent" /\ row2.destination = row.destination
  PROVE  Shown(q, new, row2)
<1> SUFFICES ASSUME q.status # "absent", row2.state # "absent", q.destination \in RootId,
                    new[q.destination].dir # NoDir, new[q.destination].destination
             PROVE  row2.destination = <<new[q.destination].dir, q.destination_name>>
  BY DEF Shown
<1>1. SameTarget(p, q) /\ row.state # "absent" /\ row2.destination = row.destination
  OBVIOUS
<1>2. p.status # "absent" /\ q.destination = p.destination /\ q.destination_name = p.destination_name
  BY <1>1 DEF SameTarget
<1>3. new[p.destination] = old[p.destination]
  BY <1>2 DEF EntryKnown, RootsKept
<1> QED
  BY <1>1, <1>2, <1>3 DEF Shown

(* An entry at its row's revision shows the row's destination. *)
LEMMA RequestedShown ==
  ASSUME StoreRow, NEW id \in Id, Requested(id), rows[id].state = "proposed"
  PROVE  Shown(proposals[id], roots, rows[id])
<1>1. EntryRow(proposals[id], roots, rows[id])
  BY DEF StoreRow, QueueRow
<1> QED
  BY <1>1 DEF EntryRow, Shown, Requested

(* Editing: the row and the entry get the same destination. *)
LEMMA EditShown ==
  ASSUME Utf8Names, Inv, NEW i \in Id, Edited(i)
  PROVE  /\ rows[i].state = "proposed" /\ rows'[i].state = "proposed"
         /\ Shown(proposals'[i], roots', rows'[i])
         /\ \A j \in Id : j # i => proposals'[j] = proposals[j] /\ rows'[j] = rows[j]
         /\ pc' = "save" /\ UNCHANGED <<roots, disk, faults>>
<1>0. rows \in [Id -> Row] /\ proposals \in [Id -> Proposal]
  BY DEF Inv, JournalTypeOK, StoreOK, QueueOK
<1>1. ASSUME NEW v, NEW d, revise_proposal(i, v, d)
      PROVE  /\ rows[i].state = "proposed" /\ rows'[i].state = "proposed"
             /\ rows'[i].destination = d
             /\ \A j \in Id : j # i => rows'[j] = rows[j]
  BY <1>0, <1>1 DEF revise_proposal, Row
<1>2. ASSUME NEW v, NEW r, choose_destination(i, v, r)
      PROVE  /\ rows[i].state = "proposed" /\ rows'[i].state = "proposed"
             /\ Shown(proposals'[i], roots', rows'[i])
             /\ \A j \in Id : j # i => proposals'[j] = proposals[j] /\ rows'[j] = rows[j]
             /\ pc' = "save" /\ UNCHANGED <<roots, disk, faults>>
  <2>1. /\ proposals[i].status # "absent" /\ roots' = roots
        /\ revise_proposal(i, v, <<roots[r].dir, proposals[i].source_relative>>)
        /\ proposals' = [proposals EXCEPT ![i] =
                            [@ EXCEPT !.revision = v + 1, !.destination = r,
                                      !.destination_name = Lossy[proposals[i].source_relative]]]
    BY <1>2 DEF choose_destination, proposal_index
  <2>2. Lossy[proposals[i].source_relative] = proposals[i].source_relative
    BY <2>1, EntryNamed DEF Utf8Names, Inv
  <2>3. /\ proposals'[i].destination = r
        /\ proposals'[i].destination_name = proposals[i].source_relative
        /\ \A j \in Id : j # i => proposals'[j] = proposals[j]
    BY <1>0, <2>1, <2>2 DEF Proposal
  <2>4. Shown(proposals'[i], roots', rows'[i])
    BY <1>1, <2>1, <2>3 DEF Shown
  <2> QED
    BY <1>1, <1>2, <2>1, <2>3, <2>4 DEF choose_destination, leave
<1>3. ASSUME NEW v, NEW n, rename(i, v, n)
      PROVE  /\ rows[i].state = "proposed" /\ rows'[i].state = "proposed"
             /\ Shown(proposals'[i], roots', rows'[i])
             /\ \A j \in Id : j # i => proposals'[j] = proposals[j] /\ rows'[j] = rows[j]
             /\ pc' = "save" /\ UNCHANGED <<roots, disk, faults>>
  <2>1. /\ roots' = roots
        /\ revise_proposal(i, v, <<roots[proposals[i].destination].dir, n>>)
        /\ proposals' = [proposals EXCEPT ![i] = [@ EXCEPT !.revision = v + 1,
                                                           !.destination_name = n]]
    BY <1>3 DEF rename
  <2>2. /\ proposals'[i].destination = proposals[i].destination
        /\ proposals'[i].destination_name = n
        /\ \A j \in Id : j # i => proposals'[j] = proposals[j]
    BY <1>0, <2>1 DEF Proposal
  <2>3. Shown(proposals'[i], roots', rows'[i])
    BY <1>1, <2>1, <2>2 DEF Shown
  <2> QED
    BY <1>1, <1>3, <2>1, <2>2, <2>3 DEF rename, leave
<1> QED
  BY <1>2, <1>3 DEF Edited

(* A new proposal: the row and the entry start with the same destination. *)
LEMMA ConsiderShown ==
  ASSUME Utf8Names, Inv, QueueInv, Considered
  PROVE  /\ nextId \in Id /\ rows'[nextId].state = "proposed"
         /\ Shown(proposals'[nextId], roots', rows'[nextId])
         /\ disk.proposals[nextId].status = "absent"
         /\ \A j \in Id : j # nextId => proposals'[j] = proposals[j] /\ rows'[j] = rows[j]
         /\ pc # "save" /\ UNCHANGED <<roots, disk, faults>>
<1>0. rows \in [Id -> Row] /\ proposals \in [Id -> Proposal]
  BY DEF Inv, JournalTypeOK, StoreOK, QueueOK
<1>1. PICK n \in Name, c \in RootId \cup {NoRoot} : consider(n, c)
  BY DEF Considered
<1>2. nextId \in Id /\ pc = "scan" /\ UNCHANGED <<roots, disk, faults>>
  BY <1>1 DEF consider, create
<1>3. /\ rows'[nextId].state = "proposed"
      /\ rows'[nextId].destination = destination_path_for(c, n)
      /\ \A j \in Id : j # nextId => rows'[j] = rows[j]
  BY <1>0, <1>1, <1>2 DEF consider, create
<1>4. /\ proposals'[nextId].destination = c /\ proposals'[nextId].destination_name = n
      /\ \A j \in Id : j # nextId => proposals'[j] = proposals[j]
  BY <1>0, <1>1, <1>2 DEF consider, Utf8Names
<1>5. Shown(proposals'[nextId], roots', rows'[nextId])
  BY <1>2, <1>3, <1>4 DEF Shown, destination_path_for, is_destination, registered
<1>6. disk.proposals[nextId].status = "absent"
  <2>1. EntryKnown(disk.proposals[nextId], nextId, nextId, nextRoot)
    BY <1>2 DEF QueueInv, StoreRow, QueueRow
  <2> QED
    BY <2>1 DEF EntryKnown, Inv, JournalTypeOK
<1> QED
  BY <1>2, <1>3, <1>4, <1>5, <1>6

(* Every step keeps what was shown. *)
LEMMA DestinationStep ==
  ASSUME Utf8Names, Inv, QueueInv, DestinationInv, [Next]_vars
  PROVE  DestinationInv'
<1>0. faults \in Nat /\ faults' \in Nat /\ faults <= faults'
  BY FaultsGrow
<1>1. CASE crash
  <2>1. proposals' = disk.proposals /\ roots' = disk.roots /\ rows' = rows /\ faults' = faults + 1
    BY <1>1 DEF crash, journalVars
  <2>2. faults' <= 1 => faults = 0
    BY <1>0, <2>1
  <2>3. faults' # 0
    BY <1>0, <2>1
  <2> QED
    BY <2>1, <2>2, <2>3 DEF DestinationInv, ReviewedShown
<1>2. ASSUME NEW i \in Id, Edited(i) PROVE DestinationInv'
  <2>1. /\ rows[i].state = "proposed" /\ rows'[i].state = "proposed"
        /\ Shown(proposals'[i], roots', rows'[i])
        /\ \A j \in Id : j # i => proposals'[j] = proposals[j] /\ rows'[j] = rows[j]
        /\ pc' = "save" /\ UNCHANGED <<roots, disk, faults>>
    BY <1>2, EditShown
  <2>2. faults' = 0 => AllShown(proposals, roots)'
    BY <2>1 DEF DestinationInv, AllShown
  <2>3. faults' <= 1 => ReviewedShown(proposals, roots)'
    BY <2>1 DEF DestinationInv, ReviewedShown
  <2>4. faults' = 0 => ReviewedShown(disk.proposals, disk.roots)'
    BY <2>1 DEF DestinationInv, ReviewedShown
  <2> QED
    BY <2>1, <2>2, <2>3, <2>4 DEF DestinationInv
<1>3. CASE Considered
  <2>1. /\ nextId \in Id /\ rows'[nextId].state = "proposed"
        /\ Shown(proposals'[nextId], roots', rows'[nextId])
        /\ disk.proposals[nextId].status = "absent"
        /\ \A j \in Id : j # nextId => proposals'[j] = proposals[j] /\ rows'[j] = rows[j]
        /\ pc # "save" /\ UNCHANGED <<roots, disk, faults>>
    BY <1>3, ConsiderShown
  <2>2. faults' = 0 => AllShown(proposals, roots)'
    BY <2>1 DEF DestinationInv, AllShown
  <2>3. faults' <= 1 => ReviewedShown(proposals, roots)'
    BY <2>1 DEF DestinationInv, ReviewedShown
  <2>4. Shown(disk.proposals[nextId], disk.roots, rows'[nextId])
    BY <2>1 DEF Shown
  <2>5. faults' = 0 => AllShown(disk.proposals, disk.roots)'
    BY <2>1, <2>4 DEF DestinationInv, AllShown
  <2>6. faults' = 0 => ReviewedShown(disk.proposals, disk.roots)'
    BY <2>5 DEF AllShown, ReviewedShown
  <2> QED
    BY <2>2, <2>3, <2>5, <2>6 DEF DestinationInv
<1>4. CASE ~crash /\ ~Considered /\ \A i \in Id : ~Edited(i)
  <2>1. RootsKept(roots, roots', nextRoot) /\ RootsKept(disk.roots, disk.roots, nextRoot)
    BY <1>4, RootSteps DEF RootsKept
  <2>2. \A id \in Id : proposals'[id].status # "absent" => SameTarget(proposals[id], proposals'[id])
    BY <1>4, TargetKept
  <2>3. \A id \in Id : RowKept(id)
    BY <1>4, RowTargetKept
  <2>4. \A id \in Id : /\ EntryKnown(proposals[id], id, nextId, nextRoot)
                       /\ EntryKnown(disk.proposals[id], id, nextId, nextRoot)
    BY DEF QueueInv, StoreRow, QueueRow
  <2>5. ASSUME NEW id \in Id, Shown(proposals[id], roots, rows[id])
        PROVE  Shown(proposals'[id], roots', rows'[id])
    BY <2>1, <2>2, <2>3, <2>4, <2>5, ShownFrame DEF RowKept
  <2>6. ASSUME NEW id \in Id, Shown(disk.proposals[id], disk.roots, rows[id])
        PROVE  Shown(disk.proposals[id], disk.roots, rows'[id])
    <3>1. disk.proposals[id].status # "absent" => SameTarget(disk.proposals[id], disk.proposals[id])
      BY DEF SameTarget
    <3> QED
      BY <2>1, <2>3, <2>4, <2>6, <3>1, ShownFrame DEF RowKept
  <2>7. faults' = 0 => AllShown(proposals, roots)'
    BY <1>0, <2>5 DEF DestinationInv, AllShown
  <2>8. faults' <= 1 => ReviewedShown(proposals, roots)'
    <3> SUFFICES ASSUME faults' <= 1, NEW id \in Id, rows'[id].state # "proposed"
                 PROVE  Shown(proposals'[id], roots', rows'[id])
      BY DEF ReviewedShown
    <3>1. faults <= 1
      BY <1>0
    <3>2. CASE rows[id].state # "proposed"
      BY <2>5, <3>1, <3>2 DEF DestinationInv, ReviewedShown
    <3>3. CASE rows[id].state = "proposed" /\ rows'[id].state # "absent"
      <4>1. Requested(id)
        BY <2>3, <3>3 DEF RowKept
      <4> QED
        BY <2>5, <3>3, <4>1, RequestedShown DEF QueueInv
    <3>4. CASE rows'[id].state = "absent"
      BY <3>4 DEF Shown
    <3> QED
      BY <3>2, <3>3, <3>4
  <2>9. CASE disk' = disk
    <3>1. faults' = 0 => ReviewedShown(disk.proposals, disk.roots)'
      <4> SUFFICES ASSUME faults' = 0, NEW id \in Id, rows'[id].state # "proposed"
                   PROVE  Shown(disk.proposals[id], disk.roots, rows'[id])
        BY <2>9 DEF ReviewedShown
      <4>1. faults = 0
        BY <1>0
      <4>2. CASE rows[id].state # "proposed"
        BY <2>6, <4>1, <4>2 DEF DestinationInv, ReviewedShown
      <4>3. CASE rows[id].state = "proposed" /\ rows'[id].state # "absent"
        <5>1. pc # "save"
          BY <2>3, <4>3 DEF RowKept, Requested
        <5> QED
          BY <2>6, <4>1, <5>1 DEF DestinationInv, AllShown
      <4>4. CASE rows'[id].state = "absent"
        BY <4>4 DEF Shown
      <4> QED
        BY <4>2, <4>3, <4>4
    <3>2. faults' = 0 /\ pc' # "save" => AllShown(disk.proposals, disk.roots)'
      <4> SUFFICES ASSUME faults' = 0, pc' # "save"
                   PROVE  AllShown(disk.proposals, disk.roots)'
        OBVIOUS
      <4>1. faults = 0
        BY <1>0
      <4>2. CASE pc # "save"
        BY <2>6, <2>9, <4>1, <4>2 DEF DestinationInv, AllShown
      <4>3. CASE pc = "save"
        <5>1. UNCHANGED <<proposals, roots, rows>> /\ disk'.proposals = proposals
              /\ disk'.roots = roots
          BY <1>0, <2>9, <4>1, <4>3, SaveDue
        <5> QED
          BY <4>1, <5>1 DEF DestinationInv, AllShown
      <4> QED
        BY <4>2, <4>3
    <3> QED
      BY <2>7, <2>8, <3>1, <3>2 DEF DestinationInv
  <2>10. CASE /\ UNCHANGED <<proposals, roots, rows, nextId, faults>>
              /\ disk'.proposals = proposals /\ disk'.roots = roots
    <3>1. faults' = 0 => AllShown(disk.proposals, disk.roots)'
      BY <2>10 DEF DestinationInv, AllShown
    <3>2. faults' = 0 => ReviewedShown(disk.proposals, disk.roots)'
      BY <3>1 DEF AllShown, ReviewedShown
    <3> QED
      BY <2>7, <2>8, <3>1, <3>2 DEF DestinationInv
  <2> QED
    BY <2>9, <2>10, DiskSteps
<1> QED
  BY <1>1, <1>2, <1>3, <1>4

(***************************************************************************)
(* With UTF-8 names, one crash or failed save at any moment never makes a   *)
(* completed entry show another destination than the one to which the file  *)
(* was moved, so that undo looks for it there.                              *)
(***************************************************************************)
THEOREM CompletedShowsDestinationTheorem ==
  ASSUME Utf8Names PROVE Spec => []CompletedShowsDestination
<1>1. Init => DestinationInv
  <2> SUFFICES ASSUME Init PROVE DestinationInv
    OBVIOUS
  <2>1. \A id \in Id : proposals[id].status = "absent" /\ disk.proposals[id].status = "absent"
    BY AbsentProposalType DEF Init, StartQueue
  <2> QED
    BY <2>1 DEF DestinationInv, AllShown, ReviewedShown, Shown
<1>2. Inv /\ QueueInv /\ DestinationInv /\ [Next]_vars => DestinationInv'
  BY DestinationStep
<1>3. DestinationInv => CompletedShowsDestination
  BY DEF DestinationInv, ReviewedShown, Shown, CompletedShowsDestination, is_destination,
     registered, destination_path
<1>4. Inv /\ QueueInv /\ [Next]_vars => QueueInv'
  BY QueueInvStep
<1>5. Spec => []Inv
  BY InitInv, InvStep, PTL DEF Spec
<1> QED
  BY <1>1, <1>2, <1>3, <1>4, <1>5, QueueInit, PTL DEF Spec

-----------------------------------------------------------------------------
(***************************************************************************)
(* Where the entries of the review queue come from: no file is in the queue *)
(* twice, and the root of an entry that awaits review stays enrolled,       *)
(* through rescans, edits, undo, failed saves, crashes and restarts.        *)
(***************************************************************************)

(* No two entries have an identity, or await review under a name, in common. *)
Unique(queue) ==
    \A i, j \in Id :
        (i # j /\ queue[i].status # "absent" /\ queue[j].status # "absent") =>
            /\ queue[i].identity # queue[j].identity
            /\ (queue[i].status = "proposed" /\ queue[j].status = "proposed") =>
                  \/ queue[i].source_root # queue[j].source_root
                  \/ queue[i].source_relative # queue[j].source_relative

(* The root of every entry that awaits review is enrolled. *)
Resolved(queue, enrolled) ==
    \A id \in Id : queue[id].status = "proposed" =>
        queue[id].source_root \in RootId /\ enrolled[queue[id].source_root].dir # NoDir

(* No folder is enrolled twice. *)
Apart(enrolled) ==
    \A r, s \in RootId :
        enrolled[r].dir = enrolled[s].dir => r = s \/ enrolled[r].dir = NoDir

Sources(queue, enrolled) == Unique(queue) /\ Resolved(queue, enrolled) /\ Apart(enrolled)

(* state.json becomes the memory after a crash, so it is as good. *)
SourceInv == Sources(proposals, roots) /\ Sources(disk.proposals, disk.roots)

-----------------------------------------------------------------------------
(* The entry stays in the queue under its source, or goes; it never starts  *)
(* to await review.                                                         *)
EntryKept(p, q) ==
    \/ q.status = "absent"
    \/ /\ p.status # "absent" /\ (q.status = "proposed" => p.status = "proposed")
       /\ q.identity = p.identity /\ q.source_root = p.source_root
       /\ q.source_relative = p.source_relative

QueueKept(old, new) == \A id \in Id : EntryKept(old[id], new[id])

(* A queue whose entries are kept is as good as before. *)
LEMMA KeptSources ==
  ASSUME NEW old, NEW new, NEW enrolled, Sources(old, enrolled), QueueKept(old, new)
  PROVE  Sources(new, enrolled)
<1>1. Unique(new)
  <2> SUFFICES ASSUME NEW i \in Id, NEW j \in Id, i # j,
                      new[i].status # "absent", new[j].status # "absent"
               PROVE  /\ new[i].identity # new[j].identity
                      /\ (new[i].status = "proposed" /\ new[j].status = "proposed") =>
                            \/ new[i].source_root # new[j].source_root
                            \/ new[i].source_relative # new[j].source_relative
    BY DEF Unique
  <2>1. EntryKept(old[i], new[i]) /\ EntryKept(old[j], new[j])
    BY DEF QueueKept
  <2> QED
    BY <2>1 DEF EntryKept, Unique, Sources
<1>2. Resolved(new, enrolled)
  BY DEF Resolved, QueueKept, EntryKept, Sources
<1> QED
  BY <1>1, <1>2 DEF Sources

(* A step that keeps the entries and leaves roots and state.json alone. *)
LEMMA KeptStep ==
  ASSUME SourceInv, QueueKept(proposals, proposals'), UNCHANGED <<roots, disk>>
  PROVE  SourceInv'
  BY KeptSources DEF SourceInv

(* Other fields of one entry change, or it leaves review. *)
LEMMA UpdateKept ==
  ASSUME StoreOK, NEW id \in Id, NEW p, EntryKept(proposals[id], p)
  PROVE  QueueKept(proposals, [proposals EXCEPT ![id] = p])
<1>1. proposals \in [Id -> Proposal]
  BY DEF StoreOK, QueueOK
<1>2. \A j \in Id : EntryKept(proposals[j], proposals[j])
  BY DEF EntryKept
<1> QED
  BY <1>1, <1>2 DEF QueueKept

(* Pruning keeps or removes. *)
LEMMA PruneKept ==
  ASSUME NEW old, NEW queue, QueueKept(old, queue)
  PROVE  QueueKept(old, prune_terminal_proposals(queue))
<1> DEFINE gone == {id \in Id : /\ queue[id].status \in TerminalStatus
                                /\ Cardinality({k \in {i \in Id : queue[i].status \in TerminalStatus} : k >= id})
                                      > MAX_TERMINAL_PROPOSALS}
<1>1. prune_terminal_proposals(queue) =
        [id \in Id |-> IF id \in gone THEN AbsentProposal ELSE queue[id]]
  BY DEF prune_terminal_proposals
<1> HIDE DEF gone
<1> QED
  BY <1>1, AbsentProposalType DEF QueueKept, EntryKept

-----------------------------------------------------------------------------
(* Steps that change neither the queue nor the roots nor state.json. *)
LEMMA QuietSources ==
  ASSUME SourceInv, UNCHANGED <<proposals, roots, disk>>
  PROVE  SourceInv'
  BY DEF SourceInv

(* Saving: state.json becomes what memory holds. *)
LEMMA SaveSources == ASSUME SourceInv, save PROVE SourceInv'
<1>1. /\ UNCHANGED <<proposals, roots>>
      /\ disk'.proposals = proposals /\ disk'.roots = roots
  BY DEF save, queueVars
<1> QED
  BY <1>1 DEF SourceInv

(* A crash: memory becomes what state.json holds, which is as good. *)
LEMMA CrashSources == ASSUME SourceInv, crash PROVE SourceInv'
  BY DEF SourceInv, crash

(* A new root has a folder of its own. *)
LEMMA PushSources ==
  ASSUME Inv, SourceInv, NEW d \in Dir, NEW w, NEW t, push_root(d, w, t),
         UNCHANGED <<proposals, disk>>
  PROVE  SourceInv'
<1> DEFINE new == [dir |-> d, watched |-> w, destination |-> t]
<1>1. /\ roots \in [RootId -> Root] /\ nextRoot \in RootId
      /\ roots' = [roots EXCEPT ![nextRoot] = new]
      /\ \A r \in RootId : roots[r].dir # d
  BY DEF push_root, Inv, StoreOK
<1>2. \A r \in RootId : roots'[r].dir = IF r = nextRoot THEN d ELSE roots[r].dir
  BY <1>1
<1>3. d # NoDir
  BY ServiceAssumption
<1>4. Apart(roots')
  BY <1>1, <1>2 DEF SourceInv, Sources, Apart
<1>5. Resolved(proposals', roots')
  BY <1>2, <1>3 DEF SourceInv, Sources, Resolved
<1> QED
  BY <1>4, <1>5 DEF SourceInv, Sources

(* No entry that awaits review needs the root that is removed. *)
LEMMA RemoveSources ==
  ASSUME Inv, SourceInv, NEW r \in RootId, remove_root(r)
  PROVE  SourceInv'
<1>1. /\ roots \in [RootId -> Root] /\ roots' = [roots EXCEPT ![r] = NoRootEntry]
      /\ \A id \in Id : proposals[id].status = "proposed" => proposals[id].source_root # r
      /\ UNCHANGED <<proposals, disk>>
  BY DEF remove_root, awaiting, Inv, StoreOK
<1>2. \A s \in RootId : roots'[s].dir = IF s = r THEN NoDir ELSE roots[s].dir
  BY <1>1 DEF NoRootEntry
<1>3. Apart(roots')
  BY <1>2 DEF SourceInv, Sources, Apart
<1>4. Resolved(proposals', roots')
  BY <1>1, <1>2 DEF SourceInv, Sources, Resolved
<1> QED
  BY <1>1, <1>3, <1>4 DEF SourceInv, Sources

-----------------------------------------------------------------------------
(* Editing changes the destination. *)
LEMMA ChooseSources ==
  ASSUME Inv, SourceInv, NEW id \in Id, NEW v, NEW r, choose_destination(id, v, r)
  PROVE  SourceInv'
<1> DEFINE p == [proposals[id] EXCEPT !.revision = v + 1, !.destination = r,
                      !.destination_name = Lossy[proposals[id].source_relative]]
<1>1. proposals[id] \in Proposal /\ proposals[id].status # "absent"
  BY DEF choose_destination, proposal_index, Inv, StoreOK, QueueOK
<1>2. EntryKept(proposals[id], p)
  BY <1>1 DEF EntryKept, Proposal
<1>3. proposals' = [proposals EXCEPT ![id] = p] /\ UNCHANGED <<roots, disk>>
  BY DEF choose_destination
<1> HIDE DEF p
<1> QED
  BY <1>2, <1>3, UpdateKept, KeptStep DEF Inv

(* Renaming a proposal changes its destination and its revision only. *)
LEMMA RenameSources ==
  ASSUME Inv, SourceInv, NEW id \in Id, NEW v, NEW n, rename(id, v, n)
  PROVE  SourceInv'
<1> DEFINE p == [proposals[id] EXCEPT !.revision = v + 1, !.destination_name = n]
<1>1. proposals[id] \in Proposal /\ proposals[id].status # "absent"
  BY DEF rename, proposal_index, Inv, StoreOK, QueueOK
<1>2. EntryKept(proposals[id], p)
  BY <1>1 DEF EntryKept, Proposal
<1>3. proposals' = [proposals EXCEPT ![id] = p] /\ UNCHANGED <<roots, disk>>
  BY DEF rename
<1> HIDE DEF p
<1> QED
  BY <1>2, <1>3, UpdateKept, KeptStep DEF Inv

(* Approval changes the revision. *)
LEMMA ApproveSources ==
  ASSUME Inv, SourceInv, NEW id \in Id, NEW v, approve(id, v)
  PROVE  SourceInv'
<1> DEFINE p == [proposals[id] EXCEPT !.revision = v + 1]
<1>1. proposals[id] \in Proposal /\ proposals[id].status # "absent"
  BY DEF approve, proposal_index, Inv, StoreOK, QueueOK
<1>2. EntryKept(proposals[id], p)
  BY <1>1 DEF EntryKept, Proposal
<1>3. proposals' = [proposals EXCEPT ![id] = p] /\ UNCHANGED <<roots, disk>>
  BY DEF approve
<1> HIDE DEF p
<1> QED
  BY <1>2, <1>3, UpdateKept, KeptStep DEF Inv

(* An entry that is settled no longer awaits review. *)
LEMMA SettleSources ==
  ASSUME Inv, SourceInv, NEW id \in Id, NEW v, NEW s, s # "proposed",
         proposals[id].status # "absent", settle(id, v, s), UNCHANGED <<roots, disk>>
  PROVE  SourceInv'
<1> DEFINE p == [proposals[id] EXCEPT !.revision = v + 1, !.status = s]
<1>1. proposals[id] \in Proposal
  BY DEF Inv, StoreOK, QueueOK
<1>2. EntryKept(proposals[id], p)
  BY <1>1 DEF EntryKept, Proposal
<1>3. proposals' = prune_terminal_proposals([proposals EXCEPT ![id] = p])
  BY DEF settle
<1> HIDE DEF p
<1>4. QueueKept(proposals, [proposals EXCEPT ![id] = p])
  BY <1>2, UpdateKept DEF Inv
<1> QED
  BY <1>3, <1>4, PruneKept, KeptStep

(* Reading state.json at a start. *)
LEMMA OpenSources == ASSUME SourceInv, open PROVE SourceInv'
<1>1. QueueKept(proposals, proposals)
  BY DEF QueueKept, EntryKept
<1> QED
  BY <1>1, PruneKept, KeptStep DEF open

(* Recovery settles an entry, or leaves it. *)
LEMMA RecoverSources ==
  ASSUME Inv, SourceInv, NEW id \in Id, recover_entry(id)
  PROVE  SourceInv'
<1>1. UNCHANGED <<roots, disk>>
  BY DEF recover_entry
<1>2. CASE \E s \in {"completed", "needs_attention"} : recovered(id, s)
  <2>1. PICK s \in {"completed", "needs_attention"} : recovered(id, s)
    BY <1>2
  <2> DEFINE p == [proposals[id] EXCEPT !.revision = rows[id].revision + 1, !.status = s]
  <2>2. CASE proposals[id].status = "absent"
    BY <1>1, <2>1, <2>2, QuietSources DEF recovered
  <2>3. CASE proposals[id].status # "absent"
    <3>1. proposals[id] \in Proposal
      BY DEF Inv, StoreOK, QueueOK
    <3>2. EntryKept(proposals[id], p)
      BY <2>3, <3>1 DEF EntryKept, Proposal
    <3>3. proposals' = [proposals EXCEPT ![id] = p]
      BY <2>1, <2>3 DEF recovered
    <3> HIDE DEF p
    <3> QED
      BY <1>1, <3>2, <3>3, UpdateKept, KeptStep DEF Inv
  <2> QED
    BY <2>2, <2>3
<1>3. CASE UNCHANGED proposals
  BY <1>1, <1>3, QuietSources
<1> QED
  BY <1>2, <1>3 DEF recover_entry

-----------------------------------------------------------------------------
(* A new entry: its identity is in no other, its name awaits no review, and *)
(* its root is being scanned.                                               *)
LEMMA ConsiderSources ==
  ASSUME Inv, SourceInv, NEW n \in Name, NEW c, consider(n, c)
  PROVE  SourceInv'
<1> DEFINE identity == identity_fd(entry[<<roots[scan.root].dir, n>>])
           p == [status |-> "proposed", revision |-> 1,
                 source_root |-> scan.root, source_relative |-> n,
                 destination |-> c, destination_name |-> Lossy[n],
                 identity |-> identity]
<1>1. /\ proposals \in [Id -> Proposal] /\ nextId \in Id
      /\ proposals' = [proposals EXCEPT ![nextId] = p]
      /\ UNCHANGED <<roots, disk>>
  BY DEF consider, create, Inv, StoreOK, QueueOK
<1>2. ~duplicate_identity(identity) /\ ~already_proposed(scan.root, n)
  BY DEF consider
<1>3. scan.root \in RootId /\ roots[scan.root].dir # NoDir
  BY DEF consider, Inv, ScanOK, registered
<1>4. /\ p.status = "proposed" /\ p.source_root = scan.root
      /\ p.source_relative = n /\ p.identity = identity
  OBVIOUS
<1> HIDE DEF p, identity
<1>5. \A j \in Id : proposals'[j] = IF j = nextId THEN p ELSE proposals[j]
  BY <1>1
<1>6. ASSUME NEW j \in Id, proposals[j].status # "absent"
      PROVE  /\ proposals[j].identity # p.identity
             /\ proposals[j].status = "proposed" =>
                   \/ proposals[j].source_root # p.source_root
                   \/ proposals[j].source_relative # p.source_relative
  BY <1>2, <1>4, <1>6 DEF duplicate_identity, already_proposed, awaiting
<1>7. Unique(proposals')
  BY <1>5, <1>6 DEF Unique, SourceInv, Sources
<1>8. Resolved(proposals', roots')
  BY <1>1, <1>3, <1>4, <1>5 DEF Resolved, SourceInv, Sources
<1> QED
  BY <1>1, <1>7, <1>8 DEF SourceInv, Sources

-----------------------------------------------------------------------------
(* The empty queue and the first roots. *)
LEMMA SourceInit == Init => SourceInv
<1> SUFFICES ASSUME Init PROVE SourceInv
  OBVIOUS
<1>1. /\ proposals = StartQueue /\ roots = StartRoots
      /\ disk.proposals = StartQueue /\ disk.roots = StartRoots
  BY DEF Init
<1>2. \A id \in Id : StartQueue[id].status = "absent"
  BY AbsentProposalType DEF StartQueue
<1>3. Apart(StartRoots)
  BY ServiceAssumption DEF Apart
<1> QED
  BY <1>1, <1>2, <1>3 DEF SourceInv, Sources, Unique, Resolved

(* Every request of a client keeps the invariant. *)
LEMMA RequestSources == ASSUME Inv, SourceInv, Request PROVE SourceInv'
<1>1. CASE \/ \E b \in BOOLEAN : set_paused(b)
           \/ configure_agent \/ \E id \in Id : create_rule_from_proposal(id)
           \/ \E id \in Id, v \in 0..MaxRevision : undo(id, v)
           \/ scan_once
  <2>1. UNCHANGED <<proposals, roots, disk>>
    BY <1>1 DEF set_paused, configure_agent, create_rule_from_proposal, undo, scan_once,
                queueVars
  <2> QED
    BY <2>1, QuietSources
<1>2. CASE \E d \in Dir, w \in BOOLEAN, t \in BOOLEAN : add_root(d, w, t)
  BY <1>2, PushSources DEF add_root
<1>3. CASE \E r \in RootId : remove_root(r)
  BY <1>3, RemoveSources
<1>4. CASE \E id \in Id, v \in 0..MaxRevision, r \in RootId : proposal_destination(id, v, r)
  BY <1>4, ChooseSources DEF proposal_destination
<1>5. CASE \E id \in Id, v \in 0..MaxRevision, d \in Dir : choose_destination_path(id, v, d)
  <2>1. PICK id \in Id, v \in 0..MaxRevision, d \in Dir : choose_destination_path(id, v, d)
    BY <1>5
  <2>2. CASE \E r \in RootId : choose_destination(id, v, r)
    BY <2>2, ChooseSources
  <2>3. CASE push_root(d, FALSE, TRUE) /\ UNCHANGED <<proposals, disk>>
    BY <2>3, PushSources
  <2> QED
    BY <2>1, <2>2, <2>3 DEF choose_destination_path
<1>6. CASE \E id \in Id, v \in 0..MaxRevision, n \in Name : rename(id, v, n)
  BY <1>6, RenameSources
<1>7. CASE \E id \in Id, v \in 0..MaxRevision : ignore(id, v)
  BY <1>7, SettleSources DEF ignore, proposal_index
<1>8. CASE \E id \in Id, v \in 0..MaxRevision : approve(id, v)
  BY <1>8, ApproveSources
<1> QED
  BY <1>1, <1>2, <1>3, <1>4, <1>5, <1>6, <1>7, <1>8 DEF Request

(* Every step of a move, of an undo and of recovery keeps it. *)
LEMMA MoverSources == ASSUME Inv, SourceInv, Mover PROVE SourceInv'
<1>1. CASE finish_approve \/ finish_undo
  <2>1. pc \in MoverPc
    BY <1>1 DEF finish_approve, finish_undo, finish, MoverPc, JournalPc, MovePc
  <2>2. cur.id \in Id /\ proposals[cur.id].status # "absent"
    BY <2>1 DEF Inv, OperationOK
  <2>3. \E s \in {"completed", "undone"} : settle(cur.id, cur.revision, s)
    BY <1>1 DEF finish_approve, finish_undo, finish
  <2>4. UNCHANGED <<roots, disk>>
    BY <1>1 DEF finish_approve, finish_undo, finish
  <2> QED
    BY <2>2, <2>3, <2>4, SettleSources
<1>2. CASE ~(finish_approve \/ finish_undo)
  <2>1. UNCHANGED <<proposals, roots, disk>>
    BY <1>2 DEF Mover, move_check, move_rename, move_verify, record_copying, stage_create,
                stage_copy, record_sha256, publish_stage, verify, record_published,
                retire_check, retire_unlink, record_removed, record, unchangedByMover,
                queueVars
  <2> QED
    BY <2>1, QuietSources
<1> QED
  BY <1>1, <1>2

(* Every step of the daemon of its own accord keeps it. *)
LEMMA DaemonSources == ASSUME Inv, SourceInv, Daemon PROVE SourceInv'
<1>1. CASE \/ scan_pause \/ scan_end \/ operation_error \/ recover_end
           \/ enforce_journal_retention
           \/ \E r \in RootId : scan_root(r)
           \/ \E n \in Name : scan_skip(n)
  <2>1. UNCHANGED <<proposals, roots, disk>>
    BY <1>1 DEF scan_pause, scan_end, operation_error, recover_end,
                enforce_journal_retention, scan_root, scan_skip, queueVars
  <2> QED
    BY <2>1, QuietSources
<1>2. CASE choose_enrolled
  <2>1. cur.id \in Id
    BY <1>2 DEF choose_enrolled, Inv, OperationOK
  <2> QED
    BY <1>2, <2>1, ChooseSources DEF choose_enrolled
<1>3. CASE \E n \in Name, c \in RootId \cup {NoRoot} : consider(n, c)
  BY <1>3, ConsiderSources
<1>4. CASE \E id \in Id : recover_entry(id)
  BY <1>4, RecoverSources
<1> QED
  BY <1>1, <1>2, <1>3, <1>4, MoverSources, SaveSources, OpenSources DEF Daemon

(* SourceInv is inductive, given the invariant of ServiceProofs. *)
LEMMA SourceStep == Inv /\ SourceInv /\ [Next]_vars => SourceInv'
<1> SUFFICES ASSUME Inv, SourceInv, [Next]_vars PROVE SourceInv'
  OBVIOUS
<1>1. CASE user_acts \/ time_passes \/ UNCHANGED vars
  <2>1. UNCHANGED <<proposals, roots, disk>>
    BY <1>1 DEF user_acts, time_passes, vars, queueVars
  <2> QED
    BY <2>1, QuietSources
<1> QED
  BY <1>1, RequestSources, DaemonSources, CrashSources DEF Next

(* SourceInv holds in every state of the review service. *)
LEMMA SourceInvariant == Spec => []SourceInv
<1>1. Spec => []Inv
  BY InitInv, InvStep, PTL DEF Spec
<1> QED
  BY <1>1, SourceInit, SourceStep, PTL DEF Spec

(***************************************************************************)
(* The root of every entry that awaits review is enrolled, in memory and    *)
(* after any restart: remove_root refuses, and state.json never holds a     *)
(* queue and roots of different times.                                      *)
(***************************************************************************)
THEOREM SourcesResolveTheorem == Spec => []SourcesResolve
<1>1. SourceInv => SourcesResolve
  BY DEF SourceInv, Sources, Resolved, SourcesResolve, registered
<1> QED
  BY <1>1, SourceInvariant, PTL

(***************************************************************************)
(* No file is in the queue twice, whatever is rescanned, undone, lost in a  *)
(* crash or enrolled again: the check of consider for the identity and for  *)
(* the name is enough, because an entry never returns to review and no      *)
(* folder is enrolled under two roots.                                      *)
(***************************************************************************)
THEOREM NoDuplicatesTheorem == Spec => []NoDuplicates
<1>1. ASSUME SourceInv PROVE NoDuplicates
  <2> SUFFICES ASSUME NEW i \in Id, NEW j \in Id, i # j,
                      proposals[i].status # "absent", proposals[j].status # "absent"
               PROVE  /\ proposals[i].identity # proposals[j].identity
                      /\ {proposals[i].status, proposals[j].status} = {"proposed"} =>
                            source_path(i) # source_path(j)
    BY DEF NoDuplicates
  <2>1. proposals[i].identity # proposals[j].identity
    BY <1>1 DEF SourceInv, Sources, Unique
  <2>2. ASSUME {proposals[i].status, proposals[j].status} = {"proposed"}
        PROVE  source_path(i) # source_path(j)
    <3>1. proposals[i].status = "proposed" /\ proposals[j].status = "proposed"
      BY <2>2
    <3>2. \/ proposals[i].source_root # proposals[j].source_root
          \/ proposals[i].source_relative # proposals[j].source_relative
      BY <1>1, <3>1 DEF SourceInv, Sources, Unique
    <3>3. \A k \in {i, j} : /\ proposals[k].source_root \in RootId
                            /\ roots[proposals[k].source_root].dir # NoDir
      BY <1>1, <3>1 DEF SourceInv, Sources, Resolved
    <3>4. \/ roots[proposals[i].source_root].dir # roots[proposals[j].source_root].dir
          \/ proposals[i].source_relative # proposals[j].source_relative
      BY <1>1, <3>2, <3>3 DEF SourceInv, Sources, Apart
    <3> QED
      BY <3>4 DEF source_path
  <2> QED
    BY <2>1, <2>2
<1>2. SourceInv => NoDuplicates
  BY <1>1
<1> QED
  BY <1>2, SourceInvariant, PTL

-----------------------------------------------------------------------------
(***************************************************************************)
(* Recovery.  The query behind recover_without_guessing returns at most     *)
(* NONTERMINAL_LIMIT rows, and undo makes rows active without counting      *)
(* them, so what recovery settles depends on how many rows it finds.        *)
(***************************************************************************)
RecoverySeesAll == pc = "down" => Cardinality(Active) <= NONTERMINAL_LIMIT

RecoverPc == {"recover", "recover_save"}

(* Until recovery has looked at it, an interrupted row is on its list. *)
RecoverInv ==
    /\ pc \in RecoverPc =>
          \A id \in Id : rows[id].state \in Interrupted => id \in todo
    /\ pc = "recover_save" => todo = {}

(* Below the limit the query returns every active row. *)
LEMMA AllNonterminal ==
  ASSUME JournalTypeOK, Cardinality(Active) <= NONTERMINAL_LIMIT, NEW id \in Active
  PROVE  id \in nonterminal
<1> DEFINE before == {j \in Active : older(j, id)}
<1>1. Active \in SUBSET Id /\ before \in SUBSET Active /\ before \in SUBSET Id /\ id \in Id
  BY DEF Active
<1>2. id \notin before
  BY <1>1 DEF older, JournalTypeOK, Row, Id
<1>3. /\ IsFiniteSet(Active) /\ Cardinality(Active) \in Nat /\ Cardinality(before) \in Nat
  BY <1>1, IdsFinite
<1> HIDE DEF before
<1>4. Cardinality(before) <= Cardinality(Active) /\ Cardinality(Active) # Cardinality(before)
  BY <1>1, <1>2, <1>3, FS_Subset
<1>5. Cardinality(before) < NONTERMINAL_LIMIT
  BY <1>3, <1>4, JournalAssumption
<1> QED
  BY <1>5 DEF nonterminal, before

(* The steps that enter recovery or stay in it. *)
LEMMA RecoverSteps ==
  ASSUME [Next]_vars, pc' \in RecoverPc
  PROVE  \/ open
         \/ \E id \in Id : recover_entry(id)
         \/ recover_end
         \/ UNCHANGED <<pc, todo, rows>>
<1> USE DEF RecoverPc, goto, leave
<1>1. ~Request
  BY ZenonT(60) DEF Request, set_paused, configure_agent, create_rule_from_proposal, add_root,
     remove_root, proposal_destination, choose_destination_path, choose_destination, rename,
     ignore, approve, undo, scan_once
<1>2. ~Mover
  BY DEF Mover, move_check, move_rename, move_verify, record_copying, stage_create,
     stage_copy, record_sha256, publish_stage, verify, record_published, retire_check,
     retire_unlink, record_removed, record, finish_approve, finish_undo, finish
<1>3. /\ ~choose_enrolled /\ ~enforce_journal_retention /\ ~save /\ ~scan_pause /\ ~scan_end
      /\ ~operation_error /\ ~crash
      /\ ~\E r \in RootId : scan_root(r)
      /\ ~\E n \in Name : scan_skip(n)
      /\ ~\E n \in Name, c \in RootId \cup {NoRoot} : consider(n, c)
  BY DEF choose_enrolled, choose_destination, enforce_journal_retention, save, scan_pause,
     scan_root, scan_skip, consider, scan_end, operation_error, crash
<1>4. CASE user_acts \/ time_passes \/ UNCHANGED vars
  BY <1>4 DEF user_acts, time_passes, set_clock, vars, journalVars, opVars
<1> QED
  BY <1>1, <1>2, <1>3, <1>4 DEF Next, Daemon

(* The list stays complete. *)
LEMMA RecoverInvStep ==
  ASSUME Inv, RecoverySeesAll, RecoverInv, [Next]_vars
  PROVE  RecoverInv'
<1> SUFFICES ASSUME pc' \in RecoverPc
             PROVE  /\ \A id \in Id : rows'[id].state \in Interrupted => id \in todo'
                    /\ pc' = "recover_save" => todo' = {}
  BY DEF RecoverInv, RecoverPc
<1>0. JournalTypeOK
  BY DEF Inv
<1>1. CASE open
  <2>1. /\ pc = "down" /\ pc' = "recover" /\ todo' = nonterminal
        /\ rows' = [id \in Id |-> IF id \in pruned THEN AbsentRow ELSE rows[id]]
    BY <1>1 DEF open, enforce_retention
  <2>2. ASSUME NEW id \in Id, rows'[id].state \in Interrupted PROVE id \in Active
    BY <2>1, <2>2, AbsentRowType DEF Interrupted, Active, ActiveState
  <2> QED
    BY <1>0, <2>1, <2>2, AllNonterminal DEF RecoverySeesAll
<1>2. ASSUME NEW id \in Id, recover_entry(id)
      PROVE  /\ \A j \in Id : rows'[j].state \in Interrupted => j \in todo'
             /\ pc' = "recover_save" => todo' = {}
  <2>1. pc = "recover" /\ pc' = pc /\ todo' = todo \ {id}
    BY <1>2 DEF recover_entry
  <2>2. rows'[id].state \notin Interrupted /\ \A j \in Id : j # id => rows'[j] = rows[j]
    <3>1. CASE rows' = rows /\ rows[id].state \notin Interrupted
      BY <3>1
    <3>2. ASSUME NEW v, NEW s \in {"completed", "needs_attention"}, transition(id, v, s)
          PROVE  rows'[id].state = s /\ \A j \in Id : j # id => rows'[j] = rows[j]
      BY <1>0, <3>2 DEF transition, JournalTypeOK, Row
    <3> QED
      BY <1>2, <3>1, <3>2 DEF recover_entry, journalVars, Interrupted
  <2> QED
    BY <2>1, <2>2 DEF RecoverInv, RecoverPc
<1>3. CASE recover_end
  BY <1>3 DEF recover_end, goto, journalVars, RecoverInv, RecoverPc
<1>4. CASE UNCHANGED <<pc, todo, rows>>
  BY <1>4 DEF RecoverInv
<1> QED
  BY <1>1, <1>2, <1>3, <1>4, RecoverSteps

(***************************************************************************)
(* As long as the daemon never restarts on more than NONTERMINAL_LIMIT      *)
(* active rows, no row is left in the middle of a move or of an undo when   *)
(* recovery has finished, whatever crashed, and how often, before.          *)
(***************************************************************************)
THEOREM RecoveryTheorem ==
  Spec /\ []RecoverySeesAll => RecoveryLeavesNoneInterrupted
<1> DEFINE Settled == (pc = "recover_save" /\ pc' = "idle") =>
                         \A id \in Id : rows[id].state \notin Interrupted
<1>1. RecoverInv => Settled
  BY DEF RecoverInv, RecoverPc
<1>2. Init => RecoverInv
  BY DEF Init, RecoverInv, RecoverPc
<1>3. Inv /\ RecoverySeesAll /\ RecoverInv /\ [Next]_vars => RecoverInv'
  BY RecoverInvStep
<1>4. Spec => []Inv
  BY InitInv, InvStep, PTL DEF Spec
<1> QED
  BY <1>1, <1>2, <1>3, <1>4, PTL DEF Spec, RecoveryLeavesNoneInterrupted
=============================================================================
