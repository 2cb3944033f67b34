------------------------------ MODULE Service ------------------------------
(***************************************************************************)
(* The review queue and the mover of crates/sortinghat-service, over the    *)
(* journal and the file system.  The daemon has one thread: it takes a      *)
(* request or a scan at pc = "idle" and runs it to its end.  The steps      *)
(* below cut an operation at every durable effect (a journal commit, a      *)
(* rename, an unlink, the replacement of state.json), because that is where *)
(* a crash, an I/O error or another program of the user can come between.   *)
(*                                                                          *)
(* A returned error is a step to "idle" that leaves memory as it is.        *)
(* Requests that are refused before their first effect change nothing and   *)
(* are not actions.                                                         *)
(***************************************************************************)
EXTENDS Journal, Fs

CONSTANTS
    MaxRootId,     \* bound: how many roots are ever enrolled
    NoDir,         \* the folder of a root that is not enrolled
    NoName,        \* no file name
    StartRoots,    \* the roots enrolled before the behaviour begins
    StartFiles,    \* the paths that hold a file when the behaviour begins
    Partial,       \* names with the suffix of an unfinished download
    Lossy,         \* to_string_lossy of a raw name
    StageName,     \* the name ".sortinghat-<id>.stage" of each proposal
    MAX_ROOTS,     \* roots at which add_root refuses (16)
    MAX_PROPOSALS, \* proposals awaiting review at which scanning pauses (1000)
    MAX_TERMINAL_PROPOSALS, \* finished proposals kept in the queue (10000)
    Interference,  \* whether other programs act while an operation runs
    MaxEdits,      \* bound: how often one proposal is edited; an i64 never overflows
    MaxUserSteps,  \* bound: what other programs do
    MaxFaults      \* bound: crashes and I/O errors

RootId == 1..MaxRootId
NoRoot == 0
Root   == [dir : Dir \cup {NoDir}, watched : BOOLEAN, destination : BOOLEAN]
NoRootEntry == [dir |-> NoDir, watched |-> FALSE, destination |-> FALSE]

ASSUME ServiceAssumption ==
    /\ MaxRootId \in Nat
    /\ NoDir \notin Dir
    /\ NoName \notin Name
    /\ StartRoots \in [RootId -> Root]
    /\ \A r, s \in RootId :
          StartRoots[r].dir = StartRoots[s].dir => r = s \/ StartRoots[r].dir = NoDir
    /\ StartFiles \subseteq Path
    /\ IsFiniteSet(StartFiles)
    /\ Cardinality(StartFiles) <= MaxIno /\ Cardinality(StartFiles) <= MaxVersion
    /\ Partial \subseteq Name
    /\ Lossy \in [Name -> Name]
    /\ StageName \in [Id -> Name]
    /\ \A i, j \in Id : StageName[i] = StageName[j] => i = j
    /\ MAX_ROOTS \in Nat /\ MAX_PROPOSALS \in Nat /\ MAX_TERMINAL_PROPOSALS \in Nat
    /\ Interference \in BOOLEAN
    /\ MaxUserSteps \in Nat /\ MaxFaults \in Nat
    /\ MaxEdits \in Nat /\ MaxRevision >= MaxEdits + 8

(* File names are finitely many: they are at most 255 bytes long. *)
ASSUME NamesFinite == IsFiniteSet(Name)

VARIABLES
    proposals,  \* the review queue, in memory; ids are in creation order
    roots,      \* the enrolled roots, in memory
    paused,     \* whether scanning is paused, in memory
    disk,       \* state.json: the three above as of the last save
    nextRoot,   \* the next fresh root id
    pc,         \* where the daemon is
    cur,        \* the operation that is running
    scan,       \* what is left of the running scan
    todo,       \* the journal rows that recovery has still to look at
    userSteps,  \* how many steps other programs have taken
    faults      \* how many crashes and I/O errors have happened

queueVars == <<proposals, roots, paused>>
opVars    == <<pc, cur, scan, todo>>
vars == <<journalVars, fsVars, queueVars, disk, nextRoot, opVars, userSteps, faults>>

Status == {"proposed", "completed", "ignored", "undone", "needs_attention"}
TerminalStatus == {"completed", "ignored", "undone"}

Proposal == [status           : Status \cup {"absent"},
             revision         : 0..MaxRevision,
             source_root      : RootId \cup {NoRoot},
             source_relative  : Name \cup {NoName},
             destination      : RootId \cup {NoRoot},
             destination_name : Name \cup {NoName},
             identity         : Identity]

AbsentProposal == [status |-> "absent", revision |-> 0, source_root |-> NoRoot,
                   source_relative |-> NoName, destination |-> NoRoot,
                   destination_name |-> NoName, identity |-> NoIdentity]

Disk == [proposals : [Id -> Proposal], roots : [RootId -> Root], paused : BOOLEAN]

(* What the running approve, undo or choose_destination_path holds on its stack. *)
Operation == [id       : Id \cup {0},
              revision : 0..MaxRevision,
              from     : Path \cup {NoPath},
              to       : Path \cup {NoPath},
              expected : Identity,
              fd       : Ino \cup {NoIno},
              digest   : Digest,
              undo     : BOOLEAN,
              root     : RootId \cup {NoRoot}]

NoOperation == [id |-> 0, revision |-> 0, from |-> NoPath, to |-> NoPath,
                expected |-> NoIdentity, fd |-> NoIno, digest |-> NoDigest,
                undo |-> FALSE, root |-> NoRoot]

Scan == [roots : SUBSET RootId, root : RootId \cup {NoRoot},
         files : SUBSET Name, created : BOOLEAN]

NoScan == [roots |-> {}, root |-> NoRoot, files |-> {}, created |-> FALSE]

MovePc == {"move_check", "move_rename", "move_verify", "undone"}
CopyPc == {"copying", "stage", "copy", "set_sha", "publish", "verify",
           "retire_check", "unlink"}
JournalPc == {"published", "source_removed", "completed"}
StorePc == {"choose_root", "choose", "scan", "retention", "save"}
OperationPc == MovePc \cup CopyPc \cup JournalPc \cup StorePc
Pc == OperationPc \cup {"idle", "down", "recover", "recover_save"}

-----------------------------------------------------------------------------
(* Lookups over the roots and the queue. *)
registered(r)     == r \in RootId /\ roots[r].dir # NoDir
is_destination(r) == registered(r) /\ roots[r].destination
is_watched(r)     == registered(r) /\ roots[r].watched

proposal_index(id, revision) ==
    proposals[id].status # "absent" /\ proposals[id].revision = revision

source_path(id) ==
    <<roots[proposals[id].source_root].dir, proposals[id].source_relative>>

(* Wrong variant: a new name is ignored. *)
destination_path_old_name(id) ==
    <<roots[proposals[id].destination].dir, proposals[id].source_relative>>

destination_path(id) ==
    <<roots[proposals[id].destination].dir, proposals[id].destination_name>>

destination_path_for(choice, name) ==
    IF is_destination(choice) THEN <<roots[choice].dir, name>> ELSE NoPath

awaiting == {id \in Id : proposals[id].status = "proposed"}

stage_path(id, folder) == <<folder, StageName[id]>>

(* All but the MAX_TERMINAL_PROPOSALS most recently created finished ones. *)
prune_terminal_proposals(queue) ==
    LET terminal == {id \in Id : queue[id].status \in TerminalStatus} IN
    [id \in Id |->
        IF id \in terminal
           /\ Cardinality({j \in terminal : j >= id}) > MAX_TERMINAL_PROPOSALS
        THEN AbsentProposal ELSE queue[id]]

(* The step pc = at has done its work and the operation goes on at next. *)
goto(at, next) == pc = at /\ pc' = next

(* The operation is over but for what is left at next. *)
leave(next) == pc' = next /\ cur' = NoOperation /\ scan' = NoScan

-----------------------------------------------------------------------------
(***************************************************************************)
(* save: serialise to state.json.next, fsync, rename over state.json.       *)
(* choose_destination_path saves the root it enrolled before it goes on.    *)
(***************************************************************************)
save ==
    /\ pc \in {"save", "choose_root", "recover_save"}
    /\ disk' = [proposals |-> proposals, roots |-> roots, paused |-> paused]
    /\ IF pc = "choose_root"
       THEN pc' = "choose" /\ UNCHANGED <<cur, scan>>
       ELSE leave("idle")
    /\ UNCHANGED <<journalVars, fsVars, queueVars, nextRoot, todo, userSteps, faults>>

set_paused(p) ==
    /\ pc = "idle"
    /\ paused' = p
    /\ leave("save")
    /\ UNCHANGED <<journalVars, fsVars, proposals, roots, disk, nextRoot, todo,
                   userSteps, faults>>

(* configure_metadata_agent and disable_agent: the settings only decide what *)
(* consider is told, but saving them saves everything else in memory too.    *)
configure_agent ==
    /\ pc = "idle"
    /\ leave("save")
    /\ UNCHANGED <<journalVars, fsVars, queueVars, disk, nextRoot, todo, userSteps, faults>>

(* A rule for the destination of a proposal, whatever its status. *)
create_rule_from_proposal(id) ==
    /\ pc = "idle"
    /\ proposals[id].status # "absent" /\ proposals[id].destination # NoRoot
    /\ leave("save")
    /\ UNCHANGED <<journalVars, fsVars, queueVars, disk, nextRoot, todo, userSteps, faults>>

(* The part of add_root before its save; it fails on an enrolled folder. *)
push_root(dir, watched, destination) ==
    /\ nextRoot \in RootId
    /\ Cardinality({r \in RootId : registered(r)}) < MAX_ROOTS
    /\ watched \/ destination
    /\ \A r \in RootId : roots[r].dir # dir
    /\ roots' = [roots EXCEPT ![nextRoot] =
                    [dir |-> dir, watched |-> watched, destination |-> destination]]
    /\ nextRoot' = nextRoot + 1

add_root(dir, watched, destination) ==
    /\ pc = "idle"
    /\ push_root(dir, watched, destination)
    /\ leave("save")
    /\ UNCHANGED <<journalVars, fsVars, proposals, paused, disk, todo, userSteps, faults>>

(* Wrong variant: does not look for proposals that need the root. *)
remove_root_unchecked(r) ==
    /\ pc = "idle"
    /\ registered(r)
    /\ roots' = [roots EXCEPT ![r] = NoRootEntry]
    /\ leave("save")
    /\ UNCHANGED <<journalVars, fsVars, proposals, paused, disk, nextRoot, todo,
                   userSteps, faults>>

remove_root(r) ==
    /\ pc = "idle"
    /\ registered(r)
    /\ \A id \in awaiting : proposals[id].source_root # r
    /\ roots' = [roots EXCEPT ![r] = NoRootEntry]
    /\ leave("save")
    /\ UNCHANGED <<journalVars, fsVars, proposals, paused, disk, nextRoot, todo,
                   userSteps, faults>>

-----------------------------------------------------------------------------
(***************************************************************************)
(* Editing a proposal: the journal row is revised first, then the queue     *)
(* entry, then state.json.  The row gets the raw name of the file, the      *)
(* queue entry its lossy form.                                              *)
(***************************************************************************)
choose_destination(id, revision, r) ==
    LET name == proposals[id].source_relative IN
    /\ is_destination(r)
    /\ proposal_index(id, revision) /\ revision <= MaxEdits
    /\ registered(proposals[id].source_root)
    /\ revise_proposal(id, revision, <<roots[r].dir, name>>)
    /\ proposals' = [proposals EXCEPT ![id] =
                        [@ EXCEPT !.revision = revision + 1,
                                  !.destination = r,
                                  !.destination_name = Lossy[name]]]
    /\ leave("save")
    /\ UNCHANGED <<fsVars, roots, paused, disk, nextRoot, todo, userSteps, faults>>

proposal_destination(id, revision, r) ==
    pc = "idle" /\ choose_destination(id, revision, r)

(* A folder under no destination root is enrolled before it is chosen. *)
choose_destination_path(id, revision, dir) ==
    /\ pc = "idle"
    /\ \/ \E r \in RootId : /\ is_destination(r) /\ roots[r].dir = dir
                            /\ choose_destination(id, revision, r)
       \/ /\ ~\E r \in RootId : is_destination(r) /\ roots[r].dir = dir
          /\ push_root(dir, FALSE, TRUE)
          /\ pc' = "choose_root"
          /\ cur' = [NoOperation EXCEPT !.id = id, !.revision = revision,
                                        !.root = nextRoot]
          /\ UNCHANGED <<journalVars, fsVars, proposals, paused, disk, scan, todo,
                         userSteps, faults>>

choose_enrolled ==
    pc = "choose" /\ choose_destination(cur.id, cur.revision, cur.root)

(* Wrong variant: the new name is not saved. *)
rename_unsaved(id, revision, name) ==
    /\ pc = "idle"
    /\ Lossy[name] = name
    /\ proposal_index(id, revision) /\ revision <= MaxEdits
    /\ is_destination(proposals[id].destination)
    /\ revise_proposal(id, revision, <<roots[proposals[id].destination].dir, name>>)
    /\ proposals' = [proposals EXCEPT ![id] = [@ EXCEPT !.revision = revision + 1,
                                                        !.destination_name = name]]
    /\ leave("idle")
    /\ UNCHANGED <<fsVars, roots, paused, disk, nextRoot, todo, userSteps, faults>>

(* The new name comes from a JSON string, so it is its own lossy form. *)
rename(id, revision, name) ==
    /\ pc = "idle"
    /\ Lossy[name] = name
    /\ proposal_index(id, revision) /\ revision <= MaxEdits
    /\ is_destination(proposals[id].destination)
    /\ revise_proposal(id, revision, <<roots[proposals[id].destination].dir, name>>)
    /\ proposals' = [proposals EXCEPT ![id] = [@ EXCEPT !.revision = revision + 1,
                                                        !.destination_name = name]]
    /\ leave("save")
    /\ UNCHANGED <<fsVars, roots, paused, disk, nextRoot, todo, userSteps, faults>>

(* The queue entry follows the journal into a final status. *)
settle(id, revision, status) ==
    proposals' = prune_terminal_proposals(
        [proposals EXCEPT ![id] = [@ EXCEPT !.revision = revision + 1,
                                            !.status = status]])

ignore(id, revision) ==
    /\ pc = "idle"
    /\ proposal_index(id, revision)
    /\ transition(id, revision, "ignored")
    /\ settle(id, revision, "ignored")
    /\ leave("retention")
    /\ UNCHANGED <<fsVars, roots, paused, disk, nextRoot, todo, userSteps, faults>>

(* enforce_journal_retention deletes, then fails if the files are too large. *)
enforce_journal_retention ==
    /\ pc = "retention"
    /\ enforce_retention
    /\ leave("save") \/ leave("idle")
    /\ UNCHANGED <<fsVars, queueVars, disk, nextRoot, todo, userSteps, faults>>

-----------------------------------------------------------------------------
(***************************************************************************)
(* approve: every check before the Approved commit reads only.  The source  *)
(* is opened here (verified_fd); its identity is compared later.            *)
(***************************************************************************)
approve(id, revision) ==
    LET proposal == proposals[id]
        from == source_path(id)
        to == destination_path(id)
    IN
    /\ pc = "idle"
    /\ proposal_index(id, revision)
    /\ is_destination(proposal.destination)
    /\ is_watched(proposal.source_root)
    /\ exists(from)
    /\ ~destination_exists_case_folded(to)
    /\ transition(id, revision, "approved")
    /\ proposals' = [proposals EXCEPT ![id] = [@ EXCEPT !.revision = revision + 1]]
    /\ cur' = [NoOperation EXCEPT !.id = id, !.revision = revision + 1,
                                  !.from = from, !.to = to,
                                  !.expected = proposal.identity,
                                  !.fd = entry[from]]
    /\ pc' = IF same_device(parent(from), parent(to)) THEN "move_check" ELSE "copying"
    /\ UNCHANGED <<fsVars, roots, paused, disk, nextRoot, scan, todo, userSteps, faults>>

(* undo: refused across devices and on an occupied original. *)
undo(id, revision) ==
    LET proposal == proposals[id]
        source == source_path(id)
        destination == destination_path(id)
    IN
    /\ pc = "idle"
    /\ proposal_index(id, revision)
    /\ proposal.status = "completed"
    /\ registered(proposal.source_root)
    /\ is_destination(proposal.destination)
    /\ ~destination_exists_case_folded(source)
    /\ same_device(parent(source), parent(destination))
    /\ transition(id, revision, "undoing")
    /\ cur' = [NoOperation EXCEPT !.id = id, !.revision = revision + 1,
                                  !.from = destination, !.to = source,
                                  !.expected = proposal.identity,
                                  !.undo = TRUE]
    /\ pc' = "move_check"
    /\ UNCHANGED <<fsVars, queueVars, disk, nextRoot, scan, todo, userSteps, faults>>

(* What a step of the mover leaves alone. *)
unchangedByMover == UNCHANGED <<queueVars, disk, nextRoot, scan, todo, userSteps, faults>>

(* same_filesystem_move_at: compare the identity, rename by name, compare again. *)
move_check ==
    /\ goto("move_check", "move_rename")
    /\ matches(cur.from, cur.expected)
    /\ UNCHANGED <<journalVars, fsVars, cur>> /\ unchangedByMover

move_rename ==
    /\ goto("move_rename", "move_verify")
    /\ renameat_noreplace(cur.from, cur.to)
    /\ UNCHANGED <<journalVars, cur>> /\ unchangedByMover

move_verify ==
    /\ goto("move_verify", IF cur.undo THEN "undone" ELSE "published")
    /\ matches(cur.to, cur.expected)
    /\ UNCHANGED <<journalVars, fsVars, cur>> /\ unchangedByMover

(* A journal commit in the middle of the operation. *)
record(at, state, next) ==
    /\ goto(at, next)
    /\ transition(cur.id, cur.revision, state)
    /\ cur' = [cur EXCEPT !.revision = @ + 1]
    /\ UNCHANGED fsVars /\ unchangedByMover

record_copying   == record("copying", "copying", "stage")
record_published ==
    record("published", "published",
           IF cur.digest = NoDigest THEN "source_removed" ELSE "retire_check")
record_removed   == record("source_removed", "source_removed", "completed")

(* verified_stage_copy_at: identity of the descriptor, exclusive create. *)
stage_create ==
    /\ goto("stage", "copy")
    /\ nlink(cur.fd) = 1 /\ identity_fd(cur.fd) = cur.expected
    /\ create_exclusive(stage_path(cur.id, parent(cur.to)))
    /\ UNCHANGED <<journalVars, cur>> /\ unchangedByMover

(* What reading the descriptor returns: its content, or any mixture of old  *)
(* and new if the file was rewritten since the identity was compared.       *)
read_result ==
    {version[cur.fd]} \cup
    IF version[cur.fd] = cur.expected.version THEN {}
    ELSE {cur.expected.version, Torn}

(* Wrong variant: a short read is taken for the end of the file. *)
stage_copy_short ==
    /\ goto("copy", "set_sha")
    /\ exists(stage_path(cur.id, parent(cur.to)))
    /\ write_all(entry[stage_path(cur.id, parent(cur.to))], Torn)
    /\ cur' = [cur EXCEPT !.digest = Torn]
    /\ UNCHANGED journalVars /\ unchangedByMover

stage_copy ==
    /\ goto("copy", "set_sha")
    /\ exists(stage_path(cur.id, parent(cur.to)))
    /\ \E v \in read_result :
          /\ write_all(entry[stage_path(cur.id, parent(cur.to))], v)
          /\ cur' = [cur EXCEPT !.digest = v]
    /\ UNCHANGED journalVars /\ unchangedByMover

(* Wrong variant: the digest is never recorded. *)
record_no_sha256 ==
    /\ goto("set_sha", "publish")
    /\ UNCHANGED <<journalVars, fsVars, cur>> /\ unchangedByMover

record_sha256 ==
    /\ goto("set_sha", "publish")
    /\ set_sha256(cur.id, cur.digest)
    /\ UNCHANGED <<fsVars, cur>> /\ unchangedByMover

publish_stage ==
    /\ goto("publish", "verify")
    /\ renameat_noreplace(stage_path(cur.id, parent(cur.to)), cur.to)
    /\ UNCHANGED <<journalVars, cur>> /\ unchangedByMover

verify ==
    /\ goto("verify", "published")
    /\ exists(cur.to) /\ sha256_file(cur.to) = cur.digest
    /\ UNCHANGED <<journalVars, fsVars, cur>> /\ unchangedByMover

(* retire_source_at: identity and digest are compared, then unlink by name. *)
retire_check ==
    /\ goto("retire_check", "unlink")
    /\ matches(cur.from, cur.expected) /\ sha256_file(cur.from) = cur.digest
    /\ UNCHANGED <<journalVars, fsVars, cur>> /\ unchangedByMover

retire_unlink ==
    /\ goto("unlink", "source_removed")
    /\ unlinkat(cur.from)
    /\ UNCHANGED <<journalVars, cur>> /\ unchangedByMover

(* The last commit of approve and of undo, with the queue entry's new status. *)
finish(at, state) ==
    /\ pc = at
    /\ transition(cur.id, cur.revision, state)
    /\ settle(cur.id, cur.revision, state)
    /\ leave("retention")
    /\ UNCHANGED <<fsVars, roots, paused, disk, nextRoot, todo, userSteps, faults>>

finish_approve == finish("completed", "completed")
finish_undo    == finish("undone", "undone")

-----------------------------------------------------------------------------
(***************************************************************************)
(* scan_once: the watched roots in turn, their files in any order.          *)
(***************************************************************************)
queue_full == Cardinality(awaiting) >= MAX_PROPOSALS

scan_once ==
    /\ pc = "idle" /\ ~paused /\ ~queue_full
    /\ pc' = "scan"
    /\ scan' = [NoScan EXCEPT !.roots = {r \in RootId : is_watched(r)}]
    /\ UNCHANGED <<journalVars, fsVars, queueVars, disk, nextRoot, cur, todo,
                   userSteps, faults>>

(* A full queue pauses scanning, before the first file or between two. *)
scan_pause ==
    /\ pc = "idle" \/ (pc = "scan" /\ scan.files # {})
    /\ ~paused /\ queue_full
    /\ paused' = TRUE
    /\ leave("save")
    /\ UNCHANGED <<journalVars, fsVars, proposals, roots, disk, nextRoot, todo,
                   userSteps, faults>>

(* Wrong variant: a root that was listed stays among those to list. *)
scan_root_again(r) ==
    /\ pc = "scan" /\ scan.files = {}
    /\ r \in scan.roots /\ \A s \in scan.roots : r <= s
    /\ scan' = [scan EXCEPT !.root = r,
                            !.files = {n \in Name : exists(<<roots[r].dir, n>>)}]
    /\ UNCHANGED <<journalVars, fsVars, queueVars, disk, nextRoot, pc, cur, todo,
                   userSteps, faults>>

scan_root(r) ==
    /\ pc = "scan" /\ scan.files = {}
    /\ r \in scan.roots /\ \A s \in scan.roots : r <= s
    /\ scan' = [scan EXCEPT !.roots = @ \ {r}, !.root = r,
                            !.files = {n \in Name : exists(<<roots[r].dir, n>>)}]
    /\ UNCHANGED <<journalVars, fsVars, queueVars, disk, nextRoot, pc, cur, todo,
                   userSteps, faults>>

already_proposed(r, n) ==
    \E id \in awaiting : /\ proposals[id].source_root = r
                         /\ proposals[id].source_relative = n

(* Wrong variant: only entries that await review count. *)
duplicate_awaiting(identity) ==
    \E id \in awaiting : proposals[id].identity = identity

duplicate_identity(identity) ==
    \E id \in Id : proposals[id].status # "absent" /\ proposals[id].identity = identity

(* consider returns false: a partial download, a file already in the queue, *)
(* or one whose samples have not been equal for long enough.                *)
scan_skip(n) ==
    /\ pc = "scan" /\ n \in scan.files /\ ~queue_full
    /\ \/ n \in Partial
       \/ already_proposed(scan.root, n)
       \/ single_link(<<roots[scan.root].dir, n>>)
    /\ scan' = [scan EXCEPT !.files = @ \ {n}]
    /\ UNCHANGED <<journalVars, fsVars, queueVars, disk, nextRoot, pc, cur, todo,
                   userSteps, faults>>

(* What a rule or the agent may choose: nothing, an enrolled destination    *)
(* root, or, for a rule, one that was removed since the rule was made.      *)
decision == {NoRoot} \cup {r \in RootId : r < nextRoot /\ (registered(r) => is_destination(r))}

(* A settled new file: the journal row, then the queue entry.               *)
consider(n, choice) ==
    LET p == <<roots[scan.root].dir, n>> IN
    /\ pc = "scan" /\ n \in scan.files /\ ~queue_full
    /\ choice \in decision
    /\ n \notin Partial /\ ~already_proposed(scan.root, n) /\ single_link(p)
    /\ ~duplicate_identity(identity_fd(entry[p]))
    /\ create(nextId, p, destination_path_for(choice, n))
    /\ proposals' = [proposals EXCEPT ![nextId] =
           [status |-> "proposed", revision |-> 1,
            source_root |-> scan.root, source_relative |-> n,
            destination |-> choice, destination_name |-> Lossy[n],
            identity |-> identity_fd(entry[p])]]
    /\ scan' = [scan EXCEPT !.files = @ \ {n}, !.created = TRUE]
    /\ UNCHANGED <<fsVars, roots, paused, disk, nextRoot, pc, cur, todo,
                   userSteps, faults>>

(* The file is gone or hard-linked, or the journal is full: the scan aborts. *)
consider_fails(n) ==
    LET p == <<roots[scan.root].dir, n>> IN
    /\ n \notin Partial /\ ~already_proposed(scan.root, n)
    /\ \/ ~single_link(p)
       \/ /\ Cardinality(Active) >= MAX_ACTIVE /\ single_link(p)
          /\ ~duplicate_identity(identity_fd(entry[p]))

(* Only a scan that created something is saved. *)
scan_end ==
    /\ pc = "scan" /\ scan.files = {} /\ scan.roots = {}
    /\ leave(IF scan.created THEN "save" ELSE "idle")
    /\ UNCHANGED <<journalVars, fsVars, queueVars, disk, nextRoot, todo,
                   userSteps, faults>>

-----------------------------------------------------------------------------
(***************************************************************************)
(* Errors.  refused: the checks of the running step do not hold, so the     *)
(* step returns its error.  Any step may also fail with an I/O or database  *)
(* error.  Either way the operation returns and nothing is rolled back.     *)
(***************************************************************************)
(* Wrong variant: a failed identity check is tried again for ever. *)
refused_unless_moving ==
    LET stage_at == stage_path(cur.id, parent(cur.to)) IN
    \/ pc = "stage" /\ (identity_fd(cur.fd) # cur.expected \/ exists(stage_at))
    \/ pc = "publish" /\ (~exists(stage_at) \/ exists(cur.to))
    \/ pc = "scan" /\ ~queue_full /\ \E n \in scan.files : consider_fails(n)

refused ==
    LET stage_at == stage_path(cur.id, parent(cur.to)) IN
    \/ pc = "move_check"  /\ ~matches(cur.from, cur.expected)
    \/ pc = "move_rename" /\ (~exists(cur.from) \/ exists(cur.to))
    \/ pc = "move_verify" /\ ~matches(cur.to, cur.expected)
    \/ pc = "stage" /\ \/ nlink(cur.fd) # 1 \/ identity_fd(cur.fd) # cur.expected
                       \/ exists(stage_at) \/ nextIno \notin Ino
    \/ pc = "copy" /\ version[cur.fd] # cur.expected.version
    \/ pc = "publish" /\ (~exists(stage_at) \/ exists(cur.to))
    \/ pc = "verify" /\ ~(exists(cur.to) /\ sha256_file(cur.to) = cur.digest)
    \/ pc = "retire_check" /\ ~(/\ matches(cur.from, cur.expected)
                                /\ sha256_file(cur.from) = cur.digest)
    \/ pc = "unlink" /\ ~exists(cur.from)
    \/ pc = "choose" /\ \/ ~proposal_index(cur.id, cur.revision)
                        \/ cur.revision > MaxEdits
                        \/ ~registered(proposals[cur.id].source_root)
                        \/ rows[cur.id].revision # cur.revision
                        \/ rows[cur.id].state # "proposed"
    \/ pc = "scan" /\ ~queue_full /\ \E n \in scan.files : consider_fails(n)

(* Wrong variant: a failed operation cleans up its destination. *)
operation_error_cleans ==
    /\ pc \in OperationPc
    /\ \/ refused /\ faults' = faults
       \/ ~refused /\ faults < MaxFaults /\ faults' = faults + 1
    /\ leave("idle")
    /\ entry' = [p \in Path |-> IF p = cur.to THEN NoIno ELSE entry[p]]
    /\ UNCHANGED <<journalVars, version, nextIno, nextVersion, queueVars, disk,
                   nextRoot, todo, userSteps>>

operation_error ==
    /\ pc \in OperationPc
    /\ \/ refused /\ faults' = faults
       \/ ~refused /\ faults < MaxFaults /\ faults' = faults + 1
    /\ leave("idle")
    /\ UNCHANGED <<journalVars, fsVars, queueVars, disk, nextRoot, todo, userSteps>>

-----------------------------------------------------------------------------
(***************************************************************************)
(* Crash and restart.  Memory is what state.json holds; the journal and the *)
(* files are as they were left.  An error of open, the save that ends       *)
(* recovery included, also ends the process.                                *)
(***************************************************************************)
crash ==
    /\ pc # "down" /\ faults < MaxFaults /\ faults' = faults + 1
    /\ proposals' = disk.proposals
    /\ roots' = disk.roots
    /\ paused' = disk.paused
    /\ leave("down")
    /\ todo' = {}
    /\ UNCHANGED <<journalVars, fsVars, disk, nextRoot, userSteps>>

open ==
    /\ pc = "down"
    /\ enforce_retention
    /\ proposals' = prune_terminal_proposals(proposals)
    /\ todo' = nonterminal
    /\ pc' = "recover"
    /\ UNCHANGED <<fsVars, roots, paused, disk, nextRoot, cur, scan, userSteps, faults>>

verify_recovery_destination(p, identity, sha256) ==
    /\ p # NoPath /\ single_link(p)
    /\ IF sha256 # NoDigest THEN sha256_file(p) = sha256
                            ELSE identity_fd(entry[p]) = identity

(* The queue entry, if the row still has one, follows the row. *)
recovered(id, status) ==
    proposals' = IF proposals[id].status = "absent" THEN proposals
                 ELSE [proposals EXCEPT ![id] =
                          [@ EXCEPT !.revision = rows[id].revision + 1,
                                    !.status = status]]

Interrupted == {"approved", "copying", "published", "source_removed", "undoing"}

(* Wrong variant: trusts that the paths exist. *)
evidence_of_paths(id) ==
    /\ rows[id].state = "source_removed"
    /\ rows[id].destination # NoPath /\ exists(rows[id].destination)
    /\ proposals[id].status # "absent"

(* The evidence that lets recovery complete a row. *)
evidence(id) ==
    /\ rows[id].state = "source_removed"
    /\ ~(rows[id].source # NoPath /\ exists(rows[id].source))
    /\ proposals[id].status # "absent"
    /\ verify_recovery_destination(rows[id].destination, proposals[id].identity,
                                   rows[id].sha256)

(* Wrong variant: an interrupted undo is overlooked. *)
recover_entry_not_undoing(id) ==
    /\ pc = "recover" /\ id \in todo
    /\ todo' = todo \ {id}
    /\ \/ /\ rows[id].state \in Interrupted \ {"undoing"}
          /\ transition(id, rows[id].revision, "needs_attention")
          /\ recovered(id, "needs_attention")
       \/ /\ rows[id].state \notin Interrupted \ {"undoing"}
          /\ UNCHANGED <<journalVars, proposals>>
    /\ UNCHANGED <<fsVars, roots, paused, disk, nextRoot, pc, cur, scan,
                   userSteps, faults>>

recover_entry(id) ==
    /\ pc = "recover" /\ id \in todo
    /\ todo' = todo \ {id}
    /\ \/ /\ evidence(id)
          /\ transition(id, rows[id].revision, "completed")
          /\ recovered(id, "completed")
       \/ /\ ~evidence(id) /\ rows[id].state \in Interrupted
          /\ transition(id, rows[id].revision, "needs_attention")
          /\ recovered(id, "needs_attention")
       \/ /\ rows[id].state \notin Interrupted
          /\ UNCHANGED <<journalVars, proposals>>
    /\ UNCHANGED <<fsVars, roots, paused, disk, nextRoot, pc, cur, scan,
                   userSteps, faults>>

recover_end ==
    /\ goto("recover", "recover_save") /\ todo = {}
    /\ UNCHANGED <<journalVars, fsVars, queueVars, disk, nextRoot, cur, scan, todo,
                   userSteps, faults>>

-----------------------------------------------------------------------------
UserPath == {p \in Path : \A id \in Id : file_name(p) # StageName[id]}

(* Other programs use the same folders; they leave the staging names alone. *)
user_acts ==
    /\ userSteps < MaxUserSteps /\ userSteps' = userSteps + 1
    /\ Interference \/ pc \in {"idle", "down"}
    /\ user_step(UserPath)
    /\ UNCHANGED <<journalVars, queueVars, disk, nextRoot, opVars, faults>>

time_passes ==
    /\ set_clock
    /\ UNCHANGED <<fsVars, queueVars, disk, nextRoot, opVars, userSteps, faults>>

-----------------------------------------------------------------------------
StartQueue == [id \in Id |-> AbsentProposal]

(* Enrolled roots, an empty queue, and single-link files under the folders. *)
Init ==
    /\ JournalInit
    /\ version = [i \in Ino |-> IF i <= Cardinality(StartFiles) THEN i ELSE Torn]
    /\ entry \in {f \in [Path -> Ino \cup {NoIno}] :
          /\ \A p \in Path : f[p] # NoIno <=> p \in StartFiles
          /\ \A p \in StartFiles : f[p] <= Cardinality(StartFiles)
          /\ \A p, q \in StartFiles : f[p] = f[q] => p = q}
    /\ nextIno = Cardinality(StartFiles) + 1
    /\ nextVersion = Cardinality(StartFiles) + 1
    /\ proposals = StartQueue /\ roots = StartRoots /\ paused = FALSE
    /\ disk = [proposals |-> StartQueue, roots |-> StartRoots, paused |-> FALSE]
    /\ nextRoot \in 1..(MaxRootId + 1)
    /\ \A r \in RootId : r < nextRoot <=> StartRoots[r].dir # NoDir
    /\ pc = "idle" /\ cur = NoOperation /\ scan = NoScan /\ todo = {}
    /\ userSteps = 0 /\ faults = 0

Request ==
    \/ \E p \in BOOLEAN : set_paused(p)
    \/ configure_agent
    \/ \E id \in Id : create_rule_from_proposal(id)
    \/ \E d \in Dir, w \in BOOLEAN, t \in BOOLEAN : add_root(d, w, t)
    \/ \E r \in RootId : remove_root(r)
    \/ \E id \in Id, v \in 0..MaxRevision, r \in RootId : proposal_destination(id, v, r)
    \/ \E id \in Id, v \in 0..MaxRevision, d \in Dir : choose_destination_path(id, v, d)
    \/ \E id \in Id, v \in 0..MaxRevision, n \in Name : rename(id, v, n)
    \/ \E id \in Id, v \in 0..MaxRevision : ignore(id, v)
    \/ \E id \in Id, v \in 0..MaxRevision : approve(id, v)
    \/ \E id \in Id, v \in 0..MaxRevision : undo(id, v)
    \/ scan_once

Mover ==
    \/ move_check \/ move_rename \/ move_verify
    \/ record_copying \/ stage_create \/ stage_copy \/ record_sha256
    \/ publish_stage \/ verify \/ record_published
    \/ retire_check \/ retire_unlink \/ record_removed
    \/ finish_approve \/ finish_undo

Daemon ==
    \/ Mover
    \/ choose_enrolled \/ enforce_journal_retention \/ save
    \/ scan_pause
    \/ \E r \in RootId : scan_root(r)
    \/ \E n \in Name : scan_skip(n)
    \/ \E n \in Name, c \in RootId \cup {NoRoot} : consider(n, c)
    \/ scan_end
    \/ operation_error
    \/ open \/ (\E id \in Id : recover_entry(id)) \/ recover_end

Next == Request \/ Daemon \/ crash \/ user_acts \/ time_passes

Spec == Init /\ [][Next]_vars

(* The daemon's thread keeps running: its steps are system calls that return *)
(* and systemd restarts the process (Restart=on-failure).  Nobody has to     *)
(* send a request, and nothing has to crash.                                 *)
FairSpec == Spec /\ WF_vars(Daemon)

-----------------------------------------------------------------------------
(* Every variable has its type. *)
TypeOK ==
    /\ JournalTypeOK /\ FsTypeOK
    /\ proposals \in [Id -> Proposal]
    /\ roots \in [RootId -> Root]
    /\ paused \in BOOLEAN
    /\ disk \in Disk
    /\ nextRoot \in 1..(MaxRootId + 1)
    /\ pc \in Pc
    /\ cur \in Operation
    /\ scan \in Scan
    /\ todo \subseteq Id
    /\ userSteps \in 0..MaxUserSteps
    /\ faults \in 0..MaxFaults

(* A step of the program, as opposed to one of the user's other programs. *)
OwnStep == userSteps' = userSteps

(***************************************************************************)
(* The program never removes the last copy of a content: whatever version   *)
(* some name held before one of its steps is held by some name after it,    *)
(* through crashes, failed steps and restarts (retire_source_at after       *)
(* verify_at; SPEC.md:40).                                                  *)
(***************************************************************************)
LastCopyKept ==
    [][OwnStep =>
          \A p \in Path : (exists(p) /\ version[entry[p]] # Torn) =>
             \E q \in Path : /\ entry'[q] # NoIno
                             /\ version'[entry'[q]] = version[entry[p]]]_vars

(***************************************************************************)
(* No overwrite: a name that is bound to a file is never bound to another   *)
(* file by the program, whatever other programs create between the          *)
(* collision check of approve or undo and the rename (RENAME_NOREPLACE,     *)
(* O_EXCL; SPEC.md:30).                                                     *)
(***************************************************************************)
NoOverwrite ==
    [][OwnStep => \A p \in Path : exists(p) => entry'[p] \in {entry[p], NoIno}]_vars

(***************************************************************************)
(* No case-fold collision: when nothing interferes, the name a move or an   *)
(* undo binds differs from every other name of the folder by more than its  *)
(* case, even though other moves finished, failed or crashed since it was   *)
(* reviewed (destination_exists_case_folded; SPEC.md:30).                   *)
(***************************************************************************)
NoCaseCollision ==
    [][OwnStep =>
          \A p \in UserPath : (~exists(p) /\ entry'[p] # NoIno) =>
             \A n \in Name \ {file_name(p)} :
                Fold[n] = Fold[file_name(p)] => entry'[<<parent(p), n>>] = NoIno]_vars

(* One step of the program, seen from the row of the running operation. *)
IntentStep ==
    (OwnStep /\ entry' # entry) =>
        /\ cur.id \in Id
        /\ LET row == rows[cur.id]
               changed == {p \in Path : entry'[p] # entry[p]}
               staging == stage_path(cur.id, parent(row.destination))
           IN
           \/ row.state = "approved" /\ changed = {row.source, row.destination}
           \/ row.state = "copying" /\ changed = {staging}
           \/ /\ row.state = "copying" /\ row.sha256 # NoDigest
              /\ changed = {staging, row.destination}
           \/ /\ row.state = "published" /\ row.sha256 # NoDigest
              /\ changed = {row.source}
           \/ /\ row.state = "undoing" /\ changed = {row.source, cur.from}
              /\ entry[row.source] = NoIno

(***************************************************************************)
(* Durable intent: when the program changes a name, the committed journal   *)
(* row of the running operation already says so.  Under "approved" it moves *)
(* the row's source to the row's destination, under "copying" it creates    *)
(* the staging file and publishes it once the row holds its digest, under   *)
(* "published" it unlinks the row's source, and under "undoing" it moves    *)
(* one file back to the row's source (SPEC.md:23).                          *)
(***************************************************************************)
DurableIntent == [][IntentStep]_vars

(***************************************************************************)
(* The queue never runs ahead of the journal, in memory or in state.json,   *)
(* in whatever order commits, failed saves and crashes happen: a queue      *)
(* entry is at most at the row's revision; at the same revision it shows    *)
(* the row's state and, while it awaits review, the row's destination; and  *)
(* an entry that lost its row to retention does not await attention.        *)
(***************************************************************************)
StatusOf(state) == IF state = "approved" THEN "proposed" ELSE state

QueueAgrees(queue, enrolled) ==
    \A id \in Id : queue[id].status # "absent" =>
        LET entry_ == queue[id]  row == rows[id] IN
        \/ row.state = "absent" /\ entry_.status # "needs_attention" /\ id < nextId
        \/ /\ row.state # "absent"
           /\ entry_.revision <= row.revision
           /\ entry_.revision = row.revision => entry_.status = StatusOf(row.state)
           /\ (entry_.revision = row.revision /\ row.state = "proposed"
               /\ entry_.destination \in RootId
               /\ enrolled[entry_.destination].dir # NoDir
               /\ enrolled[entry_.destination].destination) =>
                  row.destination = <<enrolled[entry_.destination].dir,
                                      entry_.destination_name>>

QueueNeverAhead ==
    QueueAgrees(proposals, roots) /\ QueueAgrees(disk.proposals, disk.roots)

(***************************************************************************)
(* When an entry becomes "completed", by approve or by recovery, the        *)
(* reviewed content is at the row's destination and the source is gone.     *)
(***************************************************************************)
CompletedMeansMoved ==
    [][\A id \in Id :
          (proposals'[id].status = "completed"
           /\ proposals[id].status # "completed" /\ pc' # "down") =>
             /\ ~exists(rows[id].source)
             /\ exists(rows[id].destination)
             /\ version[entry[rows[id].destination]] = proposals[id].identity.version]_vars

(***************************************************************************)
(* When an entry becomes "undone" the reviewed inode, unchanged, is back at *)
(* its source and under no other name, and the name that the queue showed   *)
(* for it is free again.                                                    *)
(***************************************************************************)
UndoRestores ==
    [][\A id \in Id :
          (proposals'[id].status = "undone" /\ proposals[id].status = "completed"
           /\ pc' # "down") =>
             /\ single_link(rows[id].source)
             /\ identity_fd(entry[rows[id].source]) = proposals[id].identity
             /\ ~exists(destination_path(id))]_vars

(***************************************************************************)
(* No file is in the queue twice: no two entries await review for the same  *)
(* source, and no two entries at all have the same identity, over rescans,  *)
(* undo, crashes and restarts (consider; SPEC.md:29 "Debounce duplicates"). *)
(***************************************************************************)
NoDuplicates ==
    \A i, j \in Id :
        (i # j /\ proposals[i].status # "absent" /\ proposals[j].status # "absent") =>
            /\ proposals[i].identity # proposals[j].identity
            /\ {proposals[i].status, proposals[j].status} = {"proposed"} =>
                  source_path(i) # source_path(j)

(***************************************************************************)
(* The source of every entry that awaits review can be resolved: its root   *)
(* is enrolled, in memory and after a restart (remove_root).                *)
(***************************************************************************)
SourcesResolve ==
    \A id \in Id :
        /\ proposals[id].status = "proposed" => registered(proposals[id].source_root)
        /\ disk.proposals[id].status = "proposed" =>
              disk.roots[disk.proposals[id].source_root].dir # NoDir

(***************************************************************************)
(* When restart has finished its recovery, no row is left in the middle of  *)
(* a move or of an undo (BUILDLOG: "All other interrupted mutation states   *)
(* preserve copies and enter needs_attention").                             *)
(***************************************************************************)
RecoveryLeavesNoneInterrupted ==
    [][(pc = "recover_save" /\ pc' = "idle") =>
          \A id \in Id : rows[id].state \notin Interrupted]_vars

(***************************************************************************)
(* While an approved move runs, the row names the very paths that the mover *)
(* works on: what recovery would look at after a crash is what was touched  *)
(* (approve resolves the queue entry, recovery the row; SPEC.md:27).        *)
(***************************************************************************)
JournalNamesTarget ==
    (pc \in MovePc \cup CopyPc \cup JournalPc /\ ~cur.undo) =>
        cur.from = rows[cur.id].source /\ cur.to = rows[cur.id].destination

(***************************************************************************)
(* A completed entry that still has its row shows the destination to which  *)
(* the file was moved, so that undo looks for it there, although the edits, *)
(* the move and the completion reach state.json at different times: one     *)
(* crash or failed save never leaves them apart (save before approve;       *)
(* recover_without_guessing completes whatever entry it finds).             *)
(***************************************************************************)
CompletedShowsDestination ==
    faults <= 1 =>
        \A id \in Id :
            (/\ proposals[id].status = "completed" /\ rows[id].state = "completed"
             /\ is_destination(proposals[id].destination)) =>
                destination_path(id) = rows[id].destination

(***************************************************************************)
(* What the journal has completed, the queue shows as completed whenever    *)
(* the daemon waits for requests, so that it can be undone.                 *)
(***************************************************************************)
CompletedIsShown ==
    pc = "idle" =>
        \A id \in Id : (rows[id].state = "completed" /\ proposals[id].status # "absent")
                          => proposals[id].status = "completed"

(***************************************************************************)
(* How many steps the daemon takes at most before it waits for a request    *)
(* again: an operation by where it is, a scan by the roots and files that   *)
(* are left of it, a restart by the rows that recovery has still to see.    *)
(***************************************************************************)
place == [idle |-> 0, save |-> 1, recover_save |-> 1, retention |-> 2, choose |-> 2,
          choose_root |-> 3, undone |-> 3, completed |-> 3, source_removed |-> 4,
          unlink |-> 5, retire_check |-> 6, published |-> 7, move_verify |-> 8,
          move_rename |-> 9, move_check |-> 10, verify |-> 8, publish |-> 9,
          set_sha |-> 10, copy |-> 11, stage |-> 12, copying |-> 13]

stepsLeft ==
    CASE pc = "scan"    -> 2 + Cardinality(scan.files)
                             + Cardinality(scan.roots) * (Cardinality(Name) + 1)
      [] pc = "recover" -> 2 + Cardinality(todo)
      [] pc = "down"    -> 3 + Cardinality(Id)
      [] OTHER          -> place[pc]

(***************************************************************************)
(* Nothing the daemon does is repeated without end: between two requests,   *)
(* and unless it crashes, every step of it leaves fewer to come, whether it *)
(* succeeds or fails, whatever other programs did to the folders and with   *)
(* however many files.  A root is listed once in a scan, a file considered  *)
(* once, a row recovered once, and no failed step is tried again.           *)
(***************************************************************************)
StepsRunOut ==
    [][(pc # "idle" /\ pc' # "down" /\ OwnStep /\ clock' = clock)
          => stepsLeft' < stepsLeft]_vars

(***************************************************************************)
(* The daemon comes back to its request loop from every operation, error,   *)
(* crash and restart.                                                       *)
(***************************************************************************)
DaemonReturns == pc # "idle" ~> pc = "idle"

(***************************************************************************)
(* After a crash every interrupted move is settled: completed on evidence   *)
(* or handed to the user as needs_attention.                                *)
(***************************************************************************)
InterruptedSettles ==
    \A id \in Id :
        (pc = "down" /\ rows[id].state \in Interrupted)
            ~> rows[id].state \in {"completed", "needs_attention"}
=============================================================================
