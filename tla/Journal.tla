------------------------------ MODULE Journal ------------------------------
(***************************************************************************)
(* The durable journal of crates/sortinghat-journal: one SQLite row per     *)
(* proposal, whose state and revision change only by compare-and-set.       *)
(* Every statement commits by itself (WAL, synchronous=FULL), so every      *)
(* action here is durable as soon as it is taken.                           *)
(***************************************************************************)
EXTENDS Paths, FiniteSets

CONSTANTS
    MaxId,                \* bound: how many rows are ever created
    MAX_ACTIVE,           \* active rows at which create refuses (1000)
    NONTERMINAL_LIMIT,    \* LIMIT of the recovery query (1000)
    MAX_TERMINAL_JOURNAL, \* terminal rows kept by retention (10000)
    MAX_JOURNAL_AGE,      \* age beyond which a terminal row is deleted (30 days)
    MaxRevision,          \* bound: the largest revision that fits the column
    MaxClock              \* bound: the range of the wall clock

ASSUME JournalAssumption ==
    /\ MaxId \in Nat
    /\ MAX_ACTIVE \in Nat
    /\ NONTERMINAL_LIMIT \in Nat
    /\ MAX_TERMINAL_JOURNAL \in Nat
    /\ MAX_JOURNAL_AGE \in Nat
    /\ MaxRevision \in Nat \ {0}
    /\ MaxClock \in Nat

VARIABLES
    rows,    \* the entries table; a row that does not exist is "absent"
    nextId,  \* the next fresh UUID; rowids grow in the same order
    clock    \* unixepoch(), a wall clock that may be set back

journalVars == <<rows, nextId, clock>>

Id == 1..MaxId

TerminalState == {"completed", "undone", "failed_safely", "ignored"}
ActiveState   == {"proposed", "approved", "copying", "published",
                  "source_removed", "undoing", "needs_attention"}
State         == ActiveState \cup TerminalState

Row == [state       : State \cup {"absent"},
        revision    : 0..MaxRevision,
        source      : Path \cup {NoPath},
        destination : Path \cup {NoPath},
        sha256      : Digest,
        updated_at  : 0..MaxClock]

AbsentRow == [state |-> "absent", revision |-> 0, source |-> NoPath,
              destination |-> NoPath, sha256 |-> NoDigest, updated_at |-> 0]

Present  == {id \in Id : rows[id].state # "absent"}
Active   == {id \in Id : rows[id].state \in ActiveState}
Terminal == {id \in Id : rows[id].state \in TerminalState}

-----------------------------------------------------------------------------
(* Wrong variant, to test the properties: a finished row may be flagged. *)
allowed_from_terminal(from, to) ==
    \/ to = "needs_attention"
    \/ from = "proposed"       /\ to \in {"approved", "ignored"}
    \/ from = "approved"       /\ to \in {"copying", "published"}
    \/ from = "published"      /\ to = "source_removed"
    \/ from = "source_removed" /\ to = "completed"
    \/ from = "completed"      /\ to = "undoing"
    \/ from = "undoing"        /\ to = "undone"

(* The transition relation of the state column. *)
allowed(from, to) ==
    \/ to = "needs_attention" /\ from \in ActiveState
    \/ from = "proposed"       /\ to \in {"approved", "ignored"}
    \/ from = "approved"       /\ to \in {"copying", "published", "failed_safely"}
    \/ from = "copying"        /\ to \in {"published", "failed_safely"}
    \/ from = "published"      /\ to \in {"source_removed", "failed_safely"}
    \/ from = "source_removed" /\ to = "completed"
    \/ from = "completed"      /\ to = "undoing"
    \/ from = "undoing"        /\ to \in {"undone", "failed_safely"}

(* Wrong variant: the id is handed out again. *)
create_same_id(id, source, destination) ==
    /\ id = nextId /\ id \in Id
    /\ Cardinality(Active) < MAX_ACTIVE
    /\ rows' = [rows EXCEPT ![id] = [AbsentRow EXCEPT !.state = "proposed",
                   !.revision = 1, !.source = source, !.destination = destination]]
    /\ UNCHANGED <<nextId, clock>>

(* Inserting a row is refused at MAX_ACTIVE. *)
create(id, source, destination) ==
    /\ id = nextId /\ id \in Id
    /\ Cardinality(Active) < MAX_ACTIVE
    /\ rows' = [rows EXCEPT ![id] =
                   [state |-> "proposed", revision |-> 1, source |-> source,
                    destination |-> destination, sha256 |-> NoDigest,
                    updated_at |-> clock]]
    /\ nextId' = nextId + 1
    /\ UNCHANGED clock

(* Wrong variant: the range of the revision column is not checked. *)
can_transition_unchecked(id, revision, next) ==
    /\ rows[id].state # "absent"
    /\ rows[id].revision = revision
    /\ allowed(rows[id].state, next)

(* Whether the compare-and-set of transition succeeds. *)
can_transition(id, revision, next) ==
    /\ rows[id].state # "absent"
    /\ rows[id].revision = revision
    /\ allowed(rows[id].state, next)
    /\ revision < MaxRevision

transition(id, revision, next) ==
    /\ can_transition(id, revision, next)
    /\ rows' = [rows EXCEPT ![id] = [@ EXCEPT !.state = next,
                                              !.revision = revision + 1,
                                              !.updated_at = clock]]
    /\ UNCHANGED <<nextId, clock>>

(* Wrong variants: revising an approved row; forgetting the destination. *)
revise_any_state(id, revision, destination) ==
    /\ rows[id].state # "absent" /\ rows[id].revision = revision
    /\ revision < MaxRevision
    /\ rows' = [rows EXCEPT ![id] = [@ EXCEPT !.destination = destination,
                                              !.revision = revision + 1]]
    /\ UNCHANGED <<nextId, clock>>

revise_keeps_destination(id, revision, destination) ==
    /\ rows[id].revision = revision /\ rows[id].state = "proposed"
    /\ revision < MaxRevision
    /\ rows' = [rows EXCEPT ![id] = [@ EXCEPT !.revision = revision + 1]]
    /\ UNCHANGED <<nextId, clock>>

revise_proposal(id, revision, destination) ==
    /\ rows[id].revision = revision
    /\ rows[id].state = "proposed"
    /\ revision < MaxRevision
    /\ rows' = [rows EXCEPT ![id] = [@ EXCEPT !.destination = destination,
                                              !.revision = revision + 1,
                                              !.updated_at = clock]]
    /\ UNCHANGED <<nextId, clock>>

set_sha256(id, digest) ==
    /\ rows[id].state # "absent"
    /\ rows' = [rows EXCEPT ![id] = [@ EXCEPT !.sha256 = digest,
                                              !.updated_at = clock]]
    /\ UNCHANGED <<nextId, clock>>

-----------------------------------------------------------------------------
(* ORDER BY updated_at, rowid. *)
older(i, j) ==
    \/ rows[i].updated_at < rows[j].updated_at
    \/ rows[i].updated_at = rows[j].updated_at /\ i < j

(* Wrong variant: one row too few. *)
nonterminal_off_by_one ==
    {id \in Active :
        Cardinality({j \in Active : older(j, id)}) + 1 < NONTERMINAL_LIMIT}

(* The active rows that recovery is shown: the NONTERMINAL_LIMIT oldest. *)
nonterminal ==
    {id \in Active :
        Cardinality({j \in Active : older(j, id)}) < NONTERMINAL_LIMIT}

(* Wrong variant: the age limit applies to unfinished rows too. *)
aged_any_state == {id \in Present : rows[id].updated_at < clock - MAX_JOURNAL_AGE}

(* Terminal rows older than the age limit, then all but the newest rest. *)
aged == {id \in Terminal : rows[id].updated_at < clock - MAX_JOURNAL_AGE}

(* Wrong variant: keeps the oldest rows. *)
prune_newest(kept) ==
    {id \in kept :
        Cardinality({j \in kept : older(j, id)}) >= MAX_TERMINAL_JOURNAL}

prune_terminal(kept) ==
    {id \in kept :
        Cardinality({j \in kept : older(id, j)}) >= MAX_TERMINAL_JOURNAL}

pruned == aged \cup prune_terminal(Terminal \ aged)

enforce_retention ==
    /\ rows' = [id \in Id |-> IF id \in pruned THEN AbsentRow ELSE rows[id]]
    /\ UNCHANGED <<nextId, clock>>

(* The wall clock moves, forwards or backwards. *)
set_clock ==
    /\ clock' \in 0..MaxClock
    /\ UNCHANGED <<rows, nextId>>

-----------------------------------------------------------------------------
JournalInit ==
    /\ rows = [id \in Id |-> AbsentRow]
    /\ nextId = 1
    /\ clock = 0

(* The journal under an arbitrary caller. *)
JournalNext ==
    \/ \E id \in Id, s \in Path, d \in Path \cup {NoPath} : create(id, s, d)
    \/ \E id \in Id, r \in 0..MaxRevision, s \in State : transition(id, r, s)
    \/ \E id \in Id, r \in 0..MaxRevision, d \in Path : revise_proposal(id, r, d)
    \/ \E id \in Id, v \in Version : set_sha256(id, v)
    \/ enforce_retention
    \/ set_clock

JournalSpec == JournalInit /\ [][JournalNext]_journalVars

-----------------------------------------------------------------------------
(***************************************************************************)
(* Every row has its type, and rows exist only for the ids handed out.      *)
(***************************************************************************)
JournalTypeOK ==
    /\ rows \in [Id -> Row]
    /\ nextId \in 1..(MaxId + 1)
    /\ clock \in 0..MaxClock
    /\ \A id \in Id : id >= nextId => rows[id] = AbsentRow

(* How far along its life a row is. *)
stage(s) ==
    CASE s = "absent"         -> 0
      [] s = "proposed"       -> 1
      [] s = "approved"       -> 2
      [] s = "copying"        -> 3
      [] s = "published"      -> 4
      [] s = "source_removed" -> 5
      [] s = "completed"      -> 6
      [] s = "undoing"        -> 7
      [] OTHER                -> 8

(* One row in one step. *)
ForwardStep(id) ==
    LET now == rows[id].state  then == rows'[id].state IN
    \/ then = now
    \/ stage(now) < stage(then) /\ (now = "absent" => id = nextId)
    \/ then = "absent" /\ now \in TerminalState

RevisionStep(id) ==
    LET old == rows[id]  new == rows'[id] IN
    (old.state # "absent" /\ new.state # "absent") =>
        /\ new.source = old.source
        /\ \/ new.state = old.state /\ new.destination = old.destination
                                    /\ new.revision = old.revision
           \/ new.revision = old.revision + 1
        /\ new.destination # old.destination => old.state = "proposed"

EvidenceStep(id) == rows[id].state \in ActiveState => rows'[id].state # "absent"

(***************************************************************************)
(* A row only moves forward through its life, whatever the caller asks: no  *)
(* order of calls approves a move twice, returns an undone move to          *)
(* completed, or lets a deleted row come back (allowed, transition).        *)
(***************************************************************************)
ForwardOnly == [][\A id \in Id : ForwardStep(id)]_journalVars

(***************************************************************************)
(* Compare-and-set: whatever a reviewer can see of a live row (its state,   *)
(* its paths) changes only together with the revision, by exactly one, so   *)
(* a stale revision can never name a changed proposal; and once the row has *)
(* left "proposed" the approved destination is frozen (revise_proposal).    *)
(***************************************************************************)
RevisionNamesContent == [][\A id \in Id : RevisionStep(id)]_journalVars

(***************************************************************************)
(* No operation deletes the evidence of an unfinished move, whatever the    *)
(* clock is set to (enforce_retention; SPEC.md:37 "active/nonterminal       *)
(* evidence is never pruned").                                              *)
(***************************************************************************)
ActiveEvidenceKept == [][\A id \in Id : EvidenceStep(id)]_journalVars

(***************************************************************************)
(* Retention leaves at most MAX_TERMINAL_JOURNAL finished rows, and a row   *)
(* deleted for room is older than every row that stays (prune_terminal).    *)
(***************************************************************************)
RetentionKeepsNewest ==
    [][enforce_retention =>
          LET kept == {id \in Terminal : rows'[id].state # "absent"} IN
          /\ Cardinality(kept) <= MAX_TERMINAL_JOURNAL
          /\ \A i \in kept, j \in (Terminal \ aged) \ kept : older(j, i)]_journalVars
=============================================================================
