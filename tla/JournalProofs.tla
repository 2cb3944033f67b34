--------------------------- MODULE JournalProofs ---------------------------
(***************************************************************************)
(* What every caller of the journal can rely on, for every value of the     *)
(* constants.                                                               *)
(***************************************************************************)
EXTENDS Journal, TLAPS, FiniteSetTheorems

(* A row that does not exist is a row of the right type. *)
LEMMA AbsentRowType == AbsentRow \in Row /\ AbsentRow.state = "absent"
  BY JournalAssumption, PathsAssumption DEF AbsentRow, Row, Digest

(* The initial table has its type. *)
LEMMA JournalInitType == JournalInit => JournalTypeOK
  BY AbsentRowType, JournalAssumption DEF JournalInit, JournalTypeOK, Id

(* Inserting a row keeps the type. *)
LEMMA CreateType ==
  ASSUME JournalTypeOK, NEW id, NEW s \in Path, NEW d \in Path \cup {NoPath},
         create(id, s, d)
  PROVE  JournalTypeOK'
<1>1. [state |-> "proposed", revision |-> 1, source |-> s, destination |-> d,
       sha256 |-> NoDigest, updated_at |-> clock] \in Row
  BY JournalAssumption DEF JournalTypeOK, Row, Digest, State, ActiveState
<1>2. id \in Id /\ id = nextId /\ nextId' = nextId + 1 /\ clock' = clock
  BY DEF create
<1>3. rows' \in [Id -> Row]
  BY <1>1, <1>2 DEF create, JournalTypeOK
<1>4. \A i \in Id : i >= nextId' => rows'[i] = AbsentRow
  BY <1>2 DEF create, JournalTypeOK, Id
<1> QED
  BY <1>2, <1>3, <1>4, JournalAssumption DEF JournalTypeOK, Id

(* A transition keeps the type. *)
LEMMA TransitionType ==
  ASSUME JournalTypeOK, NEW id \in Id, NEW r, NEW s \in State, transition(id, r, s)
  PROVE  JournalTypeOK'
<1>1. rows[id].state # "absent" /\ rows[id].revision = r /\ r < MaxRevision
      /\ rows[id] \in Row
  BY DEF transition, can_transition, JournalTypeOK
<1>a. r + 1 \in 0..MaxRevision /\ clock \in 0..MaxClock
  BY <1>1, JournalAssumption DEF Row, JournalTypeOK
<1>2. [rows[id] EXCEPT !.state = s, !.revision = r + 1, !.updated_at = clock] \in Row
  BY <1>1, <1>a DEF Row
<1>3. rows' \in [Id -> Row]
  BY <1>2 DEF transition, JournalTypeOK
<1>4. \A i \in Id : i >= nextId => rows'[i] = AbsentRow
  BY <1>1, AbsentRowType DEF transition, JournalTypeOK
<1> QED
  BY <1>3, <1>4 DEF transition, JournalTypeOK

(* A revision keeps the type. *)
LEMMA ReviseType ==
  ASSUME JournalTypeOK, NEW id \in Id, NEW r, NEW d \in Path, revise_proposal(id, r, d)
  PROVE  JournalTypeOK'
<1>1. rows[id].state = "proposed" /\ rows[id].revision = r /\ r < MaxRevision
      /\ rows[id] \in Row
  BY DEF revise_proposal, JournalTypeOK
<1>a. r + 1 \in 0..MaxRevision /\ clock \in 0..MaxClock
  BY <1>1, JournalAssumption DEF Row, JournalTypeOK
<1>2. [rows[id] EXCEPT !.destination = d, !.revision = r + 1, !.updated_at = clock] \in Row
  BY <1>1, <1>a DEF Row
<1>3. rows' \in [Id -> Row]
  BY <1>2 DEF revise_proposal, JournalTypeOK
<1>4. \A i \in Id : i >= nextId => rows'[i] = AbsentRow
  BY <1>1, AbsentRowType DEF revise_proposal, JournalTypeOK
<1> QED
  BY <1>3, <1>4 DEF revise_proposal, JournalTypeOK

(* Recording a digest keeps the type. *)
LEMMA ShaType ==
  ASSUME JournalTypeOK, NEW id \in Id, NEW v \in Digest, set_sha256(id, v)
  PROVE  JournalTypeOK'
<1>1. rows[id].state # "absent" /\ rows[id] \in Row
  BY DEF set_sha256, JournalTypeOK
<1>2. [rows[id] EXCEPT !.sha256 = v, !.updated_at = clock] \in Row
  BY <1>1 DEF Row, JournalTypeOK
<1>3. rows' \in [Id -> Row]
  BY <1>2 DEF set_sha256, JournalTypeOK
<1>4. \A i \in Id : i >= nextId => rows'[i] = AbsentRow
  BY <1>1, AbsentRowType DEF set_sha256, JournalTypeOK
<1> QED
  BY <1>3, <1>4 DEF set_sha256, JournalTypeOK

(* Retention keeps the type. *)
LEMMA RetentionType ==
  ASSUME JournalTypeOK, enforce_retention
  PROVE  JournalTypeOK'
  BY AbsentRowType DEF enforce_retention, JournalTypeOK

(* Setting the clock keeps the type. *)
LEMMA ClockType ==
  ASSUME JournalTypeOK, set_clock
  PROVE  JournalTypeOK'
  BY DEF set_clock, JournalTypeOK

(* The type invariant is inductive. *)
LEMMA JournalTypeStep == JournalTypeOK /\ [JournalNext]_journalVars => JournalTypeOK'
<1> SUFFICES ASSUME JournalTypeOK, [JournalNext]_journalVars
             PROVE  JournalTypeOK'
  OBVIOUS
<1>1. CASE \E id \in Id, s \in Path, d \in Path \cup {NoPath} : create(id, s, d)
  BY <1>1, CreateType
<1>2. CASE \E id \in Id, r \in 0..MaxRevision, s \in State : transition(id, r, s)
  BY <1>2, TransitionType
<1>3. CASE \E id \in Id, r \in 0..MaxRevision, d \in Path : revise_proposal(id, r, d)
  BY <1>3, ReviseType
<1>4. CASE \E id \in Id, v \in Version : set_sha256(id, v)
  BY <1>4, ShaType DEF Digest
<1>5. CASE enforce_retention
  BY <1>5, RetentionType
<1>6. CASE set_clock
  BY <1>6, ClockType
<1>7. CASE UNCHANGED journalVars
  BY <1>7 DEF journalVars, JournalTypeOK
<1> QED
  BY <1>1, <1>2, <1>3, <1>4, <1>5, <1>6, <1>7 DEF JournalNext

(***************************************************************************)
(* The journal's table always has its type, whatever its caller asks.       *)
(***************************************************************************)
THEOREM JournalTypeCorrect == JournalSpec => []JournalTypeOK
  BY JournalInitType, JournalTypeStep, PTL DEF JournalSpec

-----------------------------------------------------------------------------
(* What a step may do to one row: leave it, create it, move it along an     *)
(* allowed transition, revise it while it is proposed, record a digest, or  *)
(* delete it once it is terminal.                                           *)
RowStep(id) ==
    \/ rows'[id] = rows[id]
    \/ /\ id = nextId /\ rows[id] = AbsentRow
       /\ rows'[id].state = "proposed" /\ rows'[id].source \in Path
    \/ \E s \in State :
          /\ rows[id].state # "absent" /\ allowed(rows[id].state, s)
          /\ rows'[id] = [rows[id] EXCEPT !.state = s, !.revision = rows[id].revision + 1,
                                          !.updated_at = clock]
    \/ \E d \in Path :
          /\ rows[id].state = "proposed"
          /\ rows'[id] = [rows[id] EXCEPT !.destination = d,
                                          !.revision = rows[id].revision + 1,
                                          !.updated_at = clock]
    \/ \E v \in Digest :
          /\ rows[id].state # "absent"
          /\ rows'[id] = [rows[id] EXCEPT !.sha256 = v, !.updated_at = clock]
    \/ rows[id].state \in TerminalState /\ rows'[id] = AbsentRow

(* Every step of the journal treats every row in one of those ways. *)
LEMMA RowStepLemma ==
  ASSUME JournalTypeOK, [JournalNext]_journalVars, NEW id \in Id
  PROVE  RowStep(id)
<1>1. CASE \E i \in Id, s \in Path, d \in Path \cup {NoPath} : create(i, s, d)
  <2>1. PICK i \in Id, s \in Path, d \in Path \cup {NoPath} : create(i, s, d)
    BY <1>1
  <2>2. CASE i = id
    <3>1. id = nextId /\ rows[id] = AbsentRow
      BY <2>1, <2>2 DEF create, JournalTypeOK, Id
    <3>2. rows'[id].state = "proposed" /\ rows'[id].source \in Path
      BY <2>1, <2>2 DEF create, JournalTypeOK
    <3> QED
      BY <3>1, <3>2 DEF RowStep
  <2>3. CASE i # id
    BY <2>1, <2>3 DEF create, RowStep, JournalTypeOK
  <2> QED
    BY <2>2, <2>3
<1>2. CASE \E i \in Id, r \in 0..MaxRevision, s \in State : transition(i, r, s)
  <2>1. PICK i \in Id, r \in 0..MaxRevision, s \in State : transition(i, r, s)
    BY <1>2
  <2>2. CASE i = id
    BY <2>1, <2>2 DEF transition, can_transition, RowStep, JournalTypeOK
  <2>3. CASE i # id
    BY <2>1, <2>3 DEF transition, RowStep, JournalTypeOK
  <2> QED
    BY <2>2, <2>3
<1>3. CASE \E i \in Id, r \in 0..MaxRevision, d \in Path : revise_proposal(i, r, d)
  <2>1. PICK i \in Id, r \in 0..MaxRevision, d \in Path : revise_proposal(i, r, d)
    BY <1>3
  <2>2. CASE i = id
    BY <2>1, <2>2 DEF revise_proposal, RowStep, JournalTypeOK
  <2>3. CASE i # id
    BY <2>1, <2>3 DEF revise_proposal, RowStep, JournalTypeOK
  <2> QED
    BY <2>2, <2>3
<1>4. CASE \E i \in Id, v \in Version : set_sha256(i, v)
  <2>1. PICK i \in Id, v \in Version : set_sha256(i, v)
    BY <1>4
  <2>2. CASE i = id
    BY <2>1, <2>2 DEF set_sha256, RowStep, JournalTypeOK, Digest
  <2>3. CASE i # id
    BY <2>1, <2>3 DEF set_sha256, RowStep, JournalTypeOK
  <2> QED
    BY <2>2, <2>3
<1>5. CASE enforce_retention
  <2>1. id \in pruned => rows[id].state \in TerminalState
    BY DEF pruned, aged, prune_terminal, Terminal
  <2> QED
    BY <1>5, <2>1 DEF enforce_retention, RowStep
<1>6. CASE set_clock
  BY <1>6 DEF set_clock, RowStep
<1>7. CASE UNCHANGED journalVars
  BY <1>7 DEF journalVars, RowStep
<1> QED
  BY <1>1, <1>2, <1>3, <1>4, <1>5, <1>6, <1>7 DEF JournalNext

(* Every row that exists names the file it is about. *)
RowSources == \A id \in Id : rows[id].state # "absent" => rows[id].source \in Path

(* The source is given when the row is created, and no step changes it. *)
LEMMA RowSourcesStep ==
  ASSUME JournalTypeOK, RowSources, [JournalNext]_journalVars
  PROVE  RowSources'
<1> SUFFICES ASSUME NEW id \in Id, rows'[id].state # "absent" PROVE rows'[id].source \in Path
  BY DEF RowSources
<1>1. RowStep(id) /\ rows[id] \in Row
  BY RowStepLemma DEF JournalTypeOK
<1>2. rows[id].state # "absent" => rows[id].source \in Path
  BY DEF RowSources
<1>3. rows'[id] # AbsentRow
  BY AbsentRowType
<1> QED
  BY <1>1, <1>2, <1>3 DEF RowStep, Row, TerminalState

(* An allowed transition goes forward, or keeps the row where it was. *)
LEMMA AllowedForward ==
  ASSUME NEW s \in State, NEW t \in State, allowed(s, t)
  PROVE  t = s \/ stage(s) < stage(t)
  BY DEF allowed, stage, State, ActiveState, TerminalState

(***************************************************************************)
(* Rows only move forward: no caller can have a move approved twice.        *)
(***************************************************************************)
THEOREM ForwardTheorem == JournalSpec => ForwardOnly
<1>1. ASSUME JournalTypeOK, [JournalNext]_journalVars, NEW id \in Id
      PROVE  ForwardStep(id)
  <2>0. rows[id] \in Row /\ RowStep(id)
    BY <1>1, RowStepLemma DEF JournalTypeOK
  <2>1. CASE id = nextId /\ rows[id] = AbsentRow /\ rows'[id].state = "proposed"
    BY <2>1, AbsentRowType DEF ForwardStep, stage
  <2>2. CASE \E s \in State :
          /\ rows[id].state # "absent" /\ allowed(rows[id].state, s)
          /\ rows'[id] = [rows[id] EXCEPT !.state = s, !.revision = rows[id].revision + 1,
                                          !.updated_at = clock]
    <3>1. PICK s \in State :
          /\ rows[id].state # "absent" /\ allowed(rows[id].state, s)
          /\ rows'[id] = [rows[id] EXCEPT !.state = s, !.revision = rows[id].revision + 1,
                                          !.updated_at = clock]
      BY <2>2
    <3>2. rows'[id].state = s /\ rows[id].state \in State
      BY <2>0, <3>1 DEF Row
    <3> QED
      BY <3>1, <3>2, AllowedForward DEF ForwardStep
  <2>3. CASE rows'[id].state = rows[id].state
    BY <2>3 DEF ForwardStep
  <2>4. CASE rows[id].state \in TerminalState /\ rows'[id] = AbsentRow
    BY <2>4, AbsentRowType DEF ForwardStep
  <2> QED
    BY <2>0, <2>1, <2>2, <2>3, <2>4 DEF RowStep, Row
<1>2. JournalTypeOK /\ [JournalNext]_journalVars => \A id \in Id : ForwardStep(id)
  BY <1>1
<1> QED
  BY <1>2, JournalTypeCorrect, PTL DEF JournalSpec, ForwardOnly

(***************************************************************************)
(* A revision names one state and one destination of a row for ever, and an *)
(* approved destination is frozen.                                          *)
(***************************************************************************)
THEOREM RevisionTheorem == JournalSpec => RevisionNamesContent
<1>1. ASSUME JournalTypeOK, [JournalNext]_journalVars, NEW id \in Id
      PROVE  RevisionStep(id)
  BY <1>1, RowStepLemma, AbsentRowType DEF RowStep, RevisionStep, JournalTypeOK, Row
<1>2. JournalTypeOK /\ [JournalNext]_journalVars => \A id \in Id : RevisionStep(id)
  BY <1>1
<1> QED
  BY <1>2, JournalTypeCorrect, PTL DEF JournalSpec, RevisionNamesContent

(***************************************************************************)
(* The evidence of an unfinished move is never deleted.                     *)
(***************************************************************************)
THEOREM EvidenceTheorem == JournalSpec => ActiveEvidenceKept
<1>1. ASSUME JournalTypeOK, [JournalNext]_journalVars, NEW id \in Id
      PROVE  EvidenceStep(id)
  <2>1. rows[id] \in Row /\ RowStep(id)
    BY <1>1, RowStepLemma DEF JournalTypeOK
  <2> QED
    BY <2>1, AbsentRowType
       DEF EvidenceStep, RowStep, Row, State, ActiveState, TerminalState
<1>2. JournalTypeOK /\ [JournalNext]_journalVars => \A id \in Id : EvidenceStep(id)
  BY <1>1
<1> QED
  BY <1>2, JournalTypeCorrect, PTL DEF JournalSpec, ActiveEvidenceKept
-----------------------------------------------------------------------------
(***************************************************************************)
(* Retention.  The rank of a row is the number of younger rows; a younger   *)
(* row has a smaller rank, so no two rows have the same, and at most        *)
(* MAX_TERMINAL_JOURNAL rows have a rank below it.                          *)
(***************************************************************************)
younger(T, i) == {j \in T : older(i, j)}

(* Sets of ids are finite. *)
LEMMA IdsFinite ==
  ASSUME NEW T \in SUBSET Id
  PROVE  IsFiniteSet(T) /\ Cardinality(T) \in Nat
<1>1. IsFiniteSet(Id)
  BY JournalAssumption, FS_Interval DEF Id
<1>2. IsFiniteSet(T)
  BY <1>1, FS_Subset
<1> QED
  BY <1>2, FS_CardinalityType

(* An older row has a larger rank. *)
LEMMA RankGrows ==
  ASSUME JournalTypeOK, NEW T \in SUBSET Id, NEW i \in T, NEW j \in T, older(i, j)
  PROVE  /\ Cardinality(younger(T, i)) \in Nat /\ Cardinality(younger(T, j)) \in Nat
         /\ Cardinality(younger(T, j)) < Cardinality(younger(T, i))
<1>1. \A k \in Id : rows[k].updated_at \in Int /\ k \in Int
  BY DEF JournalTypeOK, Row, Id
<1>2. j \in younger(T, i) /\ j \notin younger(T, j)
  BY <1>1 DEF younger, older
<1>3. younger(T, j) \subseteq younger(T, i)
  BY <1>1 DEF younger, older
<1>4. younger(T, i) \in SUBSET Id /\ younger(T, j) \in SUBSET Id
  BY DEF younger
<1>5. /\ IsFiniteSet(younger(T, i))
      /\ Cardinality(younger(T, i)) \in Nat /\ Cardinality(younger(T, j)) \in Nat
  BY <1>4, IdsFinite
<1>6. /\ Cardinality(younger(T, j)) <= Cardinality(younger(T, i))
      /\ Cardinality(younger(T, i)) # Cardinality(younger(T, j))
  BY <1>2, <1>3, <1>5, FS_Subset
<1> QED
  BY <1>5, <1>6

(* Of two rows one is older. *)
LEMMA OlderTotal ==
  ASSUME JournalTypeOK, NEW i \in Id, NEW j \in Id, i # j
  PROVE  older(i, j) \/ older(j, i)
  BY DEF JournalTypeOK, Row, Id, older

(* At most limit rows have a rank below limit. *)
LEMMA FewYoung ==
  ASSUME JournalTypeOK, NEW T \in SUBSET Id, NEW limit \in Nat
  PROVE  Cardinality({i \in T : Cardinality(younger(T, i)) < limit}) <= limit
<1> DEFINE S == {i \in T : Cardinality(younger(T, i)) < limit}
           ranks == 0..(limit - 1)
           rank == [i \in S |-> Cardinality(younger(T, i))]
<1>1. S \in SUBSET Id /\ IsFiniteSet(S) /\ Cardinality(S) \in Nat
  BY IdsFinite
<1>2. IsFiniteSet(ranks) /\ Cardinality(ranks) = limit
  BY FS_Interval
<1>3. rank \in [S -> ranks]
  BY IdsFinite DEF younger
<1>4. ASSUME NEW x \in S, NEW y \in S, x # y PROVE rank[x] # rank[y]
  <2>1. older(x, y) \/ older(y, x)
    BY <1>4, OlderTotal
  <2> QED
    BY <1>4, <2>1, RankGrows
<1> HIDE DEF S, rank, ranks
<1>5. ~(Cardinality(ranks) < Cardinality(S))
  BY <1>1, <1>2, <1>3, <1>4, FS_PigeonHole
<1>6. Cardinality(S) <= limit
  BY <1>1, <1>2, <1>5
<1> QED
  BY <1>6 DEF S

(***************************************************************************)
(* Retention leaves at most MAX_TERMINAL_JOURNAL finished rows, and a row   *)
(* that is deleted for room is older than every row that stays, for any     *)
(* number of rows and whatever the clock was set to.                        *)
(***************************************************************************)
THEOREM RetentionTheorem == JournalSpec => RetentionKeepsNewest
<1> DEFINE Newest == enforce_retention =>
               LET kept == {id \in Terminal : rows'[id].state # "absent"} IN
               /\ Cardinality(kept) <= MAX_TERMINAL_JOURNAL
               /\ \A i \in kept, j \in (Terminal \ aged) \ kept : older(j, i)
<1>1. ASSUME JournalTypeOK, enforce_retention PROVE Newest
  <2> DEFINE kept == {id \in Terminal : rows'[id].state # "absent"}
             T == Terminal \ aged
  <2>1. T \in SUBSET Id /\ Terminal \subseteq Id
    BY DEF Terminal
  <2>2. \A id \in Terminal : id \in kept <=> id \notin pruned
    BY <1>1, AbsentRowType DEF enforce_retention, Terminal, TerminalState
  <2>3. prune_terminal(T) = {i \in T : Cardinality(younger(T, i)) >= MAX_TERMINAL_JOURNAL}
    BY DEF prune_terminal, younger
  <2>4. \A i \in T : Cardinality(younger(T, i)) \in Nat
    BY <2>1, IdsFinite DEF younger
  <2>5. kept = {i \in T : Cardinality(younger(T, i)) < MAX_TERMINAL_JOURNAL}
    <3>1. kept \subseteq Terminal
      OBVIOUS
    <3> HIDE DEF kept
    <3>2. \A i \in Terminal : i \notin pruned <=>
             i \in T /\ ~(Cardinality(younger(T, i)) >= MAX_TERMINAL_JOURNAL)
      BY <2>3 DEF pruned
    <3>3. \A i \in T : ~(Cardinality(younger(T, i)) >= MAX_TERMINAL_JOURNAL)
             <=> Cardinality(younger(T, i)) < MAX_TERMINAL_JOURNAL
      BY <2>4, JournalAssumption
    <3> QED
      BY <2>2, <3>1, <3>2, <3>3
  <2> HIDE DEF kept
  <2>6. Cardinality(kept) <= MAX_TERMINAL_JOURNAL
    BY <1>1, <2>1, <2>5, FewYoung, JournalAssumption
  <2>7. ASSUME NEW i \in kept, NEW j \in T \ kept PROVE older(j, i)
    <3>1. i \in T /\ j \in T /\ i # j /\ i \in Id /\ j \in Id
      BY <2>1, <2>5
    <3>2. /\ Cardinality(younger(T, i)) < MAX_TERMINAL_JOURNAL
          /\ ~(Cardinality(younger(T, j)) < MAX_TERMINAL_JOURNAL)
      BY <2>5, <2>7, <3>1
    <3>3. ~older(i, j)
      BY <1>1, <2>1, <3>1, <3>2, RankGrows, JournalAssumption
    <3> QED
      BY <1>1, <3>1, <3>3, OlderTotal
  <2> QED
    BY <2>6, <2>7 DEF kept
<1>2. JournalTypeOK /\ [JournalNext]_journalVars => Newest
  BY <1>1
<1> QED
  BY <1>2, JournalTypeCorrect, PTL DEF JournalSpec, RetentionKeepsNewest
=============================================================================
