# A TLA+ model of SortingHat

SortingHat watches folders the user selects, proposes a destination for every
file that has settled, and moves a file only after the user approved it. This
directory holds TLA+ modules that model how a file gets into the review queue,
how requests reach the daemon, and how a reviewed file is moved, undone and
recovered; the TLC runs that check them; and proofs checked by TLAPS.

`PROJECT.json` lists the components, runs, mutants, findings, hazards and
theorems, and maps every definition to the source lines it stands for.

## The system

| Component | State | Operations | Hard behaviour |
|---|---|---|---|
| journal (`sortinghat-journal`) | one SQLite row per proposal: state, revision, raw source and destination paths, digest, time | `create`, `transition`, `revise_proposal`, `set_sha256`, `nonterminal`, `enforce_retention` | compare-and-set by revision, limits, wall clock |
| file primitives (`sortinghat-fs`) | none of its own; the file system | identity, no-replace rename, staged copy, publish, verify, retire | checks by descriptor, effects by name; other programs in between |
| review service (`sortinghat-service`) | queue, roots, rules, agent settings, paused; all in `state.json` | scan, choose, rename, ignore, approve, undo, roots, recovery | three stores (journal, `state.json`, files) that a crash leaves at different points |
| rules (`sortinghat-core`) | none | `evaluate_rules` | ties |
| agent (`sortinghat-agent`) | none | `classify` in a subprocess | deadline, a pipe that stays open |
| daemon and IPC (`sortinghat-cli`) | socket, one thread | one request per connection, a scan every two seconds | a stalled client, lost answers |
| client, plugin, installer | none that the daemon reads | presentation and set-up | revisions that are stale when used |

The daemon has one thread. It takes a request, or starts a scan, and runs it to
its end. Its operations write to three places in turn: the journal (committed at
once, `synchronous=FULL`), the user's files (each operation followed by `fsync`),
and `state.json` (written aside, synced, renamed). A crash, an I/O error or a
step of another program can come between any two of these writes, and that is
where the model cuts an operation into steps.

What makes each part correct:

* journal: a row only goes forward; a revision names one state and one
  destination; retention never takes an unfinished row and keeps the newest.
* mover: no overwrite, no lost content, names change only under a committed
  intent, completed means moved, undone means restored.
* queue: it never claims more than the journal; no duplicates; every awaiting
  proposal can be resolved.
* recovery: every interrupted row is completed on evidence or handed to the
  user; it never completes on the existence of paths alone.
* intake: only a file that has settled is proposed, every settled file is, and its
  destination is what the rules agree on or, failing that, what the agent named.
* agent: it can delay the daemon only as long as its deadline and the processes
  that hold its pipe allow, and it can choose only enrolled destinations.
* daemon: it always returns to its request loop, and scans however often it is
  called.
* clients: a request acts on what its sender was shown, every call ends, and the
  widget catches up with the queue.

## Modules

| Module | Models |
|---|---|
| `Paths` | paths, file content as version numbers, digests |
| `Journal` | the table and its operations; `JournalSpec` is the journal under an arbitrary caller, and so the abstract specification of what the service may do to it |
| `Fs` | names bound to inodes, identities, the system calls used, and what other programs do |
| `Service` | queue, roots, editing, mover, scan, errors, crash and recovery, over `Journal` and `Fs` |
| `ReviewedMove` | the abstract specification: what is promised about the user's files |
| `Review` | the refinement mapping from `Service` to `ReviewedMove` |
| `Watcher` | discovery: the timer, `scan_once`, `consider`, the stability samples, the limits |
| `Rules` | `evaluate_rules` of `sortinghat-core`, a pure function |
| `Agent` | `Adapter::classify` of `sortinghat-agent` and the program it starts |
| `Intake` | `Watcher`, `Rules` and `Agent` composed, with the requests that change rules, destinations and the agent's settings |
| `Desk` | the plugin's service and widget, the client, a terminal and the daemon's request loop |
| `MCJournal`, `MCService`, `MCWatcher`, `MCIntake`, `MCDesk` | the instances for TLC |
| `JournalProofs`, `ServiceProofs`, `QueueProofs`, `MoveProofs`, `ReviewProofs`, `RulesProofs`, `IntakeProofs`, `DeskProofs` | theorems and proofs |

`Service`, `Intake` and `Desk` look at the same daemon from three sides. `Service`
leaves open when a file is stable and what is decided for it; `Intake` works that
out and reduces a move to its effect on the queue; `Desk` reduces both to their
effect on an entry, its row and `state.json`, and adds who is asking.

Definitions keep the names of the functions they model. Operators whose comment
starts with "Wrong variant" are plausible bugs; `PROJECT.json` pairs each with
the property that TLC must then find violated, and no specification uses them.

### State and actions of `Service`

`proposals`, `roots` and `paused` are the daemon's memory, `disk` is
`state.json`, `rows` the table. `pc` is where the thread is and `cur` what the
running operation holds on its stack. An approve is

    approve (commit Approved) -> move_check -> move_rename -> move_verify
       -> commit Published -> SourceRemoved -> Completed -> retention -> save

on one device, and across devices

    approve -> commit Copying -> stage_create -> stage_copy -> record_sha256
       -> publish_stage -> verify -> commit Published -> retire_check
       -> retire_unlink -> SourceRemoved -> Completed -> retention -> save

Undo is the first line backwards under Undoing. `operation_error` ends the
operation at any step, because the step's own check fails (`refused`) or with an
I/O error; the code rolls nothing back, and neither does the model. `crash` may
come anywhere, `open` and `recover_entry` follow it, and recovery can crash too.
`settle`, pruning of the queue and retention belong to the operations that call
them.

### State and actions of `Watcher` and `Intake`

`identity` is what `Identity::read` would return for each file, `sample` the
tracker of each file with the age of its sample on the wall clock, `left` the rest
of the listing of the current root, `cur` what `consider` holds. A scan is

    scan_timer or scan_request -> list_root -> skip_file or sample_file
       -> read_identity -> decide [-> spawn -> write_request -> poll... ->
       read_output -> agent_answer] -> create -> ... -> scan_end

and every `?` of the code is an `abort`: what was proposed stays in memory,
unsaved. Other programs write, remove and link files, make folders unreachable and
set the clock between any two of these steps. While the daemon waits for the agent
time passes for the files too (`agent_waits`). `quiet`, how long a file has really
been left alone, is a history variable that no action reads.

### State and actions of `Desk`

`row`, `proposals` and `saved` are the journal, the memory and `state.json` of the
daemon; `call` is the call each client process is in, `backlog` the connections
that wait for `accept`. A request that changes something takes three steps
(dispatch, `save`, `answer`) between which the daemon can crash; after a crash
every open connection ends, and the client prints that the runtime is unavailable
although the request may have been carried out. `queue` is what the widget shows,
`folderProposal` the card its folder dialog was opened for. `silent` and
`oversized` are requests a client can send; the former is read for as long as the
client likes.

### Abstractions

* A version stands for content, size and mtime. A digest is the version it was
  computed from. `Torn` is the content of an unfinished or mixed copy. The size
  comparison of `verify_recovery_destination` follows from the other two.
* Only folders that are roots are destinations: a directory below a root adds a
  path prefix and no control.
* In `Service`, whether a file has been stable long enough is a free choice
  (`scan_skip`), and so is what the rules or the agent choose (`decision`); a rule
  may still name a root that was removed. `Intake` has both.
* In `Intake` an identity is a number that is never used again. The order of a
  listing is any order (`read_dir` promises none). An approved move is one step;
  the roots to watch are fixed. Time passes only while the daemon sleeps or waits
  for the agent, in units of the settling time.
* Spelling is a parameter of `Rules`: which directories, extensions and globs are
  valid, and which names a glob matches. What the agent program prints is reduced
  to whether it passes the checks on exit code, size, version, correlation id and
  reason, and to the destination it names.
* In `Desk` a destination stands for folder and name together, so choosing a
  folder and renaming are one `edit`; the moves themselves succeed or fail in one
  step. `FITS` is how many cards fit into 64 KiB. The widget's timer may fire at
  any moment, which covers both the 2-second and the 100-millisecond timer.
* Requests that fail before their first effect change nothing and are no actions.
* Staging names are left alone by other programs. `MaxEdits` bounds the edits of
  one proposal, and `MaxRevision >= MaxEdits + 8` leaves room for the commits of
  a move and an undo, as 63 bits do.
* A crash ends the process, not the machine: what a system call has done stays
  done. The code syncs before every commit that relies on it.
* The 64 MiB limit of the journal is a free choice of failure after retention.
* Clients always carry an id and a revision; every old revision is tried.

## Runs

| Run | Instance | Shows |
|---|---|---|
| `journal` | 2 rows, any caller, clock 0..2 | `ForwardOnly`, `RevisionNamesContent`, `ActiveEvidenceKept`, `RetentionKeepsNewest` |
| `moves` | 1 file, 2 folders on 2 devices, 1 edit, 2 faults, 1 step of another program, clock 0..1 | `QueueNeverAhead`, `LastCopyKept`, `CompletedMeansMoved`, `UndoRestores` |
| `queue` | 2 files and proposals, 1 fault | `NoDuplicates`, `SourcesResolve`, `RecoveryLeavesNoneInterrupted`, `StepsRunOut` |
| `races` | 1 file, other programs act twice between any steps, a folder enrolled on the way | `NoOverwrite`, `DurableIntent`, `JournalNamesTarget` |
| `fair` | 1 file, names that differ in case, a name of a partial download, 1 fault, fairness | `DaemonReturns`, `InterruptedSettles`, `NoCaseCollision`, `CompletedShowsDestination`, and the refinement `ImplementsReviewedMove` |
| `intake` | 2 watched roots, 3 files, one of them a partial download, 2 destinations, up to 2 rules, queue limit 1, journal limit 2, agent deadline 1, 2 events | `QueueBounded`, `RulesUsable`, `BoundedUnlessPipeHeld`, `DecisionExplained`, `ClassifyReturns`, `ProposedAfterSettling`, `SettledFileProposed`, `FullQueuePauses` |
| `desk` | 2 proposals of which 1 fits an answer, 4 clients, 2 acts, 1 fault | `ActsAsShown`, `CallsEnd`, `ScanRecurs`, `WidgetCatchesUp` |
| `lost_status` | as `moves`, 1 fault | finding: `CompletedIsShown` is violated |
| `last_copy_race` | as `races` | finding: `LastCopyKept` is violated |
| `lossy_name` | a name that is not UTF-8 | finding: `JournalNamesTarget` is violated |
| `journal_full` | the watcher alone, queue and journal limit 1 | finding: `JournalFullPauses` is violated |
| `unrevised_rule` | the desk with 1 proposal | finding: `RuleAsShown` is violated |

Why the bounds are enough: a move concerns one row, one queue entry and the two
or three names it touches, so one proposal shows every interleaving of a move
with crashes and other programs; two faults give a crash during recovery, and a
failed save followed by a crash. Two proposals are needed where entries compare
with each other. Two steps of another program remove and replace a file. A
version more than files lets content be rewritten. In `intake` an event is a change
by another program, a setting of the clock, a crash or a request other than pause
and resume: two of them give a rewrite between two samples, a crash after an
aborted scan, or a rule made from a proposal and used by the next; one file in the
earlier and one in the later root separate a scan that aborts before a file from
one that aborts after it. In `desk` two acts are an edit in the terminal and a
click on a card that does not show it yet, and one fault is a lost answer, a failed
save or a failed move. Where the proofs below cover
a property, the bounds do not matter.

Deadlock is checked in every run: the daemon can always take a request.

Fairness. `FairSpec` of `Service` is weak fairness of the daemon's own steps: it is
one thread whose system calls return, and systemd starts it again
(`Restart=on-failure`). No request, no crash, no step of another program and no
clock tick has to happen. `Spec` of `Intake` adds that time passes while the daemon
sleeps or polls, and that a process which holds the agent's pipe ends at some time:
without the last the daemon would wait for ever (`wait_with_output` has no
deadline), so `ClassifyReturns` says exactly how far the code's bound reaches. `Spec`
of `Desk` assumes that the daemon runs and is restarted, that handlers of ended
processes run, that the timer fires while no process runs (its period is longer
than a handler takes), and that a silent client hangs up in the end: `handle` reads
without a timeout, so without this neither `CallsEnd` nor `ScanRecurs` holds.
Nobody has to click, to call or to read.

### Findings

* **A completed move that is shown as proposed** (`lost_status`). Completed is
  committed before `state.json` is saved, and recovery looks only at unfinished
  rows. After a crash in between the entry stays "proposed" at an old revision:
  no request accepts it, and the move cannot be undone.
* **Unlink by name** (`last_copy_race`). `retire_source_at` verifies a descriptor
  and unlinks a name. Without interference `LastCopyKept` holds (`moves`).
* **Lossy names** (`lossy_name`). The queue moves a file to the lossy form of its
  name, the journal row holds the raw one.

* **A full journal does not pause** (`journal_full`). Where the queue's limit pauses
  scanning, the journal's makes every scan fail again, two seconds apart, with an
  error nobody sees. Entries that need attention and rows without an entry count as
  active, so the journal's limit comes first although both are 1,000.
* **A rule for a destination that was not shown** (`unrevised_rule`). `rule_create`
  has no revision, and takes the destination the proposal has by then.

More was seen while modelling and is not a run of its own. With `MAX_ACTIVE` and the
limit of the recovery query equal and the journal full, an undo adds an active
row that the query can leave out (`RecoveryLeavesNoneInterrupted` is then
violated; the `queue` run has as many rows as the limit). And a failed save
followed by a crash can leave a completed entry with its old destination: one
fault loses the edit from `state.json`, the other the memory that still had it.
`CompletedShowsDestination` is therefore about at most one of them. A page of 100 cards (SPEC.md:60) can be longer than the 64 KiB the client
accepts; the widget then keeps its old cards (`WidgetCatchesUp` is conditional on
`FITS`). Rows of an aborted scan that a crash separates from their unsaved entries
(`orphans`) stay active for ever. SPEC.md:28 names ctime among the samples; the code
compares device, inode, size and mtime. The second `Identity::read` of `consider`
can return an identity that has not settled, and proposes it
(`ProposedAfterSettling` is therefore about identities that the second read
confirms). A file directly in a root has the source directory "", which no valid
rule names.

## Proofs

`tlapm` proves these for every value of the constants, from the named
assumptions `PathsAssumption`, `JournalAssumption`, `FsAssumption`,
`ServiceAssumption`, `NamesFinite`, `WatcherAssumption`, `AgentAssumption`, `RulesAssumption`,
`IntakeAssumption` and `DeskAssumption` (which TLC evaluates on every instance).

* `JournalTypeCorrect`, `ForwardTheorem`, `RevisionTheorem`, `EvidenceTheorem`:
  the journal under any caller. The argument is `RowStepLemma`: every step treats
  every row in one of six ways; each property is then a statement about one row.
* `RetentionTheorem`: the counting part of the journal. How many rows are younger
  than a row is its rank; `older` is total on the rows of a finite table, so ranks
  differ and grow with age (`RankGrows`, `OlderTotal`), and at most
  `MAX_TERMINAL_JOURNAL` rows can have a rank below that number (`FewYoung`).
* `TypeCorrect`: `TypeOK` is not inductive, because paths are put together from
  the queue and from the stack of the operation. `Inv` adds that an entry that
  exists has its names, a running operation its entry, paths, descriptor and
  digest, and a scan only enrolled roots.
* `ServiceImplementsJournal`: `Spec => JournalSpec`, the daemon with crashes,
  errors and other programs implements the journal's specification;
  `JournalGuarantees` carries the journal's theorems over.
* `NoOverwriteTheorem`: every step of the daemon changes the files by one of four
  system calls (`DaemonFs`), none of which rebinds a name that is taken.
* `StepsRunOutTheorem` (`ServiceProofs`): the part of `DaemonReturns` that does not
  need fairness. `stepsLeft` is a natural number, zero only while the daemon waits,
  and every step it takes lowers it unless the process ends: a move takes at most 13
  steps, a restart `3 + Cardinality(Id)`, and listing a root takes more off the
  measure of a scan than all the files found in it put on (`RootOutweighsFiles`), so
  a scan ends even while other programs go on creating files. It needs that file
  names are finitely many (`NamesFinite`). For `InterruptedSettles` it says, together with
  `RecoveryTheorem`, that a restart which is not cut short by a crash reaches the
  loop and leaves no row interrupted.
* `QueueNeverAheadTheorem`, `JournalNamesTargetTheorem`, `DurableIntentTheorem`
  (`QueueProofs`), under the hypothesis `Utf8Names` that every file name is its own
  lossy form; the `lossy_name` run shows that they fail without it. The inductive
  invariant `QueueInv` relates every entry, in memory and in `state.json`, to its
  row (`EntryRow`: never a later revision, the row's status and destination at the
  same revision, always the row's source), says that ids and root ids are never
  handed out twice (`EntryKnown`, `RootsKnown`), and gives the row's state, paths
  and digest at every step of the mover (`MoverRow`). The entry part is needed to
  start the mover part: `approve` resolves its paths from the entry. One lemma
  (`EntryFrame`) carries an untouched entry over any step of the journal and any
  change of the roots, so each action only has to account for the one entry it
  writes. TLC has checked `QueueInv` on the instances of all four passing service
  runs.
* `CompletedShowsDestinationTheorem` (`QueueProofs`, with `Utf8Names`).
  `DestinationInv` says which entries show the row's destination after how many
  faults: without one, all entries in memory, and on disk all that `save` is not
  just about to write; with one, in memory still those whose review has ended. The
  two levels are needed because a crash makes memory of what the disk holds.
* `RecoveryTheorem` (`QueueProofs`), under `[]RecoverySeesAll`: no restart meets more
  than `NONTERMINAL_LIMIT` active rows. `RecoverInv` keeps every interrupted row on
  the list that recovery works through. The hypothesis is not idle: an undo makes a
  row active without being counted against `MAX_ACTIVE`, so the query can leave the
  newest rows out (see the findings).
* `SourcesResolveTheorem`, `NoDuplicatesTheorem` (`QueueProofs`). `SourceInv` says of
  the queue and the roots that no two entries share an identity, or await review
  under one root and name (`Unique`), that the root of an entry awaiting review is
  enrolled (`Resolved`), and that no folder is enrolled under two roots (`Apart`:
  without it two names could be one path). It says the same of `state.json`, which a
  crash turns into memory. Nearly every step keeps an entry under its source or
  removes it (`QueueKept`); only `consider`, `remove_root` and the two requests that
  enrol a folder need an argument of their own.
* `ReviewedMoveSafe` (`ReviewProofs`): what the abstract specification is worth. In
  every step that is not another program's, no complete content is lost, no name
  that holds one is given another, and no file is touched without an approved task.
* `LastCopyKeptTheorem`, `NoCaseCollisionTheorem` (`MoveProofs`), under
  `~Interference`: other programs act between two operations, not during one. The
  `last_copy_race` run shows that the first fails without it, and the check for
  names that differ in case can be overtaken in the same way. `FilesInv` says that
  inode numbers are not handed out twice (`Fresh`), and what the mover knows of the
  files at each of its steps (`MoverFiles`): the target is free until the rename
  or the publication, the stage holds what was copied into it, the original still
  holds the same content when it is unlinked, nothing is left at the old name after
  a rename. Each step hands the next one its fact.
* `UndoRestoresTheorem`, `CompletedMeansMovedTheorem` (`MoveProofs`), under
  `Utf8Names` and `~Interference`. The first combines `FilesInv` with `QueueInv` (the
  paths of the operation are those of the row and of the entry). The second also
  covers recovery, which completes a row because of the digest and the file it
  finds: `DigestInv` says that a digest in a row is of the content that was
  reviewed, for the entry in memory and the one on disk.
* `ImplementsReviewedMoveTheorem` (`MoveProofs`), under the same two hypotheses: the
  refinement that the `fair` run checks, for every instance. A row of the journal is
  a task, a name is a place, and what a name holds is the content of its inode, an
  unfinished copy being a draft. Every action is one lemma: it is a step of the task
  whose row it commits, or leaves `held` and `task` alone. A crash changes neither,
  which is why it needs no counterpart in `ReviewedMove`.
* `ReviewSafeTheorem` (`MoveProofs`): the refinement and `ReviewedMoveSafe`, put
  together. What `ReviewedMove` promises is true of `Service`.
* `RulesDecide`, `LowerRuleIrrelevant` (`RulesProofs`): `evaluate_rules` against a
  definition that does not compute maxima or sets of destinations, and that a rule
  which is outranked does not matter.
* `IntakeTyped`, `QueueStaysBounded`, `RulesStayUsable`, `AgentBounded`,
  `DecisionsExplained`, `OnlySettledProposed` (`IntakeProofs`). The inductive invariant `IntakeInv` adds to
  the types that past the limit check of a file there is room for one more entry
  (`QueueOK`), that an agent runs only while a file is being decided and that no
  request is served meanwhile (`BusyOK`), that every stored rule validates
  (`ConfigOK`), and what the choice held on `consider`'s stack is explained by
  (`ChoiceOK`). `QueueBounded` alone is not inductive: the entry is created several
  steps after the check. For settling, `SettleInv` says that no identity, in a file
  or in a sample, is one that is still to be given, so that a file which has the
  identity of its sample was not changed since, and has been quiet for as long as
  the sample is old, unless the clock was set; and that the file found stable stays
  quiet while it keeps the identity that was sampled, until the second read.
* `RequestsActAsShown`, `DeskTyped` (`DeskProofs`). `DeskInv` says that every card anywhere (in
  the widget, in the folder dialog, in a request, in an answer that is on its way)
  is `Honest`: if its revision is still the row's, then so are its status and its
  destination; that the queue in memory and in `state.json` is honest in the same
  sense, as long as the row is proposed or completed; and that whoever is to be
  answered is still connected. The argument is that a row gets a
  new revision with every change, so that a card out of date can only be refused.
  `DeskTyped` contains the accounting of connections, `ConnectedOK`: a client waits
  exactly while it is in `backlog`, once. It needs that the plugin never has its
  status and its queue process running together, or the handler of the first would
  connect the second twice; every step then leaves the backlog alone, adds a client
  that was not waiting, serves the first, or (a crash) ends all.

Every safety property that a passing run checks, the refinement included, is stated by
a theorem. Only model-checked are the liveness properties `DaemonReturns`,
`InterruptedSettles`, `ClassifyReturns`, `SettledFileProposed`, `FullQueuePauses`,
`ScanRecurs`, `CallsEnd` and `WidgetCatchesUp`: they rest on fairness, and so on
ENABLED, which is out of the prover's reach. Of `DaemonReturns` what is left to TLC
is that some step of the daemon can always be taken.

## Not modelled

* Path validation and `openat2` flags: they restrict which paths exist, not what
  happens to them.
* The path-based variants in `sortinghat-fs`, which the service does not call, and
  `classify_content`, which always refuses.
* Display strings, reasons, warnings, logging, `error_state` and argument parsing:
  no control depends on them.
* Of the plugin: the list of roots, the pause button, the dialog that adds a root,
  and `runtimeState` and `lastError`, which are only shown.
* A crash of the machine (as opposed to the process), and the loss of writes that
  were not synced.
* The installer, packaging, release scripts and vendored tools: run by hand, with no
  state while the program runs. The restart policy of the unit is a fairness
  assumption.
