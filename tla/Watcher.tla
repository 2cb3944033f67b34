------------------------------ MODULE Watcher ------------------------------
(***************************************************************************)
(* How the daemon discovers files: the timer of the request loop,           *)
(* scan_once, consider and the StabilityTracker, against files that other   *)
(* programs change at any moment and a wall clock that can be set.  The     *)
(* Service module leaves open when a file is stable and what a scan meets;  *)
(* here that is worked out, and the moves are left out.                     *)
(***************************************************************************)
EXTENDS Integers, Sequences, FiniteSets

CONSTANTS
    File,            \* files that can appear in the watched folders
    StartFiles,      \* which files may be there at the start
    WatchedRoots,    \* the watched roots, in the order they were enrolled
    RootOf,          \* the position in WatchedRoots of the root of each file
    Partial,         \* files with the suffix of an unfinished download
    Choice,          \* what can be chosen as a destination, NoChoice included
    NoChoice,        \* no destination
    NoFile,          \* no file is being considered
    Settle,          \* time between two equal samples (1 second)
    Period,          \* time between two scans of the timer (2 seconds)
    MAX_PROPOSALS,   \* proposals awaiting review at which scanning pauses
    MAX_ACTIVE,      \* active journal rows at which create refuses
    MAX_WALK_FILES,  \* files at which the listing of a root fails
    MaxIdentity,     \* bound: how many identities files ever have
    MaxEvents        \* bound: changes by other programs, settings of the clock,
                     \* crashes, and requests other than to pause and resume

Identity == 1..MaxIdentity
Gone == 0

ASSUME WatcherAssumption ==
    /\ NoFile \notin File /\ NoChoice \in Choice
    /\ IsFiniteSet(File) /\ Cardinality(File) <= MaxIdentity
    /\ Len(WatchedRoots) \in Nat /\ RootOf \in [File -> 1..Len(WatchedRoots)]
    /\ Partial \subseteq File /\ StartFiles \subseteq SUBSET File
    /\ {Settle, Period, MAX_PROPOSALS, MAX_ACTIVE, MAX_WALK_FILES, MaxIdentity,
        MaxEvents} \subseteq Nat
    /\ 0 < Settle /\ Settle <= Period

VARIABLES
    identity,   \* device, inode, size and mtime of each file, or Gone
    refused,    \* files that are hard-linked or too large, so never read
    reachable,  \* whether the folder of each root can be listed
    quiet,      \* history: how long each file has not changed, up to Settle
    nextIdentity,
    sample,     \* the tracker of each file: what it saw, and how long ago
    proposals,  \* the queue: at most one entry per identity
    interrupted, \* entries whose approval failed after it was journalled
    orphans,    \* active journal rows whose entry was lost in a crash
    paused,
    saved,      \* state.json
    pc,         \* where the scan is
    left,       \* the root being scanned and the files of it still to consider
    cur,        \* what consider holds on its stack
    since,      \* time since the timer's last scan
    spent       \* how much of MaxEvents is used up

fileVars  == <<identity, refused, reachable, quiet, nextIdentity>>
storeVars == <<proposals, interrupted, orphans, paused, saved>>
scanVars  == <<pc, left, cur>>
watcherVars == <<fileVars, sample, storeVars, scanVars, since, spent>>

AbsentEntry == [status |-> "absent", file |-> NoFile, destination |-> NoChoice]
Entry == [status : {"absent", "proposed", "needs_attention", "closed"},
          file : File \cup {NoFile}, destination : Choice]

(* age is on the wall clock, so that setting the clock changes it. *)
NoSample == [identity |-> Gone, age |-> 0, stepped |-> FALSE]
Sample == [identity : Identity \cup {Gone}, age : -Settle..Settle, stepped : BOOLEAN]

Nothing == [file |-> NoFile, sampled |-> Gone, stepped |-> FALSE, identity |-> Gone,
            choice |-> NoChoice, created |-> FALSE, timer |-> FALSE]

least(a, b) == IF a < b THEN a ELSE b

awaiting == {i \in Identity : proposals[i].status = "proposed"}
active   == Cardinality({i \in Identity :
                proposals[i].status \in {"proposed", "needs_attention"}}) + orphans

(* Wrong variant: one entry too many. *)
full_late == Cardinality(awaiting) > MAX_PROPOSALS

(* MAX_PROPOSALS entries await review. *)
full == Cardinality(awaiting) >= MAX_PROPOSALS

readable(f) == identity[f] # Gone /\ f \notin refused
present(r)  == {f \in File : RootOf[f] = r /\ identity[f] # Gone}

already_proposed(f) == \E i \in awaiting : proposals[i].file = f

(* The queue entry with another status. *)
entry_as(i, status) == [status |-> status, file |-> proposals[i].file,
                        destination |-> proposals[i].destination]

(* save: state.json holds what memory holds after the step. *)
save == saved' = [proposals |-> proposals', paused |-> paused']

-----------------------------------------------------------------------------
(* What other programs and the administrator do, at any moment. *)
event == spent < MaxEvents /\ spent' = spent + 1

(* A file appears, or is written to, or gets another inode. *)
user_write(f) ==
    /\ event /\ nextIdentity \in Identity
    /\ identity' = [identity EXCEPT ![f] = nextIdentity]
    /\ nextIdentity' = nextIdentity + 1
    /\ quiet' = [quiet EXCEPT ![f] = 0]
    /\ UNCHANGED <<refused, reachable, sample, storeVars, scanVars, since>>

user_remove(f) ==
    /\ event /\ identity[f] # Gone
    /\ identity' = [identity EXCEPT ![f] = Gone]
    /\ refused' = refused \ {f}
    /\ UNCHANGED <<reachable, quiet, nextIdentity, sample, storeVars, scanVars, since>>

(* Another name for the file, or the end of it. *)
user_link(f) ==
    /\ event /\ identity[f] # Gone
    /\ refused' = IF f \in refused THEN refused \ {f} ELSE refused \cup {f}
    /\ UNCHANGED <<identity, reachable, quiet, nextIdentity, sample, storeVars,
                   scanVars, since>>

(* A folder is unmounted, removed or protected, or comes back. *)
user_mount(r) ==
    /\ event
    /\ reachable' = [reachable EXCEPT ![r] = ~@]
    /\ UNCHANGED <<identity, refused, quiet, nextIdentity, sample, storeVars,
                   scanVars, since>>

clock_set(d) ==
    /\ event
    /\ sample' = [f \in File |->
          LET age == sample[f].age + d IN
          [sample[f] EXCEPT !.age = IF age > Settle THEN Settle
                                    ELSE IF age < -Settle THEN -Settle ELSE age,
                            !.stepped = TRUE]]
    /\ UNCHANGED <<fileVars, storeVars, scanVars, since>>

(* Time passes while the daemon sleeps. *)
elapse ==
    /\ quiet' = [f \in File |-> least(quiet[f] + 1, Settle)]
    /\ sample' = [f \in File |-> [sample[f] EXCEPT !.age = least(@ + 1, Settle)]]
    /\ since' = least(since + 1, Period)
    /\ UNCHANGED <<identity, refused, reachable, nextIdentity, storeVars, scanVars, spent>>

tick == pc = "idle" /\ elapse

-----------------------------------------------------------------------------
(* The scan returns, with or without an error, to whoever asked for it. *)
scan_over ==
    /\ pc' = "idle" /\ left' = [root |-> 0, files |-> {}] /\ cur' = Nothing
    /\ since' = IF cur.timer THEN 0 ELSE since

(* An error: what the scan has proposed so far stays in memory, unsaved. *)
abort == scan_over /\ UNCHANGED <<fileVars, sample, storeVars, spent>>

begin ==
    /\ pc' = "list" /\ left' = [root |-> 0, files |-> {}]
    /\ UNCHANGED <<fileVars, sample, storeVars, since>>

(* scan_once from the loop, once Period has passed, and for a request. *)
scan_timer ==
    /\ pc = "idle" /\ since >= Period
    /\ cur' = [Nothing EXCEPT !.timer = TRUE]
    /\ begin /\ UNCHANGED spent

scan_request ==
    /\ pc = "idle" /\ event
    /\ cur' = Nothing
    /\ begin

scan_paused ==
    /\ pc = "list" /\ left.root = 0 /\ paused
    /\ abort

(* Wrong variant: the limit is reported, and scanning goes on. *)
scan_limit_unpaused ==
    /\ pc = "list" /\ full
    /\ (left.root = 0 /\ ~paused) \/ left.files # {}
    /\ abort

(* A full queue pauses scanning, before the first root and before a file. *)
scan_limit ==
    /\ pc = "list" /\ full
    /\ (left.root = 0 /\ ~paused) \/ left.files # {}
    /\ paused' = TRUE /\ UNCHANGED <<proposals, interrupted, orphans>> /\ save
    /\ scan_over /\ UNCHANGED <<fileVars, sample, spent>>

(* bounded_files of the next root; a folder that cannot be listed, or has   *)
(* too many files, ends the scan.                                           *)
list_root ==
    /\ pc = "list" /\ left.files = {} /\ left.root < Len(WatchedRoots)
    /\ left.root = 0 => ~paused /\ ~full
    /\ LET r == left.root + 1 IN
       IF reachable[r] /\ Cardinality(present(r)) <= MAX_WALK_FILES
       THEN /\ left' = [root |-> r, files |-> present(r)]
            /\ UNCHANGED <<fileVars, sample, storeVars, pc, cur, since, spent>>
       ELSE abort

(* Only a scan that created something is saved. *)
scan_end ==
    /\ pc = "list" /\ left.files = {} /\ left.root = Len(WatchedRoots)
    /\ UNCHANGED <<proposals, interrupted, orphans, paused>>
    /\ IF cur.created THEN save ELSE UNCHANGED saved
    /\ scan_over /\ UNCHANGED <<fileVars, sample, spent>>

-----------------------------------------------------------------------------
(* On with the next file of the root. *)
next_file ==
    /\ pc' = "list"
    /\ cur' = [Nothing EXCEPT !.created = cur.created, !.timer = cur.timer]

skip_file(f) ==
    /\ pc = "list" /\ f \in left.files /\ ~full
    /\ f \in Partial \/ already_proposed(f)
    /\ left' = [left EXCEPT !.files = @ \ {f}]
    /\ UNCHANGED <<fileVars, sample, storeVars, pc, cur, since, spent>>

(* Wrong variant: the clock is compared, the identity is not. *)
stable_by_age(f) == sample[f].identity # Gone /\ sample[f].age >= Settle

(* duration_since is zero when the clock was set back behind the sample. *)
stable(f) ==
    /\ sample[f].identity = identity[f]
    /\ (IF sample[f].age < 0 THEN 0 ELSE sample[f].age) >= Settle

(* Wrong variant: a sample is only kept for a file that was stable. *)
remember_stable(f) ==
    IF stable(f) THEN [identity |-> identity[f], age |-> 0, stepped |-> FALSE]
    ELSE sample[f]

(* What the tracker remembers of the file, whatever it saw before. *)
remember(f) == [identity |-> identity[f], age |-> 0, stepped |-> FALSE]

(* StabilityTracker::sample: the sample replaces the previous one; a file   *)
(* that cannot be read ends the scan.                                       *)
sample_file(f) ==
    /\ pc = "list" /\ f \in left.files /\ ~full
    /\ f \notin Partial /\ ~already_proposed(f)
    /\ IF ~readable(f) THEN abort
       ELSE /\ sample' = [sample EXCEPT ![f] = remember(f)]
            /\ left' = [left EXCEPT !.files = @ \ {f}]
            /\ IF stable(f)
               THEN /\ pc' = "read"
                    /\ cur' = [cur EXCEPT !.file = f, !.sampled = identity[f],
                                          !.stepped = sample[f].stepped]
               ELSE UNCHANGED <<pc, cur>>
            /\ UNCHANGED <<fileVars, storeVars, since, spent>>

(* The identity is read a second time, and that one is proposed. *)
read_identity ==
    /\ pc = "read"
    /\ IF ~readable(cur.file) THEN abort
       ELSE /\ IF proposals[identity[cur.file]].status # "absent"
               THEN next_file
               ELSE pc' = "decide" /\ cur' = [cur EXCEPT !.identity = identity[cur.file]]
            /\ UNCHANGED <<fileVars, sample, storeVars, left, since, spent>>

(* consider has chosen a destination, or none. *)
decided(choice) == pc' = "create" /\ cur' = [cur EXCEPT !.choice = choice]

(* The journal row, then the queue entry; a full journal ends the scan. *)
create ==
    /\ pc = "create"
    /\ IF active >= MAX_ACTIVE THEN abort
       ELSE /\ proposals' = [proposals EXCEPT ![cur.identity] =
                   [status |-> "proposed", file |-> cur.file, destination |-> cur.choice]]
            /\ pc' = "list"
            /\ cur' = [Nothing EXCEPT !.created = TRUE, !.timer = cur.timer]
            /\ UNCHANGED <<fileVars, sample, interrupted, orphans, paused, saved, left, since, spent>>

-----------------------------------------------------------------------------
(* Requests that end a review, with their save: an approved file is moved   *)
(* away, an ignored one stays.                                              *)
review(i, moved) ==
    LET f == proposals[i].file IN
    /\ pc = "idle" /\ event /\ proposals[i].status = "proposed" /\ i \notin interrupted
    /\ moved => identity[f] = i
    /\ proposals' = [proposals EXCEPT ![i] = entry_as(i, "closed")]
    /\ identity' = [identity EXCEPT ![f] = IF moved THEN Gone ELSE @]
    /\ UNCHANGED <<interrupted, orphans, paused>> /\ save
    /\ UNCHANGED <<refused, reachable, quiet, nextIdentity, sample, scanVars, since>>

(* A move that fails leaves the entry, and a row only recovery can settle. *)
approve_fails(i) ==
    /\ pc = "idle" /\ event /\ proposals[i].status = "proposed" /\ i \notin interrupted
    /\ interrupted' = interrupted \cup {i}
    /\ UNCHANGED <<fileVars, sample, proposals, orphans, paused, saved, scanVars, since>>

redirect(i, choice) ==
    /\ pc = "idle" /\ event /\ proposals[i].status = "proposed" /\ i \notin interrupted
    /\ proposals' = [proposals EXCEPT ![i] =
           [status |-> "proposed", file |-> proposals[i].file, destination |-> choice]]
    /\ UNCHANGED <<interrupted, orphans, paused>> /\ save
    /\ UNCHANGED <<fileVars, sample, scanVars, since>>

set_paused(p) ==
    /\ pc = "idle" /\ paused' = p
    /\ UNCHANGED <<proposals, interrupted, orphans>> /\ save
    /\ UNCHANGED <<fileVars, sample, scanVars, since, spent>>

(* Memory and trackers are lost; the journal keeps the rows of entries that *)
(* were never saved, and recovery leaves a proposed row alone.              *)
crash ==
    /\ pc # "down" /\ event
    /\ proposals' = saved.proposals /\ paused' = saved.paused
    /\ orphans' = orphans + Cardinality({i \in awaiting :
                                saved.proposals[i].status = "absent"})
    /\ sample' = [f \in File |-> NoSample]
    /\ pc' = "down" /\ left' = [root |-> 0, files |-> {}] /\ cur' = Nothing
    /\ UNCHANGED <<fileVars, interrupted, saved, since>>

(* Recovery gives an interrupted entry the status it keeps from then on. *)
restart ==
    /\ pc = "down" /\ pc' = "idle" /\ since' = 0
    /\ proposals' = [i \in Identity |->
           IF i \in interrupted /\ proposals[i].status # "absent"
           THEN entry_as(i, "needs_attention") ELSE proposals[i]]
    /\ interrupted' = {} /\ UNCHANGED <<orphans, paused>> /\ save
    /\ UNCHANGED <<fileVars, sample, left, cur, spent>>

-----------------------------------------------------------------------------
(* An identity of its own for each file that is there. *)
FirstIdentity == CHOOSE n \in [File -> 1..Cardinality(File)] :
                     \A f, g \in File : n[f] = n[g] => f = g

WatcherInit ==
    /\ \E there \in StartFiles :
          identity = [f \in File |-> IF f \in there THEN FirstIdentity[f] ELSE Gone]
    /\ nextIdentity = Cardinality(File) + 1
    /\ refused = {} /\ reachable = [r \in 1..Len(WatchedRoots) |-> TRUE]
    /\ quiet = [f \in File |-> 0] /\ sample = [f \in File |-> NoSample]
    /\ proposals = [i \in Identity |-> AbsentEntry] /\ interrupted = {} /\ orphans = 0 /\ paused = FALSE
    /\ saved = [proposals |-> proposals, paused |-> paused]
    /\ pc = "idle" /\ left = [root |-> 0, files |-> {}] /\ cur = Nothing
    /\ since = 0
    /\ spent = 0

Scanning ==
    \/ scan_timer \/ scan_paused \/ scan_limit \/ list_root \/ scan_end
    \/ \E f \in File : skip_file(f) \/ sample_file(f)
    \/ read_identity \/ create \/ restart

Requests ==
    \/ scan_request
    \/ \E i \in Identity : \/ \E moved \in BOOLEAN : review(i, moved)
                           \/ approve_fails(i)
    \/ \E p \in BOOLEAN : set_paused(p)

OtherPrograms ==
    \/ \E f \in File : user_write(f) \/ user_remove(f) \/ user_link(f)
    \/ \E r \in 1..Len(WatchedRoots) : user_mount(r)
    \/ \E d \in {-Settle, Settle} : clock_set(d)

(* Here any destination is chosen; Intake has the rules and the agent. *)
decide_freely ==
    /\ pc = "decide" /\ \E choice \in Choice : decided(choice)
    /\ UNCHANGED <<fileVars, sample, storeVars, left, since, spent>>

WatcherNext ==
    Scanning \/ decide_freely \/ Requests \/ tick \/ OtherPrograms \/ crash

(***************************************************************************)
(* The loop of the daemon is never left and its clock runs.  Nothing is     *)
(* assumed of requests and of other programs.                               *)
(***************************************************************************)
WatcherSpec ==
    /\ WatcherInit /\ [][WatcherNext]_watcherVars
    /\ WF_watcherVars(Scanning \/ decide_freely) /\ WF_watcherVars(tick)

WatcherTypeOK ==
    /\ identity \in [File -> Identity \cup {Gone}] /\ refused \subseteq File
    /\ reachable \in [1..Len(WatchedRoots) -> BOOLEAN]
    /\ quiet \in [File -> 0..Settle] /\ nextIdentity \in 1..(MaxIdentity + 1)
    /\ sample \in [File -> Sample]
    /\ proposals \in [Identity -> Entry] /\ interrupted \subseteq Identity
    /\ paused \in BOOLEAN
    /\ saved \in [proposals : [Identity -> Entry], paused : BOOLEAN]
    /\ orphans \in Nat /\ since \in 0..Period
    /\ pc \in {"idle", "down", "list", "read", "decide", "create"}
    /\ left \in [root : 0..Len(WatchedRoots), files : SUBSET File]
    /\ spent \in 0..MaxEvents

-----------------------------------------------------------------------------
(***************************************************************************)
(* Only a settled file is proposed: an identity that the second read        *)
(* confirms has not changed for the settling time, whatever was written,    *)
(* removed or listed between the samples.  The clock must not have been set *)
(* between the two samples (StabilityTracker::sample, consider; SPEC.md:14  *)
(* "Detect a stable completed regular file").                               *)
(***************************************************************************)
ProposedAfterSettling ==
    [][(pc = "read" /\ pc' = "decide" /\ cur'.identity = cur.sampled /\ ~cur.stepped)
          => quiet[cur.file] >= Settle]_watcherVars

(***************************************************************************)
(* The queue never holds more than MAX_PROPOSALS entries that await review, *)
(* over several roots in one scan, restarts and requests (scan_once).       *)
(***************************************************************************)
QueueBounded == Cardinality(awaiting) <= MAX_PROPOSALS

(* Nothing that the scan meets before it reaches f, or at f, ends it. *)
Unobstructed(f) ==
    /\ readable(f) /\ f \notin Partial
    /\ \A r \in 1..RootOf[f] :
          reachable[r] /\ Cardinality(present(r)) <= MAX_WALK_FILES
    /\ \A g \in File : RootOf[g] <= RootOf[f] => g \notin refused
    /\ ~paused /\ ~full /\ active < MAX_ACTIVE

(* The file is in the queue, or its identity has been reviewed. *)
Considered(f) == already_proposed(f) \/ proposals[identity[f]].status # "absent"

(***************************************************************************)
(* Every file is proposed in the end: if nothing stands in the way of its   *)
(* scan for good, a file that stays as it is gets into the queue, although  *)
(* scans were requested too early, the clock was set, the daemon crashed    *)
(* and files of later roots cannot be read (scan_once, consider).           *)
(***************************************************************************)
SettledFileProposed ==
    \A f \in File : <>[]Unobstructed(f) => <>[](Unobstructed(f) /\ Considered(f))

(***************************************************************************)
(* A full queue pauses scanning in the end, unless reviews make room        *)
(* (scan_once; SPEC.md:37 "Queue/journal exhaustion pauses safely").        *)
(***************************************************************************)
FullQueuePauses == full ~> (paused \/ ~full)

(***************************************************************************)
(* A full journal pauses scanning: the scan whose new row create refuses    *)
(* leaves the daemon paused (SPEC.md:37 "Queue/journal exhaustion pauses    *)
(* safely"; create at MAX_ACTIVE, under consider and scan_once).            *)
(***************************************************************************)
JournalFullPauses ==
    [][(pc = "create" /\ active >= MAX_ACTIVE /\ pc' = "idle") => paused']_watcherVars
=============================================================================
