---------------------------- MODULE IntakeProofs ----------------------------
(***************************************************************************)
(* The safety of the intake, for every number of files, roots, rules and    *)
(* destinations, every limit and every length of the settling time.         *)
(***************************************************************************)
EXTENDS Intake, RulesProofs

-----------------------------------------------------------------------------
(* What consider holds fits its place in the scan. *)
CurOK ==
    /\ cur \in [file : File \cup {NoFile}, sampled : Identity \cup {Gone},
                stepped : BOOLEAN, identity : Identity \cup {Gone}, choice : Choice,
                created : BOOLEAN, timer : BOOLEAN]
    /\ pc \in {"read", "decide", "create"} => cur.file \in File
    /\ pc \in {"decide", "create"} => cur.identity \in Identity

WatcherOK == WatcherTypeOK /\ CurOK

(* The facts about the constants that the steps need. *)
LEMMA WatcherConstants ==
  /\ NoChoice \in Choice /\ Settle \in Nat /\ Period \in Nat /\ MaxIdentity \in Nat
  /\ MAX_PROPOSALS \in Nat /\ MaxEvents \in Nat /\ Settle > 0
  /\ Len(WatchedRoots) \in Nat
  /\ Gone \notin Identity /\ Identity \subseteq Nat
  BY WatcherAssumption DEF Gone, Identity

(* AbsentEntry, NoSample and Nothing are of their types. *)
LEMMA Defaults ==
  /\ AbsentEntry \in Entry /\ NoSample \in Sample
  /\ Nothing \in [file : File \cup {NoFile}, sampled : Identity \cup {Gone},
                  stepped : BOOLEAN, identity : Identity \cup {Gone}, choice : Choice,
                  created : BOOLEAN, timer : BOOLEAN]
  BY WatcherConstants DEF AbsentEntry, Entry, NoSample, Sample, Nothing

(* Ending a scan. *)
LEMMA ScanOverTyped ==
  ASSUME WatcherOK, scan_over, UNCHANGED <<fileVars, sample, spent>>,
         proposals' \in [Identity -> Entry], interrupted' \subseteq Identity,
         paused' \in BOOLEAN, orphans' \in Nat,
         saved' \in [proposals : [Identity -> Entry], paused : BOOLEAN]
  PROVE  WatcherOK'
<1>1. CurOK'
  BY Defaults DEF scan_over, CurOK
<1>2. since' \in 0..Period /\ left' \in [root : 0..Len(WatchedRoots), files : SUBSET File]
  BY WatcherConstants DEF scan_over, WatcherOK, WatcherTypeOK
<1>3. WatcherTypeOK'
  BY <1>2 DEF scan_over, WatcherOK, WatcherTypeOK, fileVars
<1> QED
  BY <1>1, <1>3 DEF WatcherOK

(* An aborted scan changes no type. *)
LEMMA AbortTyped ==
  ASSUME WatcherOK, abort
  PROVE  WatcherOK'
<1>1. /\ scan_over /\ UNCHANGED <<fileVars, sample, spent>>
      /\ UNCHANGED <<proposals, interrupted, orphans, paused, saved>>
  BY DEF abort, storeVars
<1>2. /\ proposals' \in [Identity -> Entry] /\ interrupted' \subseteq Identity
      /\ paused' \in BOOLEAN /\ orphans' \in Nat
      /\ saved' \in [proposals : [Identity -> Entry], paused : BOOLEAN]
  BY <1>1 DEF WatcherOK, WatcherTypeOK
<1> QED
  BY <1>1, <1>2, ScanOverTyped

(* What is saved has the type of what memory holds. *)
LEMMA SaveTyped ==
  ASSUME save, proposals' \in [Identity -> Entry], paused' \in BOOLEAN
  PROVE  saved' \in [proposals : [Identity -> Entry], paused : BOOLEAN]
  BY DEF save

(* A queue entry with another status or destination is a queue entry. *)
LEMMA EntryTyped ==
  ASSUME WatcherOK, NEW i \in Identity, NEW d \in Choice,
         NEW status \in {"absent", "proposed", "needs_attention", "closed"}
  PROVE  /\ entry_as(i, status) \in Entry
         /\ [status |-> status, file |-> proposals[i].file, destination |-> d] \in Entry
<1>1. proposals[i] \in Entry
  BY DEF WatcherOK, WatcherTypeOK
<1> QED
  BY <1>1 DEF entry_as, Entry

(* The steps of a scan. *)
LEMMA ScanningTyped ==
  ASSUME WatcherOK, Scanning
  PROVE  WatcherOK'
<1>0. /\ proposals \in [Identity -> Entry] /\ interrupted \subseteq Identity
      /\ paused \in BOOLEAN /\ orphans \in Nat
      /\ saved \in [proposals : [Identity -> Entry], paused : BOOLEAN]
  BY DEF WatcherOK, WatcherTypeOK
<1>1. CASE scan_timer
  <2>1. CurOK'
    BY <1>1, Defaults DEF scan_timer, begin, CurOK, Nothing
  <2>2. WatcherTypeOK'
    BY <1>1 DEF scan_timer, begin, WatcherOK, WatcherTypeOK, fileVars, storeVars
  <2> QED
    BY <2>1, <2>2 DEF WatcherOK
<1>2. CASE scan_paused
  BY <1>2, AbortTyped DEF scan_paused
<1>3. CASE scan_limit
  <2>1. /\ scan_over /\ UNCHANGED <<fileVars, sample, spent>> /\ save /\ paused' = TRUE
        /\ UNCHANGED <<proposals, interrupted, orphans>>
    BY <1>3 DEF scan_limit
  <2>2. saved' \in [proposals : [Identity -> Entry], paused : BOOLEAN]
    BY <1>0, <2>1, SaveTyped
  <2> QED
    BY <1>0, <2>1, <2>2, ScanOverTyped
<1>4. CASE list_root
  <2>1. CASE abort
    BY <2>1, AbortTyped
  <2>2. CASE ~abort
    <3>1. /\ left' = [root |-> left.root + 1, files |-> present(left.root + 1)]
          /\ UNCHANGED <<fileVars, sample, storeVars, pc, cur, since, spent>>
          /\ left.root < Len(WatchedRoots)
      BY <1>4, <2>2 DEF list_root
    <3>2. left' \in [root : 0..Len(WatchedRoots), files : SUBSET File]
      BY <3>1 DEF WatcherOK, WatcherTypeOK, present
    <3>3. WatcherTypeOK'
      BY <3>1, <3>2 DEF WatcherOK, WatcherTypeOK, fileVars, storeVars
    <3>4. CurOK'
      BY <3>1 DEF WatcherOK, CurOK
    <3> QED
      BY <3>3, <3>4 DEF WatcherOK
  <2> QED
    BY <2>1, <2>2
<1>5. CASE scan_end
  <2>1. /\ scan_over /\ UNCHANGED <<fileVars, sample, spent>>
        /\ UNCHANGED <<proposals, interrupted, orphans, paused>>
        /\ save \/ UNCHANGED saved
    BY <1>5 DEF scan_end
  <2>2. saved' \in [proposals : [Identity -> Entry], paused : BOOLEAN]
    BY <1>0, <2>1, SaveTyped
  <2> QED
    BY <1>0, <2>1, <2>2, ScanOverTyped
<1>6. ASSUME NEW f \in File, skip_file(f)
      PROVE  WatcherOK'
  <2>1. WatcherTypeOK'
    BY <1>6 DEF skip_file, WatcherOK, WatcherTypeOK, fileVars, storeVars
  <2>2. CurOK'
    BY <1>6 DEF skip_file, WatcherOK, CurOK
  <2> QED
    BY <2>1, <2>2 DEF WatcherOK
<1>7. ASSUME NEW f \in File, sample_file(f)
      PROVE  WatcherOK'
  <2>1. CASE ~readable(f)
    BY <1>7, <2>1, AbortTyped DEF sample_file
  <2>2. CASE readable(f)
    <3>1. /\ sample' = [sample EXCEPT ![f] = remember(f)]
          /\ left' = [left EXCEPT !.files = @ \ {f}]
          /\ UNCHANGED <<fileVars, storeVars, since, spent>>
          /\ \/ /\ pc' = "read"
                /\ cur' = [cur EXCEPT !.file = f, !.sampled = identity[f],
                                      !.stepped = sample[f].stepped]
             \/ UNCHANGED <<pc, cur>>
      BY <1>7, <2>2 DEF sample_file
    <3>2. identity[f] \in Identity \cup {Gone} /\ sample[f] \in Sample
      BY DEF WatcherOK, WatcherTypeOK
    <3>3. remember(f) \in Sample
      BY <3>2, WatcherConstants DEF remember, Sample
    <3>4. WatcherTypeOK'
      BY <3>1, <3>3 DEF WatcherOK, WatcherTypeOK, fileVars, storeVars
    <3>5. CurOK'
      <4>1. CASE UNCHANGED <<pc, cur>>
        BY <4>1 DEF WatcherOK, CurOK
      <4>2. CASE ~UNCHANGED <<pc, cur>>
        BY <4>2, <3>1, <3>2 DEF WatcherOK, CurOK, Sample
      <4> QED
        BY <4>1, <4>2
    <3> QED
      BY <3>4, <3>5 DEF WatcherOK
  <2> QED
    BY <2>1, <2>2
<1>8. CASE read_identity
  <2>1. CASE ~readable(cur.file)
    BY <1>8, <2>1, AbortTyped DEF read_identity
  <2>2. CASE readable(cur.file)
    <3>1. /\ pc = "read" /\ UNCHANGED <<fileVars, sample, storeVars, left, since, spent>>
          /\ \/ next_file
             \/ pc' = "decide" /\ cur' = [cur EXCEPT !.identity = identity[cur.file]]
      BY <1>8, <2>2 DEF read_identity
    <3>2. cur.file \in File /\ identity[cur.file] \in Identity
      BY <3>1, <2>2 DEF WatcherOK, WatcherTypeOK, CurOK, readable
    <3>3. WatcherTypeOK'
      BY <3>1 DEF next_file, WatcherOK, WatcherTypeOK, fileVars, storeVars
    <3>4. CurOK'
      <4>1. CASE next_file
        BY <4>1, Defaults DEF next_file, WatcherOK, CurOK, Nothing
      <4>2. CASE ~next_file
        BY <4>2, <3>1, <3>2 DEF WatcherOK, CurOK
      <4> QED
        BY <4>1, <4>2
    <3> QED
      BY <3>3, <3>4 DEF WatcherOK
  <2> QED
    BY <2>1, <2>2
<1>9. CASE create
  <2>1. CASE active >= MAX_ACTIVE
    BY <1>9, <2>1, AbortTyped DEF create
  <2>2. CASE ~(active >= MAX_ACTIVE)
    <3> DEFINE e == [status |-> "proposed", file |-> cur.file, destination |-> cur.choice]
    <3>1. /\ pc = "create" /\ pc' = "list"
          /\ proposals' = [proposals EXCEPT ![cur.identity] = e]
          /\ cur' = [Nothing EXCEPT !.created = TRUE, !.timer = cur.timer]
          /\ UNCHANGED <<fileVars, sample, interrupted, orphans, paused, saved, left,
                         since, spent>>
      BY <1>9, <2>2 DEF create
    <3>2. e \in Entry /\ cur.identity \in Identity
      BY <3>1 DEF WatcherOK, CurOK, Entry
    <3> HIDE DEF e
    <3>3. proposals' \in [Identity -> Entry]
      BY <1>0, <3>1, <3>2
    <3>4. WatcherTypeOK'
      BY <3>1, <3>3 DEF WatcherOK, WatcherTypeOK, fileVars
    <3>5. CurOK'
      BY <3>1, Defaults DEF WatcherOK, CurOK, Nothing
    <3> QED
      BY <3>4, <3>5 DEF WatcherOK
  <2> QED
    BY <2>1, <2>2
<1>10. CASE restart
  <2>1. /\ pc' = "idle" /\ since' = 0 /\ interrupted' = {} /\ save
        /\ proposals' = [i \in Identity |->
               IF i \in interrupted /\ proposals[i].status # "absent"
               THEN entry_as(i, "needs_attention") ELSE proposals[i]]
        /\ UNCHANGED <<orphans, paused, fileVars, sample, left, cur, spent>>
    BY <1>10 DEF restart
  <2>2. \A i \in Identity : proposals[i] \in Entry /\ entry_as(i, "needs_attention") \in Entry
    BY <1>0, EntryTyped, WatcherConstants
  <2>3. proposals' \in [Identity -> Entry]
    BY <2>1, <2>2
  <2>4. saved' \in [proposals : [Identity -> Entry], paused : BOOLEAN]
    BY <1>0, <2>1, <2>3, SaveTyped
  <2>5. WatcherTypeOK'
    BY <2>1, <2>3, <2>4, WatcherConstants DEF WatcherOK, WatcherTypeOK, fileVars
  <2>6. CurOK'
    BY <2>1 DEF WatcherOK, CurOK
  <2> QED
    BY <2>5, <2>6 DEF WatcherOK
<1> QED
  BY <1>1, <1>2, <1>3, <1>4, <1>5, <1>6, <1>7, <1>8, <1>9, <1>10 DEF Scanning

(* A step that changes only the stored queue, as a request does. *)
LEMMA StoreTyped ==
  ASSUME WatcherOK, UNCHANGED <<fileVars, sample, scanVars, since>>,
         spent' \in 0..MaxEvents,
         proposals' \in [Identity -> Entry], interrupted' \subseteq Identity,
         paused' \in BOOLEAN, UNCHANGED orphans, save \/ UNCHANGED saved
  PROVE  WatcherOK'
<1>1. saved' \in [proposals : [Identity -> Entry], paused : BOOLEAN]
  BY SaveTyped DEF WatcherOK, WatcherTypeOK
<1>2. WatcherTypeOK'
  BY <1>1 DEF WatcherOK, WatcherTypeOK, fileVars, scanVars
<1>3. CurOK'
  BY DEF WatcherOK, CurOK, scanVars
<1> QED
  BY <1>2, <1>3 DEF WatcherOK

(* A counted event stays within the bound. *)
LEMMA EventTyped ==
  ASSUME WatcherOK, event
  PROVE  spent' \in 0..MaxEvents
  BY WatcherConstants DEF event, WatcherOK, WatcherTypeOK

(* Requests. *)
LEMMA RequestsTyped ==
  ASSUME WatcherOK, Requests
  PROVE  WatcherOK'
<1>0. /\ proposals \in [Identity -> Entry] /\ interrupted \subseteq Identity
      /\ paused \in BOOLEAN /\ spent \in 0..MaxEvents
  BY DEF WatcherOK, WatcherTypeOK
<1>1. CASE scan_request
  <2>1. CurOK'
    BY <1>1, Defaults DEF scan_request, begin, CurOK
  <2>2. WatcherTypeOK'
    BY <1>1, EventTyped DEF scan_request, begin, WatcherOK, WatcherTypeOK, fileVars, storeVars
  <2> QED
    BY <2>1, <2>2 DEF WatcherOK
<1>2. ASSUME NEW i \in Identity, NEW moved \in BOOLEAN, review(i, moved)
      PROVE  WatcherOK'
  <2> DEFINE f == proposals[i].file
  <2>1. /\ proposals' = [proposals EXCEPT ![i] = entry_as(i, "closed")] /\ event
        /\ identity' = [identity EXCEPT ![f] = IF moved THEN Gone ELSE @]
        /\ UNCHANGED <<interrupted, orphans, paused>> /\ save
        /\ UNCHANGED <<refused, reachable, quiet, nextIdentity, sample, scanVars, since>>
    BY <1>2 DEF review
  <2>2. entry_as(i, "closed") \in Entry
    BY EntryTyped, WatcherConstants
  <2>3. proposals' \in [Identity -> Entry]
    BY <2>1, <2>2, <1>0
  <2>4. saved' \in [proposals : [Identity -> Entry], paused : BOOLEAN]
    BY <1>0, <2>1, <2>3, SaveTyped
  <2>5. identity' \in [File -> Identity \cup {Gone}]
    BY <2>1 DEF WatcherOK, WatcherTypeOK
  <2>6. WatcherTypeOK'
    BY <2>1, <2>3, <2>4, <2>5, EventTyped DEF WatcherOK, WatcherTypeOK, scanVars
  <2>7. CurOK'
    BY <2>1 DEF WatcherOK, CurOK, scanVars
  <2> QED
    BY <2>6, <2>7 DEF WatcherOK
<1>3. ASSUME NEW i \in Identity, approve_fails(i)
      PROVE  WatcherOK'
  BY <1>0, <1>3, StoreTyped, EventTyped DEF approve_fails
<1>4. ASSUME NEW p \in BOOLEAN, set_paused(p)
      PROVE  WatcherOK'
  BY <1>0, <1>4, StoreTyped DEF set_paused
<1> QED
  BY <1>1, <1>2, <1>3, <1>4 DEF Requests

(* A request for another destination. *)
LEMMA RedirectTyped ==
  ASSUME WatcherOK, NEW i \in Identity, NEW choice \in Choice, redirect(i, choice)
  PROVE  WatcherOK'
<1> DEFINE e == [status |-> "proposed", file |-> proposals[i].file, destination |-> choice]
<1>1. /\ proposals' = [proposals EXCEPT ![i] = e] /\ event /\ save
      /\ UNCHANGED <<interrupted, orphans, paused, fileVars, sample, scanVars, since>>
  BY DEF redirect
<1>2. e \in Entry
  BY EntryTyped
<1> HIDE DEF e
<1>3. /\ proposals' \in [Identity -> Entry] /\ interrupted' \subseteq Identity
      /\ paused' \in BOOLEAN
  BY <1>1, <1>2 DEF WatcherOK, WatcherTypeOK
<1> QED
  BY <1>1, <1>3, StoreTyped, EventTyped

(* Other programs and the administrator. *)
LEMMA OtherProgramsTyped ==
  ASSUME WatcherOK, OtherPrograms
  PROVE  WatcherOK'
<1>1. ASSUME NEW f \in File, user_write(f) \/ user_remove(f) \/ user_link(f)
      PROVE  WatcherOK'
  <2>1. CASE user_write(f)
    <3>1. identity' \in [File -> Identity \cup {Gone}] /\ quiet' \in [File -> 0..Settle]
      BY <2>1, WatcherConstants DEF user_write, WatcherOK, WatcherTypeOK
    <3>2. nextIdentity' \in 1..(MaxIdentity + 1)
      BY <2>1, WatcherConstants DEF user_write, Identity
    <3>3. WatcherTypeOK'
      BY <2>1, <3>1, <3>2, EventTyped
      DEF user_write, WatcherOK, WatcherTypeOK, scanVars, storeVars
    <3>4. CurOK'
      BY <2>1 DEF user_write, WatcherOK, CurOK, scanVars
    <3> QED
      BY <3>3, <3>4 DEF WatcherOK
  <2>2. CASE user_remove(f)
    <3>1. WatcherTypeOK'
      BY <2>2, EventTyped DEF user_remove, WatcherOK, WatcherTypeOK, scanVars, storeVars
    <3>2. CurOK'
      BY <2>2 DEF user_remove, WatcherOK, CurOK, scanVars
    <3> QED
      BY <3>1, <3>2 DEF WatcherOK
  <2>3. CASE user_link(f)
    <3>1. WatcherTypeOK'
      BY <2>3, EventTyped DEF user_link, WatcherOK, WatcherTypeOK, scanVars, storeVars
    <3>2. CurOK'
      BY <2>3 DEF user_link, WatcherOK, CurOK, scanVars
    <3> QED
      BY <3>1, <3>2 DEF WatcherOK
  <2> QED
    BY <1>1, <2>1, <2>2, <2>3
<1>2. ASSUME NEW r \in 1..Len(WatchedRoots), user_mount(r)
      PROVE  WatcherOK'
  <2>1. WatcherTypeOK'
    BY <1>2, EventTyped DEF user_mount, WatcherOK, WatcherTypeOK, scanVars, storeVars
  <2>2. CurOK'
    BY <1>2 DEF user_mount, WatcherOK, CurOK, scanVars
  <2> QED
    BY <2>1, <2>2 DEF WatcherOK
<1>3. ASSUME NEW d \in {-Settle, Settle}, clock_set(d)
      PROVE  WatcherOK'
  <2> DEFINE clamped(f) == IF sample[f].age + d > Settle THEN Settle
                           ELSE IF sample[f].age + d < -Settle THEN -Settle
                           ELSE sample[f].age + d
  <2>1. ASSUME NEW f \in File
        PROVE  [sample[f] EXCEPT !.age = clamped(f), !.stepped = TRUE] \in Sample
    <3>1. sample[f] \in Sample
      BY DEF WatcherOK, WatcherTypeOK
    <3>2. sample[f].age \in Int /\ d \in Int /\ Settle \in Nat
      BY <3>1, <1>3, WatcherConstants DEF Sample
    <3>3. ASSUME NEW age \in -Settle..Settle
          PROVE  [sample[f] EXCEPT !.age = age, !.stepped = TRUE] \in Sample
      BY <3>1 DEF Sample
    <3>4. clamped(f) \in -Settle..Settle
      BY <3>2
    <3> HIDE DEF clamped
    <3> QED
      BY <3>3, <3>4
  <2>2. sample' \in [File -> Sample]
    BY <1>3, <2>1 DEF clock_set
  <2>3. WatcherTypeOK'
    BY <1>3, <2>2, EventTyped DEF clock_set, WatcherOK, WatcherTypeOK, fileVars, scanVars, storeVars
  <2>4. CurOK'
    BY <1>3 DEF clock_set, WatcherOK, CurOK, scanVars
  <2> QED
    BY <2>3, <2>4 DEF WatcherOK
<1> QED
  BY <1>1, <1>2, <1>3 DEF OtherPrograms

(* Time. *)
LEMMA ElapseTyped ==
  ASSUME WatcherOK, elapse
  PROVE  WatcherOK'
<1>1. ASSUME NEW f \in File
      PROVE  [sample[f] EXCEPT !.age = least(@ + 1, Settle)] \in Sample
  <2>1. sample[f] \in Sample
    BY DEF WatcherOK, WatcherTypeOK
  <2>2. least(sample[f].age + 1, Settle) \in -Settle..Settle
    BY <2>1, WatcherConstants DEF Sample, least
  <2> QED
    BY <2>1, <2>2 DEF Sample
<1>2. sample' \in [File -> Sample]
  BY <1>1 DEF elapse
<1>3. ASSUME NEW f \in File
      PROVE  least(quiet[f] + 1, Settle) \in 0..Settle
  BY WatcherConstants DEF WatcherOK, WatcherTypeOK, least
<1>4. quiet' \in [File -> 0..Settle] /\ since' \in 0..Period
  BY <1>3, WatcherConstants DEF elapse, WatcherOK, WatcherTypeOK, least
<1>5. WatcherTypeOK'
  BY <1>2, <1>4 DEF elapse, WatcherOK, WatcherTypeOK, scanVars, storeVars
<1>6. CurOK'
  BY DEF elapse, WatcherOK, CurOK, scanVars
<1> QED
  BY <1>5, <1>6 DEF WatcherOK

(* A crash counts the rows whose entries were never saved. *)
LEMMA CrashTyped ==
  ASSUME WatcherOK, crash
  PROVE  WatcherOK'
<1> DEFINE lost == {i \in awaiting : saved.proposals[i].status = "absent"}
<1>1. IsFiniteSet(Identity)
  BY FS_Interval, WatcherConstants DEF Identity
<1>2. Cardinality(lost) \in Nat
  <2>1. lost \in SUBSET Identity
    BY DEF awaiting
  <2> HIDE DEF lost
  <2> QED
    BY <1>1, <2>1, FS_Subset, FS_CardinalityType
<1>3. orphans' = orphans + Cardinality(lost)
  BY DEF crash
<1> HIDE DEF lost
<1>4. orphans' \in Nat
  BY <1>2, <1>3 DEF WatcherOK, WatcherTypeOK
<1>5. left' \in [root : 0..Len(WatchedRoots), files : SUBSET File]
  BY DEF crash, WatcherOK, WatcherTypeOK
<1>6. sample' \in [File -> Sample] /\ proposals' \in [Identity -> Entry] /\ paused' \in BOOLEAN
  BY Defaults DEF crash, WatcherOK, WatcherTypeOK
<1>7. WatcherTypeOK'
  BY <1>4, <1>5, <1>6, EventTyped DEF crash, WatcherOK, WatcherTypeOK, fileVars
<1>8. CurOK'
  BY Defaults DEF crash, CurOK
<1> QED
  BY <1>7, <1>8 DEF WatcherOK

(* The watcher's variables alone decide its types. *)
LEMMA UnchangedTyped ==
  ASSUME WatcherOK, UNCHANGED watcherVars
  PROVE  WatcherOK'
<1>1. WatcherTypeOK'
  BY DEF WatcherOK, WatcherTypeOK, watcherVars, fileVars, storeVars, scanVars
<1>2. CurOK'
  BY DEF WatcherOK, CurOK, watcherVars, scanVars
<1> QED
  BY <1>1, <1>2 DEF WatcherOK

(* Deciding on a destination. *)
LEMMA DecidedTyped ==
  ASSUME WatcherOK, pc = "decide", NEW choice \in Choice, decided(choice),
         UNCHANGED <<fileVars, sample, storeVars, left, since, spent>>
  PROVE  WatcherOK'
<1>1. WatcherTypeOK'
  BY DEF decided, WatcherOK, WatcherTypeOK, fileVars, storeVars
<1>2. CurOK'
  BY DEF decided, WatcherOK, CurOK
<1> QED
  BY <1>1, <1>2 DEF WatcherOK

(* The identities that the files have at the start. *)
LEMMA InitIdentities ==
  /\ Cardinality(File) \in Nat /\ Cardinality(File) <= MaxIdentity
  /\ FirstIdentity \in [File -> 1..Cardinality(File)]
<1> DEFINE n == Cardinality(File)
<1>1. n \in Nat /\ ExistsBijection(1..n, File) /\ n <= MaxIdentity
  BY FS_CardinalityType, WatcherAssumption
<1>2. PICK g \in [1..n -> File] : \A f \in File : \E k \in 1..n : g[k] = f
  BY <1>1 DEF ExistsBijection, Bijection, Surjection
<1>3. \E m \in [File -> 1..n] : \A f, h \in File : m[f] = m[h] => f = h
  <2> DEFINE m == [f \in File |-> CHOOSE k \in 1..n : g[k] = f]
  <2>1. \A f \in File : m[f] \in 1..n /\ g[m[f]] = f
    BY <1>2
  <2>2. m \in [File -> 1..n]
    BY <2>1
  <2> HIDE DEF m
  <2>3. \A f, h \in File : m[f] = m[h] => f = h
    BY <2>1
  <2> QED
    BY <2>2, <2>3
<1>4. FirstIdentity \in [File -> 1..n]
  BY <1>3 DEF FirstIdentity
<1> QED
  BY <1>1, <1>4

(* The initial state. *)
LEMMA InitTyped ==
  ASSUME WatcherInit
  PROVE  WatcherOK
<1> DEFINE n == Cardinality(File)
<1>1. n \in Nat /\ n <= MaxIdentity /\ FirstIdentity \in [File -> 1..n]
  BY InitIdentities
<1>5. \A f \in File : FirstIdentity[f] \in Identity
  BY <1>1, WatcherConstants DEF Identity
<1>6. identity \in [File -> Identity \cup {Gone}]
  BY <1>5 DEF WatcherInit
<1>7. nextIdentity \in 1..(MaxIdentity + 1)
  BY <1>1, WatcherConstants DEF WatcherInit
<1>8. left \in [root : 0..Len(WatchedRoots), files : SUBSET File]
  BY WatcherConstants DEF WatcherInit
<1>9. /\ proposals \in [Identity -> Entry] /\ paused \in BOOLEAN
      /\ saved \in [proposals : [Identity -> Entry], paused : BOOLEAN]
      /\ sample \in [File -> Sample]
  BY Defaults DEF WatcherInit
<1>10. WatcherTypeOK
  BY <1>6, <1>7, <1>8, <1>9, WatcherConstants DEF WatcherInit, WatcherTypeOK
<1>11. CurOK
  BY Defaults DEF WatcherInit, CurOK
<1> QED
  BY <1>10, <1>11 DEF WatcherOK

-----------------------------------------------------------------------------
(***************************************************************************)
(* The agent: time is only counted while the daemon waits, the output is    *)
(* only read after an exit, and what was returned is allowed.               *)
(***************************************************************************)
AgentOK ==
    /\ AgentTypeOK
    /\ phase = "drain" => child = "exited"
    /\ phase \notin {"wait", "drain"} => elapsed = 0
    /\ elapsed > Deadline => phase = "drain"
    /\ phase = "returned" => outcome.destination \in allowed \cup {NoRoot}

(* What any step does to the agent. *)
AgentStep ==
    \/ spawn(dests) \/ classify_steps \/ poll_again \/ blocked
    \/ \E o \in Output, h \in BOOLEAN : child_exits(o, h)
    \/ pipe_closes \/ forget \/ UNCHANGED agentVars

(* Every step of the intake is such a step. *)
LEMMA NextAgentStep ==
  ASSUME [Next]_vars
  PROVE  AgentStep
<1>1. CASE Configure
  BY <1>1 DEF Configure, create_rule_from_proposal, remove_destination, configure_agent, AgentStep
<1>2. CASE Daemon
  <2>1. CASE decide
    BY <2>1 DEF decide, agent_or_fallback, AgentStep
  <2>2. CASE agent_answer
    BY <2>2 DEF agent_answer, AgentStep
  <2>3. CASE classify
    BY <2>3 DEF classify, AgentStep
  <2> QED
    BY <1>2, <2>1, <2>2, <2>3 DEF Daemon, AgentStep
<1>3. CASE Time \/ Environment \/ pipe_released \/ Crash
  BY <1>3 DEF Time, agent_waits, Environment, pipe_released, Crash, AgentStep
<1>4. CASE UNCHANGED vars
  BY <1>4 DEF vars, AgentStep
<1> QED
  BY <1>1, <1>2, <1>3, <1>4 DEF Next

(* Returning an outcome. *)
LEMMA ReturnOK ==
  ASSUME AgentOK, NEW result \in Outcome, return(result),
         result.destination \in allowed \cup {NoRoot}
  PROVE  AgentOK'
<1>1. NoOutput \in Output /\ Deadline \in Nat
  BY AgentAssumption DEF NoOutput, Output
<1>2. AgentTypeOK'
  <2>1. /\ phase' \in {"none", "write", "wait", "drain", "returned"}
        /\ allowed' \subseteq RootId /\ elapsed' \in 0..(Deadline + 1)
        /\ child' \in {"none", "running", "exited"} /\ output' \in Output
        /\ outcome' \in Outcome
    BY <1>1 DEF AgentOK, AgentTypeOK, return
  <2>2. held' \in BOOLEAN
    BY DEF return
  <2> QED
    BY <2>1, <2>2 DEF AgentTypeOK
<1> QED
  BY <1>1, <1>2 DEF AgentOK, return

(* Such a step keeps what is known of the agent. *)
LEMMA AgentStepOK ==
  ASSUME AgentOK, AgentStep, dests \subseteq RootId
  PROVE  AgentOK'
<1>0. /\ Failed \in Outcome /\ Failed.destination = NoRoot /\ Pending \in Outcome
      /\ NoOutput \in Output /\ Deadline \in Nat
  BY AgentAssumption DEF Failed, Pending, Outcome, NoOutput, Output
<1>1. CASE spawn(dests)
  BY <1>0, <1>1 DEF spawn, AgentOK, AgentTypeOK
<1>2. CASE write_request
  <2>1. CASE return(Failed)
    BY <2>1, <1>0, ReturnOK
  <2>2. CASE ~return(Failed)
    BY <1>2, <2>2, <1>0 DEF write_request, AgentOK, AgentTypeOK
  <2> QED
    BY <2>1, <2>2
<1>3. CASE poll_exited
  BY <1>0, <1>3 DEF poll_exited, AgentOK, AgentTypeOK
<1>4. CASE poll_timeout
  BY <1>0, <1>4, ReturnOK DEF poll_timeout
<1>5. CASE read_output
  <2>1. validated \in Outcome /\ validated.destination \in allowed \cup {NoRoot}
    <3>1. output \in Output /\ allowed \subseteq RootId
      BY DEF AgentOK, AgentTypeOK
    <3> QED
      BY <1>0, <3>1 DEF validated, Outcome
  <2> QED
    BY <1>5, <2>1, ReturnOK DEF read_output
<1>6. CASE poll_again \/ blocked
  BY <1>0, <1>6 DEF poll_again, blocked, AgentOK, AgentTypeOK
<1>7. ASSUME NEW o \in Output, NEW h \in BOOLEAN, child_exits(o, h)
      PROVE  AgentOK'
  BY <1>0, <1>7 DEF child_exits, AgentOK, AgentTypeOK
<1>8. CASE pipe_closes \/ UNCHANGED agentVars
  BY <1>0, <1>8 DEF pipe_closes, agentVars, AgentOK, AgentTypeOK
<1>9. CASE forget
  <2>1. /\ phase' \in {"none", "write", "wait", "drain", "returned"}
        /\ allowed' \subseteq RootId /\ elapsed' \in 0..(Deadline + 1)
        /\ child' \in {"none", "running", "exited"} /\ output' \in Output
        /\ outcome' \in Outcome
    BY <1>0, <1>9 DEF forget
  <2>2. held' \in BOOLEAN
    BY <1>9 DEF forget
  <2>3. AgentTypeOK'
    BY <2>1, <2>2 DEF AgentTypeOK
  <2> QED
    BY <2>3, <1>0, <1>9 DEF forget, AgentOK
<1> QED
  BY <1>1, <1>2, <1>3, <1>4, <1>5, <1>6, <1>7, <1>8, <1>9 DEF AgentStep, classify_steps

-----------------------------------------------------------------------------
(* A rule that can be stored: it validates, and names a possible choice. *)
MadeRule ==
    [priority : Priority, destination : Choice,
     predicates : {{[kind |-> "extension", value |-> Extension[f]]} : f \in File \cup {NoFile}}]
StoredRule == UNION {{r[i] : i \in DOMAIN r} : r \in StartRules}
UsableRule == {r \in MadeRule \cup StoredRule :
                   validate_rule(r) /\ r.priority \in Int /\ r.destination \in Choice}

ConfigOK ==
    /\ rules \in Seq(UsableRule) /\ Len(rules) <= MAX_RULES
    /\ dests \subseteq RootId /\ agentOn \in BOOLEAN

(* The rules that state.json holds at the start are usable. *)
LEMMA ConfigInit ==
  ASSUME Init
  PROVE  ConfigOK
<1>1. rules \in StartRules /\ dests = RootId /\ agentOn \in BOOLEAN
  BY DEF Init
<1>2. rules \in Seq({rules[i] : i \in DOMAIN rules}) /\ Len(rules) <= MAX_RULES
  BY <1>1, IntakeAssumption
<1>3. \A i \in DOMAIN rules : rules[i] \in UsableRule
  <2> SUFFICES ASSUME NEW i \in DOMAIN rules PROVE rules[i] \in UsableRule
    OBVIOUS
  <2>1. rules[i] \in StoredRule
    BY <1>1 DEF StoredRule
  <2>2. /\ validate_rule(rules[i]) /\ rules[i].priority \in Int
        /\ rules[i].destination \in Choice
    BY <1>1, IntakeAssumption
  <2> QED
    BY <2>1, <2>2 DEF UsableRule
<1>4. Len(rules) \in Nat /\ DOMAIN rules = 1..Len(rules) /\ rules = [i \in 1..Len(rules) |-> rules[i]]
  BY <1>2
<1>5. rules \in Seq(UsableRule)
  BY <1>3, <1>4
<1> QED
  BY <1>1, <1>2, <1>5 DEF ConfigOK

(* A request that stores a rule stores a usable one, and not one too many. *)
LEMMA ConfigStep ==
  ASSUME ConfigOK, WatcherOK, [Next]_vars
  PROVE  ConfigOK'
<1>1. ASSUME NEW i \in Identity, NEW priority \in Priority,
             create_rule_from_proposal(i, priority)
      PROVE  ConfigOK'
  <2> DEFINE p == proposals[i]
             rule == [priority |-> priority,
                      predicates |-> {[kind |-> "extension", value |-> Extension[p.file]]},
                      destination |-> p.destination]
  <2>1. /\ evaluate_rules(<<rule>>, facts_for(p.file)) # RuleError /\ rules' = Append(rules, rule)
        /\ Len(rules) < MAX_RULES /\ UNCHANGED <<dests, agentOn>>
    BY <1>1 DEF create_rule_from_proposal
  <2>2. validate_rule(rule)
    <3> HIDE DEF rule
    <3>1. 1 \in DOMAIN <<rule>> /\ <<rule>>[1] = rule
      OBVIOUS
    <3> QED
      BY <2>1, <3>1 DEF evaluate_rules
  <2>3. p \in Entry
    BY DEF WatcherOK, WatcherTypeOK
  <2>4. p.file \in File \cup {NoFile} /\ p.destination \in Choice /\ priority \in Int
    BY <2>3, IntakeAssumption DEF Entry
  <2>5. rule \in UsableRule
    <3>1. rule \in MadeRule
      BY <2>4 DEF MadeRule
    <3> QED
      BY <2>2, <2>4, <3>1 DEF UsableRule
  <2> HIDE DEF rule
  <2>6. Len(rules') = Len(rules) + 1 /\ rules' \in Seq(UsableRule) /\ Len(rules) \in Nat
    BY <2>1, <2>5 DEF ConfigOK
  <2> QED
    BY <2>1, <2>6, RulesAssumption DEF ConfigOK
<1>2. ASSUME NEW r \in RootId, remove_destination(r)
      PROVE  ConfigOK'
  BY <1>2 DEF remove_destination, ConfigOK
<1>3. ASSUME NEW on \in BOOLEAN, configure_agent(on)
      PROVE  ConfigOK'
  BY <1>3 DEF configure_agent, ConfigOK
<1>4. CASE UNCHANGED configVars
  BY <1>4 DEF configVars, ConfigOK
<1>5. CASE Daemon \/ Time \/ Environment \/ pipe_released \/ Crash \/ UNCHANGED vars
  BY <1>5, <1>4 DEF Daemon, decide, agent_answer, classify, Time, agent_waits, Environment,
                    pipe_released, Crash, vars
<1> QED
  BY <1>1, <1>2, <1>3, <1>5 DEF Next, Configure

(* Usable rules, and not too many, are what evaluate_rules asks for. *)
LEMMA ConfigUsable ==
  ASSUME ConfigOK
  PROVE  /\ RulesUsable /\ Ranked(rules)
         /\ \A i \in DOMAIN rules : rules[i].destination \in Choice
<1>1. \A i \in DOMAIN rules : rules[i] \in UsableRule
  BY DEF ConfigOK
<1>2. \A i \in DOMAIN rules : /\ validate_rule(rules[i]) /\ rules[i].priority \in Int
                              /\ rules[i].destination \in Choice
  BY <1>1 DEF UsableRule
<1>3. ~(Len(rules) > MAX_RULES)
  BY RulesAssumption DEF ConfigOK
<1>4. Abstain # RuleError /\ Tie # RuleError /\ \A d : Destination(d) # RuleError
  BY DEF Abstain, Tie, Destination, RuleError
<1> QED
  BY <1>2, <1>3, <1>4 DEF RulesUsable, Ranked, evaluate_rules

-----------------------------------------------------------------------------
(* The entries of a queue that await review. *)
Waiting(q) == {i \in Identity : q[i].status = "proposed"}

(* Memory and disk hold a queue within the limit, and consider has room. *)
QueueOK ==
    /\ Cardinality(Waiting(proposals)) <= MAX_PROPOSALS
    /\ Cardinality(Waiting(saved.proposals)) <= MAX_PROPOSALS
    /\ pc \in {"read", "decide", "create"} => ~full

(* What any step does to the queue and its copy on disk. *)
QueueStep ==
    /\ saved' = saved \/ saved'.proposals = proposals'
    /\ pc' \in {"read", "decide", "create"} =>
          proposals' = proposals /\ (pc \in {"read", "decide", "create"} \/ ~full)
    /\ \/ Waiting(proposals') \subseteq Waiting(proposals)
       \/ proposals' = saved.proposals
       \/ pc = "create" /\ Waiting(proposals') \subseteq Waiting(proposals) \cup {cur.identity}

(* An abort, and any step that leaves queue and scan alone. *)
LEMMA QuietQueueStep ==
  ASSUME proposals' = proposals, saved' = saved \/ save,
         pc' = pc \/ pc' \notin {"read", "decide", "create"}
  PROVE  QueueStep
  BY DEF QueueStep, Waiting, save

(* The steps of a scan, as steps of the queue. *)
LEMMA ScanningQueueStep ==
  ASSUME WatcherOK, Scanning
  PROVE  QueueStep
<1>0. CASE abort
  BY <1>0, QuietQueueStep DEF abort, scan_over, storeVars
<1>1. CASE scan_timer
  BY <1>1, QuietQueueStep DEF scan_timer, begin, storeVars
<1>2. CASE scan_limit \/ scan_end
  BY <1>2, QuietQueueStep DEF scan_limit, scan_end, scan_over
<1>3. CASE list_root /\ ~abort
  BY <1>3, QuietQueueStep DEF list_root, storeVars
<1>4. ASSUME NEW f \in File, skip_file(f)
      PROVE  QueueStep
  BY <1>4, QuietQueueStep DEF skip_file, storeVars
<1>5. ASSUME NEW f \in File, sample_file(f), ~abort
      PROVE  QueueStep
  <2>1. UNCHANGED <<proposals, saved>> /\ ~full
    BY <1>5 DEF sample_file, storeVars
  <2> QED
    BY <2>1 DEF QueueStep, Waiting
<1>6. CASE read_identity /\ ~abort
  <2>1. UNCHANGED <<proposals, saved>> /\ pc = "read"
    BY <1>6 DEF read_identity, storeVars
  <2> QED
    BY <2>1 DEF QueueStep, Waiting
<1>7. CASE create /\ ~abort
  <2> DEFINE e == [status |-> "proposed", file |-> cur.file, destination |-> cur.choice]
  <2>1. /\ pc = "create" /\ pc' = "list" /\ saved' = saved
        /\ proposals' = [proposals EXCEPT ![cur.identity] = e]
    BY <1>7 DEF create
  <2> HIDE DEF e
  <2>2. \A i \in Identity : i # cur.identity => proposals'[i] = proposals[i]
    BY <2>1 DEF WatcherOK, WatcherTypeOK
  <2>3. Waiting(proposals') \subseteq Waiting(proposals) \cup {cur.identity}
    BY <2>2 DEF Waiting
  <2> QED
    BY <2>1, <2>3 DEF QueueStep
<1>8. CASE restart
  <2>1. pc' = "idle" /\ save
    BY <1>8 DEF restart
  <2>2. saved'.proposals = proposals'
    BY <2>1 DEF save
  <2>3. \A i \in Identity :
           proposals'[i] = proposals[i] \/ proposals'[i] = entry_as(i, "needs_attention")
    BY <1>8 DEF restart
  <2>4. Waiting(proposals') \subseteq Waiting(proposals)
    <3>1. \A i : entry_as(i, "needs_attention").status = "needs_attention"
      BY DEF entry_as
    <3>2. \A i \in Identity : proposals'[i].status = "proposed" => proposals[i].status = "proposed"
      BY <2>3, <3>1
    <3> QED
      BY <3>2 DEF Waiting
  <2> QED
    BY <2>1, <2>2, <2>4 DEF QueueStep
<1> QED
  BY <1>0, <1>1, <1>2, <1>3, <1>4, <1>5, <1>6, <1>7, <1>8 DEF Scanning, scan_paused

(* Requests and other programs, as steps of the queue. *)
LEMMA RequestQueueStep ==
  ASSUME WatcherOK, Requests \/ Redirect \/ OtherPrograms
  PROVE  QueueStep
<1>0. proposals \in [Identity -> Entry]
  BY DEF WatcherOK, WatcherTypeOK
<1>1. CASE scan_request
  BY <1>1, QuietQueueStep DEF scan_request, begin, storeVars
<1>2. ASSUME NEW i \in Identity, NEW e, save, UNCHANGED pc, pc = "idle",
             proposals[i].status = "proposed", proposals' = [proposals EXCEPT ![i] = e]
      PROVE  QueueStep
  <2>1. Waiting(proposals') \subseteq Waiting(proposals)
    BY <1>0, <1>2 DEF Waiting
  <2>2. saved'.proposals = proposals'
    BY <1>2 DEF save
  <2> QED
    BY <1>2, <2>1, <2>2 DEF QueueStep
<1>3. ASSUME NEW i \in Identity, NEW moved \in BOOLEAN, review(i, moved)
      PROVE  QueueStep
  BY <1>2, <1>3 DEF review, scanVars
<1>4. ASSUME NEW i \in Identity, NEW choice, redirect(i, choice)
      PROVE  QueueStep
  BY <1>2, <1>4 DEF redirect, scanVars
<1>5. ASSUME NEW i \in Identity, approve_fails(i)
      PROVE  QueueStep
  BY <1>5, QuietQueueStep DEF approve_fails, scanVars
<1>6. ASSUME NEW p \in BOOLEAN, set_paused(p)
      PROVE  QueueStep
  BY <1>6, QuietQueueStep DEF set_paused, scanVars
<1>7. CASE OtherPrograms
  BY <1>7, QuietQueueStep DEF OtherPrograms, user_write, user_remove, user_link, user_mount,
                              clock_set, storeVars, scanVars
<1> QED
  BY <1>1, <1>3, <1>4, <1>5, <1>6, <1>7 DEF Requests, Redirect, choose_destination

(* The other steps of the intake leave the queue alone, but for a crash. *)
LEMMA NextQueueStep ==
  ASSUME WatcherOK, [Next]_vars, phase # "none" => pc = "decide"
  PROVE  QueueStep
<1>1. CASE Configure
  BY <1>1, QuietQueueStep DEF Configure, create_rule_from_proposal, remove_destination,
                              configure_agent, scanVars
<1>2. ASSUME NEW choice, pc = "decide", decided(choice), UNCHANGED storeVars
      PROVE  QueueStep
  BY <1>2 DEF decided, storeVars, QueueStep, Waiting
<1>3. CASE UNCHANGED watcherVars
  BY <1>3, QuietQueueStep DEF watcherVars, storeVars, scanVars
<1>4. CASE decide
  <2>1. CASE abort
    BY <2>1, QuietQueueStep DEF abort, scan_over, storeVars
  <2> QED
    BY <1>2, <1>3, <1>4, <2>1 DEF decide, agent_or_fallback
<1>5. CASE agent_answer
  BY <1>2, <1>5 DEF agent_answer
<1>6. CASE elapse
  BY <1>6, QuietQueueStep DEF elapse, storeVars, scanVars
<1>7. CASE crash
  BY <1>7 DEF crash, QueueStep
<1>8. CASE Daemon
  BY <1>8, <1>3, <1>4, <1>5, ScanningQueueStep DEF Daemon, classify
<1>9. CASE Time \/ Environment \/ pipe_released \/ Crash \/ UNCHANGED vars
  BY <1>9, <1>3, <1>6, <1>7, RequestQueueStep
  DEF Time, tick, agent_waits, Environment, pipe_released, Crash, vars
<1> QED
  BY <1>1, <1>8, <1>9 DEF Next

(* The limit holds after such a step. *)
LEMMA QueueStepOK ==
  ASSUME WatcherOK, QueueOK, QueueStep
  PROVE  QueueOK'
<1>1. IsFiniteSet(Identity) /\ MAX_PROPOSALS \in Nat
  BY FS_Interval, WatcherConstants DEF Identity
<1>2. ASSUME NEW q PROVE Waiting(q) \in SUBSET Identity /\ IsFiniteSet(Waiting(q))
                         /\ Cardinality(Waiting(q)) \in Nat
  <2>1. Waiting(q) \in SUBSET Identity
    BY DEF Waiting
  <2> QED
    BY <2>1, <1>1, FS_Subset, FS_CardinalityType
<1>3. full <=> Cardinality(Waiting(proposals)) >= MAX_PROPOSALS
  BY DEF full, awaiting, Waiting
<1>4. full' <=> Cardinality(Waiting(proposals')) >= MAX_PROPOSALS
  BY DEF full, awaiting, Waiting
<1>5. Cardinality(Waiting(proposals')) <= MAX_PROPOSALS
  <2>1. CASE Waiting(proposals') \subseteq Waiting(proposals)
    <3>1. Cardinality(Waiting(proposals')) <= Cardinality(Waiting(proposals))
      BY <2>1, <1>2, FS_Subset
    <3> QED
      BY <3>1, <1>1, <1>2 DEF QueueOK
  <2>2. CASE proposals' = saved.proposals
    BY <2>2 DEF QueueOK
  <2>3. CASE pc = "create" /\ Waiting(proposals') \subseteq Waiting(proposals) \cup {cur.identity}
    <3> DEFINE more == Waiting(proposals) \cup {cur.identity}
    <3>1. /\ IsFiniteSet(more) /\ Cardinality(more) \in Nat
          /\ Cardinality(more) <= Cardinality(Waiting(proposals)) + 1
      <4>1. /\ IsFiniteSet(more)
            /\ \/ Cardinality(more) = Cardinality(Waiting(proposals))
               \/ Cardinality(more) = Cardinality(Waiting(proposals)) + 1
        BY <1>2, FS_AddElement
      <4> HIDE DEF more
      <4> QED
        BY <4>1, <1>2
    <3>2. Cardinality(Waiting(proposals)) < MAX_PROPOSALS
      BY <2>3, <1>1, <1>2, <1>3 DEF QueueOK
    <3> HIDE DEF more
    <3>3. Cardinality(Waiting(proposals')) <= Cardinality(more)
      BY <2>3, <3>1, FS_Subset DEF more
    <3> QED
      BY <3>1, <3>2, <3>3, <1>1, <1>2
  <2> QED
    BY <2>1, <2>2, <2>3 DEF QueueStep
<1>6. Cardinality(Waiting(saved'.proposals)) <= MAX_PROPOSALS
  BY <1>5 DEF QueueStep, QueueOK
<1>7. pc' \in {"read", "decide", "create"} => ~full'
  BY <1>3, <1>4 DEF QueueStep, QueueOK
<1> QED
  BY <1>5, <1>6, <1>7 DEF QueueOK

-----------------------------------------------------------------------------
(* The destination that consider may give to a file. *)
Explained(f, d) ==
    IF \E i \in DOMAIN rules : Unanimous(f, rules[i].destination)
    THEN Unanimous(f, d)
    ELSE d = NoChoice \/ (agentOn /\ d.root \in dests /\ d.directory = ".")

(* The agent is only asked where the rules are silent, and about the        *)
(* destinations that are still enrolled when it answers.                    *)
BusyOK ==
    phase # "none" => /\ pc = "decide" /\ agentOn /\ allowed = dests
                      /\ \A d : ~Unanimous(cur.file, d)

ChoiceOK == pc = "create" => Explained(cur.file, cur.choice)

(* Unanimous is Agreed of the rules engine. *)
LEMMA UnanimousIsAgreed ==
  ASSUME NEW f, NEW d
  PROVE  Unanimous(f, d) <=> Agreed(rules, facts_for(f), d)
  BY DEF Unanimous, Agreed, matches

(* What the rules decide about a file. *)
LEMMA RulesExplain ==
  ASSUME ConfigOK, NEW f \in File
  PROVE  LET result == evaluate_rules(rules, facts_for(f)) IN
         /\ result # RuleError /\ result.decision \in {"destination", "tie", "abstain"}
         /\ result.decision = "destination" =>
               Unanimous(f, result.destination) /\ result.destination \in Choice
         /\ result.decision # "destination" => \A d : ~Unanimous(f, d)
<1> DEFINE result == evaluate_rules(rules, facts_for(f))
<1>1. result # RuleError /\ Ranked(rules) /\ rules \in Seq(UsableRule)
  BY ConfigUsable DEF RulesUsable, ConfigOK
<1>2. /\ result.decision \in {"destination", "tie", "abstain"}
      /\ result.decision = "destination" => Agreed(rules, facts_for(f), result.destination)
      /\ result.decision # "destination" => \A d : ~Agreed(rules, facts_for(f), d)
  BY <1>1, RulesDecide
<1> HIDE DEF result
<1>3. \A d : Unanimous(f, d) => d \in Choice
  <2> SUFFICES ASSUME NEW d, Unanimous(f, d) PROVE d \in Choice
    OBVIOUS
  <2>1. PICK i \in DOMAIN rules :
            rules[i].priority < rules[i].priority \/ rules[i].destination = d
    BY DEF Unanimous
  <2>2. rules[i].priority \in Int /\ rules[i].destination \in Choice
    BY ConfigUsable DEF Ranked
  <2> QED
    BY <2>1, <2>2
<1> QED
  BY <1>1, <1>2, <1>3, UnanimousIsAgreed DEF result

(* The scan is where it was, or just begun, after a request. *)
LEMMA RequestPlaces ==
  ASSUME Requests \/ Redirect \/ OtherPrograms
  PROVE  UNCHANGED scanVars \/ (pc = "idle" /\ pc' = "list")
<1>1. CASE scan_request
  BY <1>1 DEF scan_request, begin
<1> QED
  BY <1>1 DEF Requests, review, approve_fails, set_paused, Redirect, choose_destination,
              redirect, OtherPrograms, user_write, user_remove, user_link, user_mount, clock_set

(* The scan is elsewhere than at a decision before its own steps, and none  *)
(* of them makes one.                                                       *)
LEMMA ScanPlaces ==
  ASSUME Scanning
  PROVE  pc # "decide" /\ (pc' = "create" => UNCHANGED <<pc, cur>> /\ pc = "list")
<1>1. ASSUME abort PROVE pc' = "idle"
  BY <1>1 DEF abort, scan_over
<1> QED
  BY <1>1 DEF Scanning, scan_timer, begin, scan_paused, scan_limit, scan_over, list_root, scan_end,
              skip_file, sample_file, read_identity, next_file, create, restart

(* Facts that depend on the scan, the agent's request and the settings      *)
(* survive a step that changes none of them, and a step elsewhere.          *)
LEMMA FramedOK ==
  ASSUME BusyOK, ChoiceOK, UNCHANGED configVars, UNCHANGED <<phase, allowed>>,
         UNCHANGED <<pc, cur>> \/ (phase = "none" /\ pc' # "create")
  PROVE  BusyOK' /\ ChoiceOK'
<1>1. \A f, d : Unanimous(f, d)' <=> Unanimous(f, d)
  BY DEF Unanimous, configVars
<1> QED
  BY <1>1 DEF BusyOK, ChoiceOK, Explained, configVars

(* A decision that is explained. *)
LEMMA DecidedOK ==
  ASSUME NEW choice, Explained(cur.file, choice), decided(choice), phase' = "none",
         UNCHANGED configVars, WatcherOK
  PROVE  BusyOK' /\ ChoiceOK'
<1>1. pc' = "create" /\ cur'.file = cur.file /\ cur'.choice = choice
  BY DEF decided, WatcherOK, CurOK
<1>2. \A f, d : Unanimous(f, d)' <=> Unanimous(f, d)
  BY DEF Unanimous, configVars
<1>3. Explained(cur.file, cur.choice)'
  BY <1>1, <1>2 DEF Explained, configVars
<1> QED
  BY <1>1, <1>3 DEF BusyOK, ChoiceOK

(* The decision of consider, and the agent's answer to it. *)
LEMMA DecideOK ==
  ASSUME WatcherOK, ConfigOK, BusyOK, ChoiceOK, decide
  PROVE  BusyOK' /\ ChoiceOK' /\ WatcherOK'
<1> DEFINE result == evaluate_rules(rules, facts_for(cur.file))
           frame == UNCHANGED <<fileVars, sample, storeVars, left, since, spent>>
<1>1. /\ pc = "decide" /\ phase = "none" /\ UNCHANGED configVars
      /\ \/ result.decision = "error" /\ abort /\ UNCHANGED agentVars
         \/ /\ result.decision = "destination" /\ decided(result.destination) /\ frame
            /\ UNCHANGED agentVars
         \/ result.decision \in {"tie", "abstain"} /\ agent_or_fallback
  BY DEF decide
<1>2. cur.file \in File
  BY <1>1 DEF WatcherOK, CurOK
<1>3. /\ result.decision \in {"destination", "tie", "abstain"}
      /\ result.decision = "destination" =>
            Unanimous(cur.file, result.destination) /\ result.destination \in Choice
      /\ result.decision # "destination" => \A d : ~Unanimous(cur.file, d)
  BY <1>2, RulesExplain
<1> HIDE DEF result
<1>4. CASE result.decision = "destination"
  <2>1. /\ decided(result.destination) /\ frame /\ phase' = "none"
    BY <1>1, <1>4 DEF agentVars
  <2>2. Explained(cur.file, result.destination)
    BY <1>3, <1>4 DEF Explained, Unanimous
  <2> QED
    BY <1>1, <1>3, <1>4, <2>1, <2>2, DecidedOK, DecidedTyped
<1>5. CASE result.decision # "destination"
  <2>0. agent_or_fallback /\ \A d : ~Unanimous(cur.file, d)
    BY <1>1, <1>3, <1>5
  <2>1. CASE agentOn /\ dests # {}
    <3>1. /\ UNCHANGED watcherVars /\ allowed' = dests
          /\ phase' \in {"write", "returned"}
      BY <2>0, <2>1 DEF agent_or_fallback, spawn
    <3>2. pc' = pc /\ cur' = cur
      BY <3>1 DEF watcherVars, scanVars
    <3>3. \A f, d : Unanimous(f, d)' <=> Unanimous(f, d)
      BY <1>1 DEF Unanimous, configVars
    <3>4. BusyOK' /\ ChoiceOK'
      BY <1>1, <2>0, <2>1, <3>1, <3>2, <3>3 DEF BusyOK, ChoiceOK, configVars
    <3> QED
      BY <3>1, <3>4, UnchangedTyped
  <2>2. CASE ~(agentOn /\ dests # {})
    <3>1. decided(NoChoice) /\ frame /\ phase' = "none"
      BY <1>1, <2>0, <2>2 DEF agent_or_fallback, agentVars
    <3>2. Explained(cur.file, NoChoice)
      BY <2>0 DEF Explained
    <3> QED
      BY <1>1, <3>1, <3>2, DecidedOK, DecidedTyped, WatcherConstants
  <2> QED
    BY <2>1, <2>2
<1> QED
  BY <1>4, <1>5

(* The agent's answer explains the choice. *)
LEMMA AnswerOK ==
  ASSUME WatcherOK, ConfigOK, AgentOK, BusyOK, ChoiceOK, agent_answer
  PROVE  BusyOK' /\ ChoiceOK' /\ WatcherOK'
<1> DEFINE choice == IF outcome.destination = NoRoot THEN NoChoice
                     ELSE [root |-> outcome.destination, directory |-> "."]
<1>1. /\ phase = "returned" /\ decided(choice) /\ phase' = "none" /\ UNCHANGED configVars
      /\ UNCHANGED <<fileVars, sample, storeVars, left, since, spent>>
  BY DEF agent_answer, forget
<1>2. pc = "decide" /\ agentOn /\ allowed = dests /\ \A d : ~Unanimous(cur.file, d)
  BY <1>1 DEF BusyOK
<1>3. outcome.destination \in dests \cup {NoRoot}
  BY <1>1, <1>2 DEF AgentOK
<1>4. choice = NoChoice \/ (choice.root \in dests /\ choice.directory = ".")
  BY <1>3
<1>5. choice \in Choice
  <2>1. \A r \in RootId : [root |-> r, directory |-> "."] \in Choice
    BY IntakeAssumption
  <2> QED
    BY <2>1, <1>3, WatcherConstants DEF ConfigOK
<1> HIDE DEF choice
<1>6. Explained(cur.file, choice)
  BY <1>2, <1>4 DEF Explained
<1> QED
  BY <1>1, <1>2, <1>5, <1>6, DecidedOK, DecidedTyped

-----------------------------------------------------------------------------
(***************************************************************************)
(* The inductive invariant: types, the state of the agent, usable rules, a  *)
(* queue within its limit wherever it is kept, a request to the agent that  *)
(* is still true, and an explanation for the choice that create will store. *)
(***************************************************************************)
IntakeInv ==
    WatcherOK /\ AgentOK /\ ConfigOK /\ QueueOK /\ BusyOK /\ ChoiceOK

(* The invariant of the intake holds at the start. *)
LEMMA IntakeInit ==
  ASSUME Init
  PROVE  IntakeInv
<1>1. WatcherOK /\ ConfigOK
  BY InitTyped, ConfigInit DEF Init
<1>2. AgentOK
  <2>1. NoOutput \in Output /\ Pending \in Outcome /\ Deadline \in Nat
    BY AgentAssumption DEF NoOutput, Output, Pending, Outcome
  <2>2. held \in BOOLEAN
    BY DEF Init, AgentInit
  <2> QED
    BY <2>1, <2>2 DEF Init, AgentInit, AgentOK, AgentTypeOK
<1>3. QueueOK
  <2>1. /\ pc = "idle" /\ saved = [proposals |-> proposals, paused |-> paused]
        /\ proposals = [i \in Identity |-> AbsentEntry]
    BY DEF Init, WatcherInit
  <2>2. saved.proposals = proposals /\ Waiting(proposals) = {}
    BY <2>1 DEF Waiting, AbsentEntry
  <2>3. Cardinality(Waiting(proposals)) = 0
    BY <2>2, FS_EmptySet
  <2>4. Cardinality(Waiting(proposals)) <= MAX_PROPOSALS
    BY <2>3, WatcherConstants
  <2> QED
    BY <2>1, <2>2, <2>4 DEF QueueOK
<1>4. BusyOK /\ ChoiceOK
  BY DEF Init, AgentInit, WatcherInit, BusyOK, ChoiceOK
<1> QED
  BY <1>1, <1>2, <1>3, <1>4 DEF IntakeInv

(* One case for each kind of step of the intake. *)
LEMMA IntakeStep ==
  ASSUME IntakeInv, [Next]_vars
  PROVE  IntakeInv'
<1> USE DEF IntakeInv
<1>1. AgentOK' /\ ConfigOK'
  BY NextAgentStep, AgentStepOK, ConfigStep DEF ConfigOK
<1>2. QueueOK'
  BY NextQueueStep, QueueStepOK DEF BusyOK
<1>3. CASE Configure
  <2>1. /\ pc = "idle" /\ UNCHANGED <<fileVars, sample, scanVars, since, agentVars>>
        /\ UNCHANGED <<proposals, interrupted, orphans, paused>> /\ save /\ event
    BY <1>3 DEF Configure, create_rule_from_proposal, remove_destination, configure_agent
  <2>2. WatcherOK'
    BY <2>1, StoreTyped, EventTyped DEF WatcherOK, WatcherTypeOK
  <2>3. BusyOK' /\ ChoiceOK'
    BY <2>1 DEF BusyOK, ChoiceOK, agentVars, scanVars
  <2> QED
    BY <1>1, <1>2, <2>2, <2>3
<1>4. CASE Scanning /\ UNCHANGED <<agentVars, configVars>>
  <2>1. BusyOK' /\ ChoiceOK'
    <3>1. phase = "none" /\ UNCHANGED <<phase, allowed>>
      BY <1>4, ScanPlaces DEF BusyOK, agentVars
    <3>2. pc' # "create"
      BY <1>4, ScanPlaces
    <3> QED
      BY <1>4, <3>1, <3>2, FramedOK
  <2> QED
    BY <1>1, <1>2, <1>4, <2>1, ScanningTyped
<1>5. CASE decide \/ agent_answer
  BY <1>1, <1>2, <1>5, DecideOK, AnswerOK
<1>6. ASSUME UNCHANGED configVars, elapse \/ UNCHANGED watcherVars,
             (phase' # "none" => phase # "none") /\ UNCHANGED allowed
      PROVE  IntakeInv'
  <2>1. UNCHANGED <<pc, cur>> /\ WatcherOK'
    BY <1>6, ElapseTyped, UnchangedTyped DEF elapse, watcherVars, scanVars
  <2>2. \A f, d : Unanimous(f, d)' <=> Unanimous(f, d)
    BY <1>6 DEF Unanimous, configVars
  <2>3. BusyOK' /\ ChoiceOK'
    BY <1>6, <2>1, <2>2 DEF BusyOK, ChoiceOK, Explained, configVars
  <2> QED
    BY <1>1, <1>2, <2>1, <2>3
<1>7. CASE classify
  BY <1>6, <1>7 DEF classify, classify_steps, write_request, poll_exited, poll_timeout,
                    read_output, return
<1>8. CASE Time
  BY <1>6, <1>8 DEF Time, tick, agent_waits, poll_again, blocked, agentVars
<1>9. CASE (Requests \/ Redirect \/ OtherPrograms) /\ UNCHANGED <<agentVars, configVars>>
  <2>1. WatcherOK'
    <3>1. ASSUME NEW i \in Identity, NEW r \in RootId, NEW d \in Directory,
                 choose_destination(i, r, d)
          PROVE  WatcherOK'
      <4>1. [root |-> r, directory |-> d] \in Choice
        BY IntakeAssumption
      <4> QED
        BY <3>1, <4>1, RedirectTyped DEF choose_destination
    <3> QED
      BY <1>9, <3>1, RequestsTyped, OtherProgramsTyped DEF Redirect
  <2>2. UNCHANGED <<pc, cur>> \/ (phase = "none" /\ pc' # "create")
    BY <1>9, RequestPlaces DEF BusyOK, scanVars
  <2> QED
    BY <1>1, <1>2, <1>9, <2>1, <2>2, FramedOK DEF agentVars
<1>10. CASE \E o \in Output, h \in BOOLEAN :
               child_exits(o, h) /\ UNCHANGED <<watcherVars, configVars>>
  BY <1>6, <1>10 DEF child_exits
<1>11. CASE pipe_released
  BY <1>6, <1>11 DEF pipe_released, pipe_closes
<1>12. CASE Crash
  <2>1. WatcherOK' /\ phase' = "none" /\ pc' = "down"
    BY <1>12, CrashTyped DEF Crash, forget, crash
  <2> QED
    BY <1>1, <1>2, <2>1 DEF BusyOK, ChoiceOK
<1>13. CASE UNCHANGED vars
  BY <1>6, <1>13 DEF vars, agentVars
<1> QED
  BY <1>3, <1>4, <1>5, <1>7, <1>8, <1>9, <1>10, <1>11, <1>12, <1>13
  DEF Next, Daemon, Environment

(* IntakeInv is an invariant. *)
LEMMA IntakeInvariant == Spec => []IntakeInv
  BY IntakeInit, IntakeStep, PTL DEF Spec

-----------------------------------------------------------------------------
(***************************************************************************)
(* Every variable keeps its type, the rules stay within their limit, and    *)
(* the agent runs only inside consider (all handlers of the intake).        *)
(***************************************************************************)
THEOREM IntakeTyped == Spec => []IntakeTypeOK
<1>1. IntakeInv => IntakeTypeOK
  BY DEF IntakeInv, IntakeTypeOK, WatcherOK, AgentOK, ConfigOK, BusyOK
<1> QED
  BY <1>1, IntakeInvariant, PTL

(***************************************************************************)
(* The queue never exceeds MAX_PROPOSALS entries that await review: not by  *)
(* the scan of a root after another, nor by the queue that a restart loads  *)
(* (scan_once, consider).                                                   *)
(***************************************************************************)
THEOREM QueueStaysBounded == Spec => []QueueBounded
<1>1. IntakeInv => QueueBounded
  BY DEF IntakeInv, QueueOK, QueueBounded, awaiting, Waiting
<1> QED
  BY <1>1, IntakeInvariant, PTL

(***************************************************************************)
(* No request stores a rule that makes a scan fail                          *)
(* (create_rule_from_proposal against evaluate_rules).                      *)
(***************************************************************************)
THEOREM RulesStayUsable == Spec => []RulesUsable
<1>1. IntakeInv => RulesUsable
  BY ConfigUsable DEF IntakeInv
<1> QED
  BY <1>1, IntakeInvariant, PTL

(***************************************************************************)
(* The deadline is only overrun after the program's exit, while its output  *)
(* is read (classify).                                                      *)
(***************************************************************************)
THEOREM AgentBounded == Spec => []BoundedUnlessPipeHeld
<1>1. IntakeInv => BoundedUnlessPipeHeld
  BY DEF IntakeInv, AgentOK, BoundedUnlessPipeHeld
<1> QED
  BY <1>1, IntakeInvariant, PTL

(***************************************************************************)
(* Every proposal's destination is what the top rules agree on, or else     *)
(* nothing, or an enrolled one that the enabled agent named (consider,      *)
(* agent_or_fallback, classify).                                            *)
(***************************************************************************)
THEOREM DecisionsExplained == Spec => DecisionExplained
<1> DEFINE Step == (pc = "create" /\ pc' = "list") =>
                   Explained(cur.file, proposals'[cur.identity].destination)
<1>1. ASSUME IntakeInv, [Next]_vars, pc = "create", pc' = "list" PROVE create
  <2>1. CASE Scanning
    BY <1>1, <2>1 DEF Scanning, scan_timer, scan_paused, scan_limit, list_root, scan_end,
                      skip_file, sample_file, read_identity, restart
  <2>2. CASE Configure \/ decide \/ agent_answer \/ classify
    BY <1>1, <2>2 DEF Configure, create_rule_from_proposal, remove_destination, configure_agent,
                      decide, agent_answer, decided, classify, watcherVars, scanVars
  <2>3. CASE Time \/ pipe_released \/ Crash \/ UNCHANGED vars
    BY <1>1, <2>3 DEF Time, tick, agent_waits, elapse, pipe_released, Crash, crash, vars,
                      watcherVars, scanVars
  <2>4. CASE Environment
    BY <1>1, <2>4, RequestPlaces DEF Environment, watcherVars, scanVars
  <2> QED
    BY <1>1, <2>1, <2>2, <2>3, <2>4 DEF Next, Daemon
<1>2. ASSUME IntakeInv, [Next]_vars PROVE Step
  <2> SUFFICES ASSUME pc = "create", pc' = "list"
               PROVE  Explained(cur.file, proposals'[cur.identity].destination)
    OBVIOUS
  <2> DEFINE e == [status |-> "proposed", file |-> cur.file, destination |-> cur.choice]
  <2>1. proposals' = [proposals EXCEPT ![cur.identity] = e]
    BY <1>1, <1>2 DEF create, abort, scan_over
  <2>2. cur.identity \in Identity /\ proposals \in [Identity -> Entry]
    BY <1>2 DEF IntakeInv, WatcherOK, WatcherTypeOK, CurOK
  <2>3. proposals'[cur.identity].destination = cur.choice
    BY <2>1, <2>2
  <2> QED
    BY <1>2, <2>3 DEF IntakeInv, ChoiceOK
<1>3. Step => ((pc = "create" /\ pc' = "list") =>
                  LET d == proposals'[cur.identity].destination IN
                  IF \E i \in DOMAIN rules : Unanimous(cur.file, rules[i].destination)
                  THEN Unanimous(cur.file, d)
                  ELSE d = NoChoice \/ (agentOn /\ d.root \in dests /\ d.directory = "."))
  BY DEF Explained
<1> HIDE DEF Step
<1> QED
  BY <1>2, <1>3, IntakeInvariant, PTL DEF Spec, DecisionExplained
-----------------------------------------------------------------------------
(***************************************************************************)
(* Settling.  An identity is given once, so a file that has the identity of *)
(* its sample has not been changed since the sample was taken, and has been *)
(* quiet for as long as the sample is old; and a file that was found stable *)
(* stays quiet as long as it keeps the identity that was sampled.           *)
(***************************************************************************)
SettleInv ==
    /\ \A f \in File : identity[f] < nextIdentity /\ sample[f].identity < nextIdentity
    /\ \A f \in File :
          (sample[f].identity # Gone /\ sample[f].identity = identity[f] /\ ~sample[f].stepped)
             => sample[f].age <= quiet[f]
    /\ pc = "read" =>
          /\ cur.sampled # Gone /\ cur.sampled < nextIdentity
          /\ (cur.sampled = identity[cur.file] /\ ~cur.stepped) => Settle <= quiet[cur.file]

(* The types that the steps below use. *)
LEMMA SettleTypes ==
  ASSUME WatcherOK
  PROVE  /\ identity \in [File -> Identity \cup {Gone}] /\ quiet \in [File -> 0..Settle]
         /\ nextIdentity \in Nat /\ sample \in [File -> Sample] /\ Settle \in Nat
         /\ \A f \in File : /\ identity[f] \in Nat /\ quiet[f] \in Nat /\ quiet[f] <= Settle
                            /\ sample[f].identity \in Nat /\ sample[f].age \in Int
                            /\ sample[f].age <= Settle
         /\ pc = "read" => cur.file \in File
<1>1. /\ identity \in [File -> Identity \cup {Gone}] /\ quiet \in [File -> 0..Settle]
      /\ nextIdentity \in Nat /\ sample \in [File -> Sample] /\ Settle \in Nat
      /\ pc = "read" => cur.file \in File
  BY WatcherConstants DEF WatcherOK, WatcherTypeOK, CurOK
<1>2. Identity \cup {Gone} \subseteq Nat
  BY WatcherConstants DEF Gone
<1>3. \A s \in Sample : s.identity \in Nat /\ s.age \in Int /\ s.age <= Settle
  BY <1>1, <1>2 DEF Sample
<1> QED
  BY <1>1, <1>2, <1>3

(* A step that leaves files and samples alone, and starts no second read. *)
LEMMA SettleFramed ==
  ASSUME SettleInv, UNCHANGED <<identity, quiet, nextIdentity, sample>>,
         UNCHANGED <<pc, cur>> \/ pc' # "read"
  PROVE  SettleInv'
  BY DEF SettleInv

(* A file that is moved away or removed has no identity to be confirmed. *)
LEMMA SettleGone ==
  ASSUME WatcherOK, SettleInv, NEW f, NEW i \in {Gone, identity[f]},
         identity' = [identity EXCEPT ![f] = i],
         UNCHANGED <<quiet, nextIdentity, sample, pc, cur>>
  PROVE  SettleInv'
<1>1. \A g \in File : identity'[g] = identity[g] \/ identity'[g] = Gone
  BY SettleTypes
<1>2. \A g \in File : identity'[g] < nextIdentity
  BY <1>1, SettleTypes DEF SettleInv, Gone
<1> QED
  BY <1>1, <1>2, SettleTypes DEF SettleInv

(* A file that is written gets an identity that no sample has. *)
LEMMA SettleWrite ==
  ASSUME WatcherOK, SettleInv, NEW f \in File, user_write(f)
  PROVE  SettleInv'
<1>1. /\ \A g \in File : identity'[g] = IF g = f THEN nextIdentity ELSE identity[g]
      /\ \A g \in File : quiet'[g] = IF g = f THEN 0 ELSE quiet[g]
      /\ nextIdentity' = nextIdentity + 1 /\ UNCHANGED <<sample, pc, cur>>
  BY SettleTypes DEF user_write, scanVars
<1>2. \A g \in File : identity'[g] < nextIdentity' /\ sample'[g].identity < nextIdentity'
  BY <1>1, SettleTypes DEF SettleInv
<1>3. ASSUME NEW g \in File, sample'[g].identity # Gone, sample'[g].identity = identity'[g],
             ~sample'[g].stepped
      PROVE  sample'[g].age <= quiet'[g]
  <2>1. g # f
    BY <1>1, <1>3, SettleTypes DEF SettleInv
  <2> QED
    BY <1>1, <1>3, <2>1 DEF SettleInv
<1>4. ASSUME pc' = "read"
      PROVE  /\ cur'.sampled # Gone /\ cur'.sampled < nextIdentity'
             /\ (cur'.sampled = identity'[cur'.file] /\ ~cur'.stepped) => Settle <= quiet'[cur'.file]
  <2>1. /\ cur.file \in File /\ cur.sampled # Gone /\ cur.sampled < nextIdentity
        /\ (cur.sampled = identity[cur.file] /\ ~cur.stepped) => Settle <= quiet[cur.file]
    BY <1>1, <1>4, SettleTypes DEF SettleInv
  <2>2. cur.sampled \in Nat
    <3>1. cur.sampled \in Identity \cup {Gone}
      BY DEF WatcherOK, CurOK
    <3>2. Gone \in Nat
      BY DEF Gone
    <3> QED
      BY <3>1, <3>2, WatcherConstants
  <2>3. cur.sampled < nextIdentity'
    BY <1>1, <2>1, <2>2, SettleTypes
  <2>4. cur.sampled = identity'[cur.file] => cur.file # f
    BY <1>1, <2>1, <2>2, SettleTypes
  <2> QED
    BY <1>1, <2>1, <2>3, <2>4
<1> QED
  BY <1>2, <1>3, <1>4 DEF SettleInv

(* A setting of the clock is noted in every sample. *)
LEMMA SettleClock ==
  ASSUME WatcherOK, SettleInv, NEW d, clock_set(d)
  PROVE  SettleInv'
<1>1. /\ \A f \in File : sample'[f].identity = sample[f].identity /\ sample'[f].stepped
      /\ UNCHANGED <<identity, quiet, nextIdentity, pc, cur>>
  <2> DEFINE age(f) == sample[f].age + d
             clamped(f) == IF age(f) > Settle THEN Settle
                           ELSE IF age(f) < -Settle THEN -Settle ELSE age(f)
  <2>1. /\ sample' = [f \in File |-> [sample[f] EXCEPT !.age = clamped(f), !.stepped = TRUE]]
        /\ UNCHANGED <<identity, quiet, nextIdentity, pc, cur>>
    BY DEF clock_set, fileVars, scanVars
  <2> HIDE DEF clamped
  <2>2. \A f \in File : /\ sample'[f] = [sample[f] EXCEPT !.age = clamped(f), !.stepped = TRUE]
                        /\ sample[f] \in Sample
    BY <2>1, SettleTypes
  <2>3. \A f \in File : sample'[f].identity = sample[f].identity /\ sample'[f].stepped
    BY <2>2 DEF Sample
  <2> QED
    BY <2>1, <2>3
<1> QED
  BY <1>1 DEF SettleInv

(* Time passes for the file and for its sample. *)
LEMMA SettleElapse ==
  ASSUME WatcherOK, SettleInv, elapse
  PROVE  SettleInv'
<1>1. /\ \A f \in File : quiet'[f] = least(quiet[f] + 1, Settle)
      /\ \A f \in File : sample'[f] = [sample[f] EXCEPT !.age = least(@ + 1, Settle)]
      /\ UNCHANGED <<identity, nextIdentity, pc, cur>>
  BY DEF elapse, scanVars
<1>2. \A f \in File : sample[f] \in Sample
  BY SettleTypes
<1>3. \A f \in File : /\ sample'[f].age = least(sample[f].age + 1, Settle)
                      /\ sample'[f].identity = sample[f].identity
                      /\ sample'[f].stepped = sample[f].stepped
  BY <1>1, <1>2 DEF Sample
<1>4. \A f \in File : /\ quiet[f] <= quiet'[f]
                      /\ sample[f].age <= quiet[f] => sample'[f].age <= quiet'[f]
  BY <1>1, <1>3, SettleTypes DEF least
<1>5. \A f \in File : Settle <= quiet[f] => Settle <= quiet'[f]
  BY <1>1, SettleTypes DEF least
<1> QED
  BY <1>1, <1>3, <1>4, <1>5, SettleTypes DEF SettleInv

(* A sample is taken; a file that it finds stable has been quiet. *)
LEMMA SettleSample ==
  ASSUME WatcherOK, SettleInv, NEW f \in File, sample_file(f)
  PROVE  SettleInv'
<1>1. CASE ~readable(f)
  BY <1>1, SettleFramed DEF sample_file, abort, scan_over, fileVars
<1>2. CASE readable(f)
  <2>1. /\ \A g \in File : sample'[g] = IF g = f THEN remember(f) ELSE sample[g]
        /\ UNCHANGED <<identity, quiet, nextIdentity>> /\ pc = "list" /\ identity[f] # Gone
    BY <1>2, SettleTypes DEF sample_file, fileVars, readable
  <2>2. \A g \in File : identity'[g] < nextIdentity' /\ sample'[g].identity < nextIdentity'
    BY <2>1 DEF remember, SettleInv
  <2>3. ASSUME NEW g \in File, sample'[g].identity # Gone, sample'[g].identity = identity'[g],
               ~sample'[g].stepped
        PROVE  sample'[g].age <= quiet'[g]
    <3>1. CASE g = f
      <4>1. sample'[g].age = 0
        BY <2>1, <3>1 DEF remember
      <4> QED
        BY <2>1, <4>1, SettleTypes
    <3>2. CASE g # f
      BY <2>1, <2>3, <3>2 DEF SettleInv
    <3> QED
      BY <3>1, <3>2
  <2>4. CASE stable(f)
    <3>1. pc' = "read" /\ cur' = [cur EXCEPT !.file = f, !.sampled = identity[f],
                                             !.stepped = sample[f].stepped]
      BY <1>2, <2>4 DEF sample_file
    <3>2. cur'.file = f /\ cur'.sampled = identity[f] /\ cur'.stepped = sample[f].stepped
      BY <3>1 DEF WatcherOK, CurOK
    <3>3. sample[f].identity = identity[f] /\ Settle <= sample[f].age
      BY <2>4, SettleTypes, WatcherConstants DEF stable
    <3>4. ~sample[f].stepped => Settle <= quiet[f]
      BY <2>1, <3>3, SettleTypes DEF SettleInv
    <3>5. identity[f] < nextIdentity
      BY DEF SettleInv
    <3> QED
      BY <2>1, <2>2, <2>3, <3>2, <3>4, <3>5 DEF SettleInv
  <2>5. CASE ~stable(f)
    <3>1. pc' = pc
      BY <1>2, <2>5 DEF sample_file
    <3> QED
      BY <2>1, <2>2, <2>3, <3>1 DEF SettleInv
  <2> QED
    BY <2>4, <2>5
<1> QED
  BY <1>1, <1>2

(* A restarted daemon has no samples. *)
LEMMA SettleCrash ==
  ASSUME WatcherOK, SettleInv, crash
  PROVE  SettleInv'
<1>1. /\ \A f \in File : sample'[f] = NoSample
      /\ UNCHANGED <<identity, quiet, nextIdentity>> /\ pc' = "down"
  BY DEF crash, fileVars
<1>2. \A f \in File : sample'[f].identity = Gone /\ Gone < nextIdentity
  <2>1. nextIdentity \in 1..(MaxIdentity + 1)
    BY DEF WatcherOK, WatcherTypeOK
  <2> QED
    BY <1>1, <2>1, WatcherConstants DEF NoSample, Gone
<1> QED
  BY <1>1, <1>2 DEF SettleInv

(* Every step of the intake. *)
LEMMA SettleStep ==
  ASSUME WatcherOK, SettleInv, [Next]_vars
  PROVE  SettleInv'
<1>0. CASE abort
  BY <1>0, SettleFramed DEF abort, scan_over, fileVars
<1>1. CASE Scanning
  <2>1. CASE scan_timer \/ scan_limit \/ scan_end
    BY <2>1, SettleFramed DEF scan_timer, begin, scan_limit, scan_end, scan_over, fileVars
  <2>2. CASE list_root /\ ~abort
    BY <2>2, SettleFramed DEF list_root, fileVars
  <2>3. ASSUME NEW f \in File, skip_file(f) PROVE SettleInv'
    BY <2>3, SettleFramed DEF skip_file, fileVars
  <2>4. CASE (read_identity \/ create) /\ ~abort
    BY <2>4, SettleFramed DEF read_identity, create, next_file, fileVars
  <2>5. CASE restart
    BY <2>5, SettleFramed DEF restart, fileVars
  <2> QED
    BY <1>0, <1>1, <2>1, <2>2, <2>3, <2>4, <2>5, SettleSample DEF Scanning, scan_paused
<1>2. CASE UNCHANGED <<fileVars, sample, scanVars>>
  BY <1>2, SettleFramed DEF fileVars, scanVars
<1>3. CASE Requests
  <2>1. CASE scan_request
    BY <2>1, SettleFramed DEF scan_request, begin, fileVars
  <2>2. ASSUME NEW i \in Identity, NEW moved \in BOOLEAN, review(i, moved)
        PROVE  SettleInv'
    <3> DEFINE f == proposals[i].file
               j == IF moved THEN Gone ELSE identity[f]
    <3>1. /\ identity' = [identity EXCEPT ![f] = j]
          /\ UNCHANGED <<quiet, nextIdentity, sample, pc, cur>>
      BY <2>2 DEF review, scanVars
    <3>2. j \in {Gone, identity[f]}
      OBVIOUS
    <3> HIDE DEF f, j
    <3> QED
      BY <3>1, <3>2, SettleGone
  <2> QED
    BY <1>2, <1>3, <2>1, <2>2 DEF Requests, approve_fails, set_paused
<1>4. CASE OtherPrograms
  <2>1. ASSUME NEW f \in File, user_remove(f) PROVE SettleInv'
    BY <2>1, SettleGone DEF user_remove, scanVars
  <2>2. ASSUME NEW f \in File, user_link(f) PROVE SettleInv'
    BY <2>2, SettleFramed DEF user_link, scanVars
  <2>3. ASSUME NEW r, user_mount(r) PROVE SettleInv'
    BY <2>3, SettleFramed DEF user_mount, scanVars
  <2> QED
    BY <1>4, <2>1, <2>2, <2>3, SettleWrite, SettleClock DEF OtherPrograms
<1>5. CASE Configure
  BY <1>2, <1>5 DEF Configure, create_rule_from_proposal, remove_destination, configure_agent
<1>6. CASE Redirect
  BY <1>2, <1>6 DEF Redirect, choose_destination, redirect
<1>7. CASE UNCHANGED watcherVars
  BY <1>2, <1>7 DEF watcherVars
<1>8. ASSUME NEW choice, decided(choice), UNCHANGED <<fileVars, sample>> PROVE SettleInv'
  BY <1>8, SettleFramed DEF decided, fileVars
<1>9. CASE decide
  BY <1>0, <1>7, <1>8, <1>9 DEF decide, agent_or_fallback
<1>10. CASE agent_answer
  BY <1>8, <1>10 DEF agent_answer
<1>11. CASE Daemon
  BY <1>1, <1>7, <1>9, <1>10, <1>11 DEF Daemon, classify
<1>12. CASE Time \/ pipe_released \/ Crash \/ UNCHANGED vars
  BY <1>7, <1>12, SettleElapse, SettleCrash DEF Time, tick, agent_waits, pipe_released, Crash, vars
<1>13. CASE Environment
  BY <1>3, <1>4, <1>6, <1>7, <1>13 DEF Environment
<1> QED
  BY <1>5, <1>11, <1>12, <1>13 DEF Next

(***************************************************************************)
(* Only a settled file is proposed: an identity that the second read        *)
(* confirms has been unchanged for the settling time, unless the clock was  *)
(* set between the samples, for every settling time, every number of files  *)
(* and changes, and although scans are requested and reviews, crashes and   *)
(* the agent come between (StabilityTracker::sample, consider).             *)
(***************************************************************************)
THEOREM OnlySettledProposed == Spec => ProposedAfterSettling
<1>1. Init => SettleInv
  <2> SUFFICES ASSUME Init PROVE SettleInv
    OBVIOUS
  <2>1. WatcherOK /\ WatcherInit
    BY InitTyped DEF Init
  <2>2. FirstIdentity \in [File -> 1..Cardinality(File)] /\ Cardinality(File) \in Nat
    BY <2>1, InitIdentities
  <2>3. PICK there \in StartFiles :
           identity = [f \in File |-> IF f \in there THEN FirstIdentity[f] ELSE Gone]
    BY <2>1 DEF WatcherInit
  <2>4. \A f \in File : identity[f] < nextIdentity
    <3>1. \A f \in File : FirstIdentity[f] < Cardinality(File) + 1 /\ 0 < Cardinality(File) + 1
      BY <2>2
    <3> QED
      BY <2>1, <2>3, <3>1 DEF WatcherInit, Gone
  <2>5. \A f \in File : sample[f].identity = Gone /\ 0 < nextIdentity
    BY <2>1, <2>2 DEF WatcherInit, NoSample
  <2>6. pc = "idle"
    BY <2>1 DEF WatcherInit
  <2> QED
    BY <2>4, <2>5, <2>6 DEF SettleInv, Gone
<1>2. ASSUME WatcherOK, SettleInv, [Next]_vars
      PROVE  (pc = "read" /\ pc' = "decide" /\ cur'.identity = cur.sampled /\ ~cur.stepped)
                => quiet[cur.file] >= Settle
  <2> SUFFICES ASSUME pc = "read", pc' = "decide", cur'.identity = cur.sampled, ~cur.stepped
               PROVE  quiet[cur.file] >= Settle
    OBVIOUS
  <2>1. read_identity
    <3>1. CASE Scanning
      BY <3>1 DEF Scanning, scan_timer, scan_paused, scan_limit, list_root, scan_end, skip_file,
                  sample_file, create, restart
    <3>2. CASE Configure \/ decide \/ agent_answer \/ classify
      BY <3>2 DEF Configure, create_rule_from_proposal, remove_destination, configure_agent,
                  decide, agent_answer, decided, classify, watcherVars, scanVars
    <3>3. CASE Time \/ pipe_released \/ Crash \/ UNCHANGED vars
      BY <3>3 DEF Time, tick, agent_waits, elapse, pipe_released, Crash, crash, vars,
                  watcherVars, scanVars
    <3>4. CASE Environment
      BY <3>4, RequestPlaces DEF Environment, watcherVars, scanVars
    <3> QED
      BY <1>2, <3>1, <3>2, <3>3, <3>4 DEF Next, Daemon
  <2>2. cur' = [cur EXCEPT !.identity = identity[cur.file]]
    BY <2>1 DEF read_identity, next_file, abort, scan_over
  <2>3. cur'.identity = identity[cur.file] /\ cur.file \in File
    BY <1>2, <2>2 DEF WatcherOK, CurOK
  <2>4. Settle <= quiet[cur.file]
    BY <1>2, <2>3 DEF SettleInv
  <2> QED
    BY <1>2, <2>3, <2>4, SettleTypes
<1>3. IntakeInv => WatcherOK
  BY DEF IntakeInv
<1>4. WatcherOK /\ SettleInv /\ [Next]_vars => SettleInv'
  BY SettleStep
<1> QED
  BY <1>1, <1>2, <1>3, <1>4, IntakeInvariant, PTL DEF Spec, ProposedAfterSettling
=============================================================================
