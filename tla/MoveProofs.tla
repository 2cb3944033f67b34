----------------------------- MODULE MoveProofs -----------------------------
(***************************************************************************)
(* The files, for every value of the constants: what a move, a copy and an  *)
(* undo do to them, and that the service implements ReviewedMove.  All of   *)
(* it rests on other programs leaving the files alone while an operation    *)
(* runs: run last_copy_race shows what happens otherwise.                   *)
(***************************************************************************)
EXTENDS QueueProofs, Review

(***************************************************************************)
(* The files while an operation runs, and no other program acts.            *)
(***************************************************************************)
staging == stage_path(cur.id, parent(cur.to))

holds(p, v) == exists(p) /\ version[entry[p]] = v

(* The name to be bound, and every name that equals it up to case, is free. *)
TargetFree ==
    \A n \in Name : Fold[n] = Fold[file_name(cur.to)] => entry[<<parent(cur.to), n>>] = NoIno

(* The source is still the file that approve opened. *)
SourceOpen == exists(cur.from) /\ cur.fd = entry[cur.from]

(* A staging file has been made beside the target, and nothing else. *)
Staged ==
    /\ SourceOpen /\ version[cur.fd] = cur.expected.version
    /\ exists(staging) /\ staging # cur.from
    /\ \A n \in Name : Fold[n] = Fold[file_name(cur.to)] =>
          entry[<<parent(cur.to), n>>] = NoIno \/ n = StageName[cur.id]

(* The staging file is empty and has no other name. *)
StageEmpty ==
    /\ version[entry[staging]] = Torn
    /\ \A p \in Path : entry[p] = entry[staging] => p = staging

Digested == cur.digest = cur.expected.version

Moved == entry[cur.from] = NoIno /\ holds(cur.to, cur.expected.version)

Copied == Digested /\ holds(cur.to, cur.expected.version)

Restored ==
    /\ entry[cur.from] = NoIno
    /\ single_link(cur.to) /\ identity_fd(entry[cur.to]) = cur.expected

(* What the operation knows of its entry and its paths. *)
OperationKnown ==
    /\ cur.expected = proposals[cur.id].identity
    /\ cur.undo => pc \in MovePc /\ cur.from = destination_path(cur.id)
    /\ ~cur.undo => pc # "undone" /\ cur.from # cur.to
    /\ pc \in MovePc => cur.digest = NoDigest

MoverFiles ==
    /\ pc \in {"move_check", "move_rename", "copying", "stage"} => TargetFree
    /\ pc = "move_verify" => entry[cur.from] = NoIno
    /\ pc = "undone" => Restored
    /\ pc \in {"copying", "stage"} => SourceOpen
    /\ pc \in {"copy", "set_sha", "publish"} => Staged
    /\ pc = "copy" => StageEmpty
    /\ pc \in {"set_sha", "publish"} =>
          Digested /\ version[entry[staging]] = cur.expected.version
    /\ pc \in {"verify", "retire_check", "unlink"} => Copied
    /\ pc = "unlink" => holds(cur.from, cur.expected.version)
    /\ pc = "published" => (cur.digest = NoDigest /\ Moved) \/ Copied
    /\ pc \in {"source_removed", "completed"} => Moved

(* Inodes are handed out once. *)
Fresh == \A p \in Path : entry[p] < nextIno

FilesInv == Fresh /\ (pc \in MoverPc => OperationKnown /\ MoverFiles)

-----------------------------------------------------------------------------
(* What the daemon does to the files hands out inodes in order. *)
LEMMA FreshDaemon == ASSUME FsTypeOK, Fresh, DaemonFs PROVE Fresh'
<1> USE FsAssumption DEF FsTypeOK, Fresh, Ino, NoIno
<1>1. CASE UNCHANGED fsVars
  BY <1>1 DEF fsVars
<1>2. CASE \E p, q \in Path : renameat_noreplace(p, q)
  BY <1>2 DEF renameat_noreplace
<1>3. CASE \E p \in Path : create_exclusive(p)
  BY <1>3 DEF create_exclusive
<1>4. CASE \E p \in Path, v \in Version : exists(p) /\ write_all(entry[p], v)
  BY <1>4 DEF write_all
<1>5. CASE \E p \in Path : unlinkat(p)
  BY <1>5 DEF unlinkat
<1> QED
  BY <1>1, <1>2, <1>3, <1>4, <1>5 DEF DaemonFs

(* What other programs do hands them out in order too. *)
LEMMA FreshUser == ASSUME FsTypeOK, Fresh, user_step(UserPath) PROVE Fresh'
<1> USE FsAssumption DEF FsTypeOK, Fresh, Ino, NoIno
<1>0. UserPath \subseteq Path
  BY DEF UserPath
<1>1. CASE \E p \in UserPath : user_create(p)
  BY <1>0, <1>1 DEF user_create
<1>2. CASE \E p \in UserPath : user_write(p)
  BY <1>0, <1>2 DEF user_write
<1>3. CASE \E p \in UserPath : user_remove(p)
  BY <1>0, <1>3 DEF user_remove
<1>4. CASE \E p \in UserPath, q \in UserPath : user_rename(p, q)
  BY <1>0, <1>4 DEF user_rename
<1>5. CASE \E p \in UserPath, q \in UserPath : user_link(p, q)
  BY <1>0, <1>5 DEF user_link
<1> QED
  BY <1>1, <1>2, <1>3, <1>4, <1>5 DEF user_step

(* Inodes are handed out once, whatever happens. *)
LEMMA FreshStep == ASSUME Inv, Fresh, [Next]_vars PROVE Fresh'
<1>1. CASE Request \/ Daemon \/ crash
  BY <1>1, OwnSteps, FreshDaemon DEF DaemonStep, Inv
<1>2. CASE user_acts
  BY <1>2, FreshUser DEF user_acts, Inv
<1>3. CASE time_passes \/ UNCHANGED vars
  BY <1>3 DEF time_passes, vars, fsVars, Fresh
<1> QED
  BY <1>1, <1>2, <1>3 DEF Next

-----------------------------------------------------------------------------
(* A path is its folder and its name. *)
LEMMA PathParts ==
  ASSUME NEW p \in Path
  PROVE  /\ parent(p) \in Dir /\ file_name(p) \in Name
         /\ p = <<parent(p), file_name(p)>>
  BY DEF Path, parent, file_name

(* When no name of the folder equals the target up to case, it is free. *)
LEMMA TargetNameFree ==
  ASSUME NEW p \in Path, ~destination_exists_case_folded(p)
  PROVE  /\ entry[p] = NoIno
         /\ \A n \in Name : Fold[n] = Fold[file_name(p)] => entry[<<parent(p), n>>] = NoIno
  BY PathParts DEF destination_exists_case_folded, exists

(* An approved move starts with its source open and its target free. *)
LEMMA ApproveFiles ==
  ASSUME Inv, NEW id \in Id, NEW v, approve(id, v)
  PROVE  OperationKnown' /\ MoverFiles'
<1> DEFINE from == source_path(id)
           to == destination_path(id)
<1>1. /\ exists(from) /\ ~destination_exists_case_folded(to)
      /\ UNCHANGED fsVars
      /\ proposals' = [proposals EXCEPT ![id] = [@ EXCEPT !.revision = v + 1]]
      /\ cur' = [NoOperation EXCEPT !.id = id, !.revision = v + 1, !.from = from, !.to = to,
                                    !.expected = proposals[id].identity,
                                    !.fd = entry[from]]
      /\ pc' \in {"move_check", "copying"}
  BY DEF approve
<1>2. from \in Path /\ to \in Path
  <2>1. registered(proposals[id].source_root) /\ registered(proposals[id].destination)
        /\ proposals[id].status # "absent"
    BY DEF approve, is_watched, is_destination, proposal_index
  <2> QED
    BY <2>1, RootDir, EntryNamed, MakePath
       DEF Inv, StoreOK, source_path, destination_path
<1> HIDE DEF from, to
<1>3. /\ cur'.id = id /\ cur'.from = from /\ cur'.to = to /\ cur'.fd = entry[from]
      /\ cur'.expected = proposals[id].identity /\ cur'.undo = FALSE
      /\ cur'.digest = NoDigest
  BY <1>1 DEF NoOperation
<1>4. proposals'[id].identity = proposals[id].identity
  BY <1>1 DEF Inv, StoreOK, QueueOK, Proposal
<1>5. /\ entry[to] = NoIno
      /\ \A n \in Name : Fold[n] = Fold[file_name(to)] => entry[<<parent(to), n>>] = NoIno
  BY <1>1, <1>2, TargetNameFree
<1>6. from # to
  BY <1>1, <1>5 DEF exists
<1>7. OperationKnown'
  BY <1>1, <1>3, <1>4, <1>6 DEF OperationKnown, MovePc
<1>8. TargetFree' /\ SourceOpen'
  BY <1>1, <1>3, <1>5 DEF TargetFree, SourceOpen, fsVars, exists
<1>9. MoverFiles'
  BY <1>1, <1>8 DEF MoverFiles
<1> QED
  BY <1>7, <1>9

(* An undo starts with the original name free. *)
LEMMA UndoFiles ==
  ASSUME Inv, NEW id \in Id, NEW v, undo(id, v)
  PROVE  OperationKnown' /\ MoverFiles'
<1> DEFINE from == destination_path(id)
           to == source_path(id)
<1>1. /\ ~destination_exists_case_folded(to)
      /\ UNCHANGED <<fsVars, queueVars>>
      /\ cur' = [NoOperation EXCEPT !.id = id, !.revision = v + 1, !.from = from, !.to = to,
                                    !.expected = proposals[id].identity,
                                    !.undo = TRUE]
      /\ pc' = "move_check"
  BY DEF undo
<1>2. to \in Path
  <2>1. registered(proposals[id].source_root) /\ proposals[id].status # "absent"
    BY DEF undo, proposal_index
  <2> QED
    BY <2>1, RootDir, EntryNamed, MakePath DEF Inv, StoreOK, source_path
<1>3. from' = from
  BY <1>1 DEF destination_path, queueVars
<1> HIDE DEF from, to
<1>4. /\ cur'.id = id /\ cur'.from = from /\ cur'.to = to
      /\ cur'.expected = proposals[id].identity /\ cur'.undo = TRUE
      /\ cur'.digest = NoDigest
  BY <1>1 DEF NoOperation
<1>5. OperationKnown'
  BY <1>1, <1>3, <1>4 DEF OperationKnown, MovePc, queueVars, from, destination_path
<1>6. TargetFree'
  BY <1>1, <1>2, <1>4, TargetNameFree DEF TargetFree, fsVars
<1>7. MoverFiles'
  BY <1>1, <1>6 DEF MoverFiles
<1> QED
  BY <1>5, <1>7

-----------------------------------------------------------------------------
(* A step of the mover that keeps the paths and the file it works on. *)
SameOperation ==
    /\ cur'.id = cur.id /\ cur'.from = cur.from /\ cur'.to = cur.to /\ cur'.fd = cur.fd
    /\ cur'.expected = cur.expected /\ cur'.undo = cur.undo

(* Such a step keeps what is known of the operation. *)
LEMMA KnownFrame ==
  ASSUME OperationKnown, SameOperation, unchangedByMover,
         cur.undo => pc' \in MovePc,
         ~cur.undo => pc' # "undone",
         pc' \in MovePc => cur'.digest = NoDigest
  PROVE  OperationKnown'
  BY DEF OperationKnown, SameOperation, unchangedByMover, queueVars, destination_path

(* The checks of the mover. *)
LEMMA CheckFiles ==
  ASSUME Inv, OperationKnown, MoverFiles,
         move_check \/ move_verify \/ verify \/ retire_check
  PROVE  OperationKnown' /\ MoverFiles'
<1>1. UNCHANGED <<fsVars, cur>> /\ unchangedByMover
  BY DEF move_check, move_verify, verify, retire_check
<1>2. \/ pc = "move_check" /\ pc' = "move_rename"
      \/ pc = "move_verify" /\ pc' = (IF cur.undo THEN "undone" ELSE "published")
      \/ pc = "verify" /\ pc' = "published"
      \/ pc = "retire_check" /\ pc' = "unlink"
  BY DEF move_check, move_verify, verify, retire_check, goto
<1>3. OperationKnown'
  BY <1>1, <1>2, KnownFrame DEF SameOperation, OperationKnown, MovePc
<1>4. CASE pc = "move_check" /\ pc' = "move_rename"
  BY <1>3, <1>1, <1>4 DEF MoverFiles, TargetFree, fsVars
<1>5. CASE pc = "move_verify"
  <2>1. matches(cur.to, cur.expected) /\ entry[cur.from] = NoIno /\ cur.digest = NoDigest
    BY <1>5 DEF move_check, move_verify, verify, retire_check, goto, MoverFiles,
                OperationKnown, MovePc
  <2>2. single_link(cur.to) /\ identity_fd(entry[cur.to]) = cur.expected
        /\ version[entry[cur.to]] = cur.expected.version
    BY <2>1 DEF matches, identity_fd
  <2>3. Restored' /\ Moved' /\ cur'.digest = NoDigest
    BY <1>1, <2>1, <2>2
       DEF Restored, Moved, holds, single_link, exists, nlink, identity_fd, fsVars
  <2> QED
    BY <1>3, <1>2, <1>5, <2>3 DEF MoverFiles
<1>6. CASE pc = "verify" /\ pc' = "published"
  <2>1. Copied
    BY <1>6 DEF MoverFiles
  <2>2. Copied'
    BY <1>1, <2>1 DEF Copied, Digested, holds, exists, fsVars
  <2> QED
    BY <1>3, <1>6, <2>2 DEF MoverFiles
<1>7. CASE pc = "retire_check" /\ pc' = "unlink"
  <2>1. matches(cur.from, cur.expected)
    BY <1>7 DEF move_check, move_verify, verify, retire_check, goto
  <2>2. holds(cur.from, cur.expected.version)
    BY <2>1 DEF matches, single_link, identity_fd, holds
  <2>3. Copied
    BY <1>7 DEF MoverFiles
  <2>4. Copied' /\ holds(cur.from, cur.expected.version)'
    BY <1>1, <2>2, <2>3 DEF Copied, Digested, holds, exists, fsVars
  <2> QED
    BY <1>3, <1>7, <2>4 DEF MoverFiles
<1> QED
  BY <1>2, <1>3, <1>4, <1>5, <1>6, <1>7

(* The rename of a move or of an undo. *)
LEMMA RenameFiles ==
  ASSUME Inv, OperationKnown, MoverFiles, move_rename
  PROVE  OperationKnown' /\ MoverFiles'
<1>1. /\ pc = "move_rename" /\ pc' = "move_verify" /\ cur' = cur /\ unchangedByMover
      /\ renameat_noreplace(cur.from, cur.to)
  BY DEF move_rename, goto
<1>2. cur.from \in Path /\ cur.to \in Path
  BY <1>1 DEF Inv, OperationOK, MoverPc, MovePc
<1>3. entry'[cur.from] = NoIno
  BY <1>1, <1>2 DEF renameat_noreplace, exists, Inv, FsTypeOK
<1>4. OperationKnown'
  BY <1>1, KnownFrame DEF SameOperation, OperationKnown, MovePc
<1> QED
  BY <1>1, <1>3, <1>4 DEF MoverFiles

(* The paths of an operation. *)
LEMMA MoverPaths ==
  ASSUME Inv, pc \in MoverPc
  PROVE  /\ cur.id \in Id /\ cur.from \in Path /\ cur.to \in Path
         /\ cur \in Operation /\ staging \in Path
         /\ parent(staging) = parent(cur.to) /\ file_name(staging) = StageName[cur.id]
<1>1. cur.id \in Id /\ cur.from \in Path /\ cur.to \in Path /\ cur \in Operation
  BY DEF Inv, OperationOK
<1>2. staging \in Path
  BY <1>1, ParentDir, StagePath DEF staging
<1> QED
  BY <1>1, <1>2 DEF staging, stage_path, parent, file_name

(* The exclusive creation of the staging file. *)
LEMMA StageFiles ==
  ASSUME Inv, Fresh, OperationKnown, MoverFiles, stage_create
  PROVE  OperationKnown' /\ MoverFiles'
<1>1. /\ pc = "stage" /\ pc' = "copy" /\ cur' = cur /\ unchangedByMover
      /\ identity_fd(cur.fd) = cur.expected
      /\ create_exclusive(staging)
  BY DEF stage_create, goto, staging
<1>2. pc \in MoverPc
  BY <1>1 DEF MoverPc, CopyPc
<1>3. OperationKnown'
  BY <1>1, KnownFrame DEF SameOperation, OperationKnown, MovePc
<1>4. /\ entry[staging] = NoIno /\ nextIno \in Ino
      /\ entry' = [entry EXCEPT ![staging] = nextIno]
      /\ version' = [version EXCEPT ![nextIno] = Torn]
  BY <1>1 DEF create_exclusive, exists
<1>5. exists(cur.from) /\ cur.fd = entry[cur.from] /\ TargetFree
  BY <1>1 DEF MoverFiles, SourceOpen
<1>6. staging # cur.from /\ staging' = staging
  BY <1>1, <1>4, <1>5 DEF exists, staging
<1>7. cur.fd \in Ino /\ cur.fd # nextIno /\ version[cur.fd] = cur.expected.version
  BY <1>1, <1>2, <1>5, MoverPaths DEF identity_fd, Inv, FsTypeOK, exists, Fresh, Ino, NoIno
<1>8. /\ entry'[staging] = nextIno /\ entry'[cur.from] = entry[cur.from]
      /\ \A p \in Path : p # staging => entry'[p] = entry[p]
      /\ version'[nextIno] = Torn /\ version'[cur.fd] = version[cur.fd]
  BY <1>2, <1>4, <1>6, <1>7, MoverPaths DEF Inv, FsTypeOK
<1>9. \A n \in Name : Fold[n] = Fold[file_name(cur.to)] =>
          entry'[<<parent(cur.to), n>>] = NoIno \/ n = StageName[cur.id]
  <2> SUFFICES ASSUME NEW n \in Name, Fold[n] = Fold[file_name(cur.to)], n # StageName[cur.id]
               PROVE  entry'[<<parent(cur.to), n>>] = NoIno
    OBVIOUS
  <2>1. <<parent(cur.to), n>> \in Path /\ <<parent(cur.to), n>> # staging
    BY <1>2, MoverPaths, ParentDir, MakePath DEF staging, stage_path
  <2> QED
    BY <1>5, <1>8, <2>1 DEF TargetFree
<1>10. Staged'
  BY <1>1, <1>4, <1>5, <1>6, <1>7, <1>8, <1>9 DEF Staged, SourceOpen, exists, Ino, NoIno
<1>11. StageEmpty'
  <2>1. ASSUME NEW p \in Path, entry'[p] = nextIno PROVE p = staging
    BY <1>8, <2>1, FsAssumption DEF Fresh, Inv, FsTypeOK, Ino, NoIno
  <2> QED
    BY <1>6, <1>8, <2>1 DEF StageEmpty
<1>12. MoverFiles'
  BY <1>1, <1>10, <1>11 DEF MoverFiles
<1> QED
  BY <1>3, <1>12

(* Copying the bytes: nothing has changed the source since it was compared. *)
LEMMA CopyFiles ==
  ASSUME Inv, OperationKnown, MoverFiles, stage_copy
  PROVE  OperationKnown' /\ MoverFiles'
<1>1. pc = "copy" /\ pc' = "set_sha" /\ unchangedByMover
  BY DEF stage_copy, goto
<1>2. pc \in MoverPc /\ cur \in Operation
  BY <1>1 DEF MoverPc, CopyPc, Inv, OperationOK
<1>3. Staged /\ StageEmpty
  BY <1>1 DEF MoverFiles
<1>4. PICK v \in read_result :
         /\ write_all(entry[staging], v)
         /\ cur' = [cur EXCEPT !.digest = v]
  BY DEF stage_copy, staging
<1>5. v = cur.expected.version
  BY <1>3, <1>4 DEF read_result, Staged
<1>6. cur'.digest = v /\ SameOperation
  BY <1>2, <1>4 DEF Operation, SameOperation
<1>7. OperationKnown'
  BY <1>1, <1>6, KnownFrame DEF OperationKnown, MovePc
<1>8. entry[staging] \in Ino /\ staging' = staging /\ entry' = entry
      /\ version' = [version EXCEPT ![entry[staging]] = v]
  BY <1>2, <1>3, <1>4, <1>6, MoverPaths
     DEF Staged, exists, Inv, FsTypeOK, staging, write_all, SameOperation
<1>9. cur.fd # entry[staging] /\ version'[entry[staging]] = v
      /\ version'[cur.fd] = version[cur.fd]
  BY <1>2, <1>3, <1>8, MoverPaths DEF Staged, StageEmpty, SourceOpen, Inv, FsTypeOK
<1>10. Staged'
  BY <1>3, <1>6, <1>8, <1>9 DEF Staged, SourceOpen, exists, SameOperation
<1>11. MoverFiles'
  BY <1>1, <1>5, <1>6, <1>8, <1>9, <1>10 DEF MoverFiles, Digested, SameOperation
<1> QED
  BY <1>7, <1>11

(* Publishing: the staging file becomes the target. *)
LEMMA PublishFiles ==
  ASSUME Inv, OperationKnown, MoverFiles, publish_stage
  PROVE  OperationKnown' /\ MoverFiles'
<1>1. /\ pc = "publish" /\ pc' = "verify" /\ cur' = cur /\ unchangedByMover
      /\ renameat_noreplace(staging, cur.to)
  BY DEF publish_stage, goto, staging
<1>2. pc \in MoverPc
  BY <1>1 DEF MoverPc, CopyPc
<1>3. OperationKnown'
  BY <1>1, KnownFrame DEF SameOperation, OperationKnown, MovePc
<1>4. entry'[cur.to] = entry[staging] /\ version' = version
  BY <1>1, <1>2, MoverPaths DEF renameat_noreplace, exists, Inv, FsTypeOK
<1>5. Copied'
  BY <1>1, <1>4 DEF MoverFiles, Copied, Digested, holds, Staged, exists
<1> QED
  BY <1>1, <1>3, <1>5 DEF MoverFiles

(* Unlinking the original. *)
LEMMA UnlinkFiles ==
  ASSUME Inv, OperationKnown, MoverFiles, retire_unlink
  PROVE  OperationKnown' /\ MoverFiles'
<1>1. /\ pc = "unlink" /\ pc' = "source_removed" /\ cur' = cur /\ unchangedByMover
      /\ unlinkat(cur.from)
  BY DEF retire_unlink, goto
<1>2. pc \in MoverPc
  BY <1>1 DEF MoverPc, CopyPc
<1>3. OperationKnown'
  BY <1>1, KnownFrame DEF SameOperation, OperationKnown, MovePc
<1>4. cur.from # cur.to
  BY <1>1 DEF OperationKnown, MovePc
<1>5. entry'[cur.from] = NoIno /\ entry'[cur.to] = entry[cur.to] /\ version' = version
  BY <1>1, <1>2, <1>4, MoverPaths DEF unlinkat, Inv, FsTypeOK
<1>6. Moved'
  BY <1>1, <1>5 DEF MoverFiles, Copied, Moved, holds, exists
<1> QED
  BY <1>1, <1>3, <1>6 DEF MoverFiles

(* The journal commits of the mover leave the files alone. *)
LEMMA RecordFiles ==
  ASSUME Inv, OperationKnown, MoverFiles,
         record_copying \/ record_sha256 \/ record_published \/ record_removed
  PROVE  OperationKnown' /\ MoverFiles'
<1>1. /\ cur' = cur \/ cur' = [cur EXCEPT !.revision = @ + 1]
      /\ UNCHANGED fsVars /\ unchangedByMover
  BY DEF record_copying, record_sha256, record_published, record_removed, record
<1>2. \/ pc = "copying" /\ pc' = "stage"
      \/ pc = "set_sha" /\ pc' = "publish"
      \/ /\ pc = "published"
         /\ pc' = (IF cur.digest = NoDigest THEN "source_removed" ELSE "retire_check")
      \/ pc = "source_removed" /\ pc' = "completed"
  BY DEF record_copying, record_sha256, record_published, record_removed, record, goto
<1>3. cur \in Operation /\ cur.expected.version # NoDigest
  BY DEF Inv, OperationOK, Operation, Identity, Version, NoDigest
<1>4. SameOperation /\ cur'.digest = cur.digest
  BY <1>1, <1>3 DEF SameOperation, Operation
<1>5. OperationKnown'
  BY <1>1, <1>2, <1>4, KnownFrame DEF OperationKnown, MovePc
<1> USE DEF fsVars, exists, holds, SameOperation
<1>6. CASE pc = "copying" /\ pc' = "stage"
  <2>1. TargetFree /\ SourceOpen
    BY <1>6 DEF MoverFiles
  <2>2. TargetFree' /\ SourceOpen'
    BY <1>1, <1>4, <2>1 DEF TargetFree, SourceOpen
  <2> QED
    BY <1>5, <1>6, <2>2 DEF MoverFiles
<1>7. CASE pc = "set_sha" /\ pc' = "publish"
  <2>1. Staged /\ Digested /\ version[entry[staging]] = cur.expected.version
    BY <1>7 DEF MoverFiles
  <2>2. staging' = staging
    BY <1>4 DEF staging
  <2>3. Staged' /\ Digested' /\ (version[entry[staging]] = cur.expected.version)'
    BY <1>1, <1>4, <2>1, <2>2 DEF Staged, SourceOpen, Digested
  <2> QED
    BY <1>5, <1>7, <2>3 DEF MoverFiles
<1>8. CASE pc = "published"
  <2>1. (cur.digest = NoDigest /\ Moved) \/ Copied
    BY <1>8 DEF MoverFiles
  <2>2. Moved => Moved'
    BY <1>1, <1>4 DEF Moved
  <2>3. Copied => Copied' /\ cur.digest # NoDigest
    BY <1>1, <1>3, <1>4 DEF Copied, Digested
  <2> QED
    BY <1>5, <1>2, <1>8, <2>1, <2>2, <2>3 DEF MoverFiles
<1>9. CASE pc = "source_removed" /\ pc' = "completed"
  <2>1. Moved
    BY <1>9 DEF MoverFiles
  <2>2. Moved'
    BY <1>1, <1>4, <2>1 DEF Moved
  <2> QED
    BY <1>5, <1>9, <2>2 DEF MoverFiles
<1> QED
  BY <1>2, <1>5, <1>6, <1>7, <1>8, <1>9

-----------------------------------------------------------------------------
(* Steps that change neither the files nor the operation. *)
LEMMA FilesFrame ==
  ASSUME FilesInv, UNCHANGED <<entry, version, nextIno, cur, pc, proposals, roots>>
  PROVE  FilesInv'
<1>1. staging' = staging /\ (\A i : nlink(i)' = nlink(i))
  BY DEF staging, nlink
<1>2. Fresh'
  BY DEF Fresh, FilesInv
<1>3. OperationKnown => OperationKnown'
  BY DEF OperationKnown, destination_path
<1>4. /\ TargetFree => TargetFree'
      /\ SourceOpen => SourceOpen'
      /\ Staged => Staged'
      /\ StageEmpty => StageEmpty'
      /\ Digested => Digested'
      /\ Moved => Moved'
      /\ Copied => Copied'
      /\ Restored => Restored'
  BY <1>1 DEF TargetFree, SourceOpen, Staged, StageEmpty, Digested, Moved, Copied, Restored,
              holds, exists, single_link, identity_fd
<1>5. holds(cur.from, cur.expected.version) => holds(cur.from, cur.expected.version)'
  BY DEF holds, exists
<1>6. MoverFiles => MoverFiles'
  BY <1>1, <1>4, <1>5 DEF MoverFiles
<1> QED
  BY <1>2, <1>3, <1>6 DEF FilesInv

(* The initial states. *)
LEMMA FilesInit == Init => FilesInv
<1> SUFFICES ASSUME Init PROVE FilesInv
  OBVIOUS
<1>1. Cardinality(StartFiles) \in Nat
  BY ServiceAssumption, FS_CardinalityType
<1>2. Fresh
  BY <1>1, FsAssumption, ServiceAssumption DEF Init, Fresh, NoIno, Ino
<1>3. pc \notin MoverPc
  BY DEF Init, MoverPc, MovePc, CopyPc, JournalPc
<1> QED
  BY <1>2, <1>3 DEF FilesInv

(* The steps after which no operation of the mover runs. *)
LEMMA QuietFiles ==
  ASSUME Fresh',
         \/ \E b \in BOOLEAN : set_paused(b)
         \/ configure_agent \/ \E id \in Id : create_rule_from_proposal(id)
         \/ \E d \in Dir, w \in BOOLEAN, t \in BOOLEAN : add_root(d, w, t)
         \/ \E r \in RootId : remove_root(r)
         \/ \E id \in Id, v \in 0..MaxRevision, r \in RootId : proposal_destination(id, v, r)
         \/ \E id \in Id, v \in 0..MaxRevision, d \in Dir : choose_destination_path(id, v, d)
         \/ \E id \in Id, v \in 0..MaxRevision, n \in Name : rename(id, v, n)
         \/ \E id \in Id, v \in 0..MaxRevision : ignore(id, v)
         \/ scan_once \/ finish_approve \/ finish_undo
         \/ choose_enrolled \/ enforce_journal_retention \/ save
         \/ scan_pause \/ scan_end
         \/ \E r \in RootId : scan_root(r)
         \/ \E n \in Name : scan_skip(n)
         \/ \E n \in Name, c \in RootId \cup {NoRoot} : consider(n, c)
         \/ operation_error \/ open \/ (\E id \in Id : recover_entry(id)) \/ recover_end
         \/ crash
  PROVE  FilesInv'
<1>1. pc' \in StorePc \cup {"idle", "down", "recover", "recover_save"}
  BY ZenonT(60) DEF set_paused, configure_agent, create_rule_from_proposal, add_root, remove_root,
         proposal_destination, choose_destination_path, choose_destination, rename, ignore,
         scan_once, finish_approve, finish_undo, finish, choose_enrolled,
         enforce_journal_retention, save, scan_pause, scan_end, scan_root, scan_skip,
         consider, operation_error, open, recover_entry, recover_end, crash, leave, goto,
         StorePc
<1>2. pc' \notin MoverPc
  BY <1>1 DEF MoverPc, MovePc, CopyPc, JournalPc, StorePc
<1> QED
  BY <1>2 DEF FilesInv

(* Every step keeps the invariant, as long as nothing interferes. *)
LEMMA FilesStep ==
  ASSUME ~Interference, Inv, FilesInv, [Next]_vars
  PROVE  FilesInv'
<1>0. Fresh /\ Fresh'
  BY FreshStep DEF FilesInv
<1>1. CASE Request
  <2>1. CASE \E id \in Id, v \in 0..MaxRevision : approve(id, v)
    BY <1>0, <2>1, ApproveFiles DEF FilesInv
  <2>2. CASE \E id \in Id, v \in 0..MaxRevision : undo(id, v)
    BY <1>0, <2>2, UndoFiles DEF FilesInv
  <2> QED
    BY <1>0, <1>1, <2>1, <2>2, QuietFiles DEF Request
<1>2. CASE Mover
  <2>1. CASE finish_approve \/ finish_undo
    BY <1>0, <2>1, QuietFiles
  <2>2. CASE Mover /\ ~finish_approve /\ ~finish_undo
    <3>1. pc \in MoverPc
      BY <2>2 DEF Mover, move_check, move_rename, move_verify, record_copying, stage_create,
         stage_copy, record_sha256, publish_stage, verify, record_published, retire_check,
         retire_unlink, record_removed, record, goto, MoverPc, MovePc, CopyPc, JournalPc
    <3>2. OperationKnown /\ MoverFiles
      BY <3>1 DEF FilesInv
    <3>3. OperationKnown' /\ MoverFiles'
      BY <1>0, <2>2, <3>2, CheckFiles, RenameFiles, StageFiles, CopyFiles, PublishFiles,
         UnlinkFiles, RecordFiles DEF Mover
    <3> QED
      BY <1>0, <3>3 DEF FilesInv
  <2> QED
    BY <1>2, <2>1, <2>2
<1>3. CASE (Daemon /\ ~Mover) \/ crash
  BY <1>0, <1>3, QuietFiles DEF Daemon
<1>4. CASE user_acts
  <2>1. pc \in {"idle", "down"} /\ pc' = pc
    BY <1>4 DEF user_acts, opVars
  <2>2. pc' \notin MoverPc
    BY <2>1 DEF MoverPc, MovePc, CopyPc, JournalPc
  <2> QED
    BY <1>0, <2>2 DEF FilesInv
<1>5. CASE time_passes \/ UNCHANGED vars
  <2>1. UNCHANGED <<entry, version, nextIno, cur, pc, proposals, roots>>
    BY <1>5 DEF time_passes, vars, fsVars, queueVars, opVars
  <2> QED
    BY <2>1, FilesFrame
<1> QED
  BY <1>1, <1>2, <1>3, <1>4, <1>5 DEF Next

(* The invariant holds throughout. *)
LEMMA FilesInvariant == ASSUME ~Interference PROVE Spec => []FilesInv
<1>1. Inv /\ FilesInv /\ [Next]_vars => FilesInv'
  BY FilesStep
<1>2. Spec => []Inv
  BY InitInv, InvStep, PTL DEF Spec
<1> QED
  BY <1>1, <1>2, FilesInit, PTL DEF Spec

-----------------------------------------------------------------------------
(* The steps of the program that touch a file. *)
FileStep == move_rename \/ stage_create \/ stage_copy \/ publish_stage \/ retire_unlink

(* No other step of the program does. *)
LEMMA OtherSteps ==
  ASSUME [Next]_vars, ~FileStep, ~user_acts
  PROVE  entry' = entry /\ version' = version
<1>1. ASSUME Request PROVE UNCHANGED fsVars
  BY <1>1, ZenonT(60) DEF Request, set_paused, configure_agent, create_rule_from_proposal,
     add_root, remove_root, proposal_destination, choose_destination_path,
     choose_destination, rename, ignore, approve, undo, scan_once
<1>2. ASSUME Mover PROVE UNCHANGED fsVars
  BY <1>2 DEF FileStep, Mover, move_check, move_verify, record_copying, record_published,
     record_removed, record, record_sha256, verify, retire_check,
     finish_approve, finish_undo, finish
<1>3. ASSUME Daemon, ~Mover PROVE UNCHANGED fsVars
  BY <1>3 DEF Daemon, choose_enrolled, choose_destination,
     enforce_journal_retention, save, scan_pause, scan_root, scan_skip, consider, scan_end,
     operation_error, open, recover_entry, recover_end
<1>4. ASSUME crash \/ time_passes \/ UNCHANGED vars PROVE UNCHANGED fsVars
  BY <1>4 DEF crash, time_passes, vars
<1> QED
  BY <1>1, <1>2, <1>3, <1>4 DEF Next, fsVars

(* Every complete content that some name holds is still held by some name. *)
Survives ==
    \A p \in Path : (exists(p) /\ version[entry[p]] # Torn) =>
       \E q \in Path : /\ entry'[q] # NoIno
                       /\ version'[entry'[q]] = version[entry[p]]

(* A rename keeps all contents. *)
LEMMA RenameSurvives ==
  ASSUME FsTypeOK, NEW from \in Path, NEW to \in Path, renameat_noreplace(from, to)
  PROVE  Survives
<1>1. /\ exists(from) /\ ~exists(to) /\ version' = version
      /\ \A x \in Path : x # from /\ x # to => entry'[x] = entry[x]
      /\ entry'[to] = entry[from]
  BY DEF renameat_noreplace, FsTypeOK, exists
<1> SUFFICES ASSUME NEW p \in Path, exists(p)
             PROVE  \E q \in Path : entry'[q] # NoIno /\ version'[entry'[q]] = version[entry[p]]
  BY DEF Survives
<1>2. CASE p = from
  BY <1>1, <1>2 DEF exists
<1>3. CASE p # from
  BY <1>1, <1>3 DEF exists
<1> QED
  BY <1>2, <1>3

(* The steps that touch a file keep all contents. *)
LEMMA FileStepSurvives == ASSUME Inv, FilesInv, FileStep PROVE Survives
<1>0. FsTypeOK /\ Fresh
  BY DEF Inv, FilesInv
<1>1. /\ pc \in {"move_rename", "stage", "copy", "publish", "unlink"}
      /\ pc \in MoverPc
  BY DEF FileStep, move_rename, stage_create, stage_copy, publish_stage, retire_unlink, goto,
         MoverPc, MovePc, CopyPc
<1>2. OperationKnown /\ MoverFiles
  BY <1>1 DEF FilesInv
<1>3. cur.from \in Path /\ cur.to \in Path /\ staging \in Path
  BY <1>1, MoverPaths
<1>4. CASE move_rename
  BY <1>0, <1>3, <1>4, RenameSurvives DEF move_rename
<1>5. CASE publish_stage
  BY <1>0, <1>3, <1>5, RenameSurvives DEF publish_stage, staging
<1>6. CASE stage_create
  <2>1. create_exclusive(staging)
    BY <1>6 DEF stage_create, staging
  <2>2. \A p \in Path : exists(p) => /\ p # staging /\ entry[p] \in Ino /\ entry[p] # nextIno
    BY <1>0, <2>1, FsAssumption DEF create_exclusive, exists, Fresh, FsTypeOK, Ino, NoIno
  <2>3. \A p \in Path : exists(p) => entry'[p] = entry[p] /\ version'[entry[p]] = version[entry[p]]
    BY <1>0, <2>1, <2>2 DEF create_exclusive, FsTypeOK
  <2> QED
    BY <2>3 DEF Survives, exists
<1>7. CASE stage_copy
  <2>1. PICK v : write_all(entry[staging], v)
    BY <1>7 DEF stage_copy, staging
  <2>2. StageEmpty
    BY <1>2, <1>7 DEF MoverFiles, stage_copy, goto
  <2>3. \A p \in Path : (exists(p) /\ version[entry[p]] # Torn) =>
           entry[p] # entry[staging] /\ entry[p] \in Ino
    BY <1>0, <2>2 DEF StageEmpty, exists, FsTypeOK
  <2>4. \A p \in Path : (exists(p) /\ version[entry[p]] # Torn) =>
           entry'[p] = entry[p] /\ version'[entry[p]] = version[entry[p]]
    BY <1>0, <2>1, <2>3 DEF write_all, FsTypeOK
  <2> QED
    BY <2>4 DEF Survives, exists
<1>8. CASE retire_unlink
  <2>1. unlinkat(cur.from) /\ pc = "unlink"
    BY <1>8 DEF retire_unlink, goto
  <2>2. /\ holds(cur.from, cur.expected.version) /\ holds(cur.to, cur.expected.version)
        /\ cur.from # cur.to
    BY <1>2, <2>1 DEF MoverFiles, Copied, OperationKnown, MovePc
  <2>3. /\ \A p \in Path : p # cur.from => entry'[p] = entry[p]
        /\ version' = version
    BY <1>0, <2>1 DEF unlinkat, FsTypeOK
  <2>4. entry'[cur.to] # NoIno /\ version'[entry'[cur.to]] = version[entry[cur.from]]
    BY <1>3, <2>2, <2>3 DEF holds, exists
  <2> SUFFICES ASSUME NEW p \in Path, exists(p)
               PROVE  \E q \in Path : entry'[q] # NoIno /\ version'[entry'[q]] = version[entry[p]]
    BY DEF Survives
  <2>5. CASE p = cur.from
    BY <1>3, <2>4, <2>5
  <2>6. CASE p # cur.from
    BY <2>3, <2>6 DEF exists
  <2> QED
    BY <2>5, <2>6
<1> QED
  BY <1>4, <1>5, <1>6, <1>7, <1>8 DEF FileStep

(***************************************************************************)
(* As long as other programs leave the files alone while an operation runs, *)
(* no step of the program, no failure and no crash destroys the last copy   *)
(* of a content: the original is unlinked only when the destination still   *)
(* holds what the original holds.                                           *)
(***************************************************************************)
THEOREM LastCopyKeptTheorem == ASSUME ~Interference PROVE Spec => LastCopyKept
<1>1. ASSUME Inv, FilesInv, [Next]_vars PROVE OwnStep => Survives
  <2>1. CASE FileStep
    BY <1>1, <2>1, FileStepSurvives
  <2>2. CASE user_acts
    BY <1>1, <2>2 DEF user_acts, OwnStep, Inv, CountOK
  <2>3. CASE ~FileStep /\ ~user_acts
    BY <1>1, <2>3, OtherSteps DEF Survives, exists
  <2> QED
    BY <2>1, <2>2, <2>3
<1>2. Inv /\ FilesInv /\ [Next]_vars => (OwnStep => Survives)
  BY <1>1
<1>3. Spec => []Inv
  BY InitInv, InvStep, PTL DEF Spec
<1> QED
  BY <1>2, <1>3, FilesInvariant, PTL DEF Spec, LastCopyKept, Survives

(* A rename that binds a name binds only its target. *)
LEMMA RenameBinds ==
  ASSUME FsTypeOK, NEW from \in Path, NEW to \in Path, renameat_noreplace(from, to),
         NEW p \in Path, ~exists(p), entry'[p] # NoIno
  PROVE  p = to /\ from # to
  BY DEF renameat_noreplace, FsTypeOK, exists

(* The name that a move or an undo binds differs from its neighbours. *)
Distinct ==
    \A p \in UserPath : (~exists(p) /\ entry'[p] # NoIno) =>
       \A n \in Name \ {file_name(p)} :
          Fold[n] = Fold[file_name(p)] => entry'[<<parent(p), n>>] = NoIno

(* The steps that touch a file bind only such names. *)
LEMMA FileStepDistinct == ASSUME Inv, FilesInv, FileStep PROVE Distinct
<1>0. FsTypeOK
  BY DEF Inv
<1>1. /\ pc \in {"move_rename", "stage", "copy", "publish", "unlink"}
      /\ pc \in MoverPc
  BY DEF FileStep, move_rename, stage_create, stage_copy, publish_stage, retire_unlink, goto,
         MoverPc, MovePc, CopyPc
<1>2. OperationKnown /\ MoverFiles
  BY <1>1 DEF FilesInv
<1>3. /\ cur.id \in Id /\ cur.from \in Path /\ cur.to \in Path /\ staging \in Path
      /\ file_name(staging) = StageName[cur.id]
  BY <1>1, MoverPaths
<1> SUFFICES ASSUME NEW p \in UserPath, ~exists(p), entry'[p] # NoIno,
                    NEW n \in Name \ {file_name(p)}, Fold[n] = Fold[file_name(p)]
             PROVE  entry'[<<parent(p), n>>] = NoIno
  BY DEF Distinct
<1>4. p \in Path /\ p # staging /\ <<parent(p), n>> \in Path /\ <<parent(p), n>> # p
  BY <1>3, ParentDir, MakePath DEF UserPath, file_name
<1>5. CASE move_rename
  <2>1. renameat_noreplace(cur.from, cur.to) /\ TargetFree
    BY <1>2, <1>5 DEF move_rename, goto, MoverFiles
  <2>2. p = cur.to
    BY <1>0, <1>3, <1>4, <2>1, RenameBinds
  <2>3. entry[<<parent(p), n>>] = NoIno
    BY <2>1, <2>2 DEF TargetFree
  <2> QED
    BY <1>0, <1>3, <1>4, <2>1, <2>2, <2>3 DEF renameat_noreplace, exists, FsTypeOK
<1>6. CASE publish_stage
  <2>1. renameat_noreplace(staging, cur.to) /\ Staged
    BY <1>2, <1>6 DEF publish_stage, goto, MoverFiles, staging
  <2>2. p = cur.to
    BY <1>0, <1>3, <1>4, <2>1, RenameBinds
  <2>3. entry[<<parent(p), n>>] = NoIno \/ <<parent(p), n>> = staging
    BY <2>1, <2>2 DEF Staged, staging, stage_path
  <2>4. entry'[staging] = NoIno
    BY <1>0, <1>3, <1>4, <2>1, <2>2 DEF renameat_noreplace, FsTypeOK
  <2> QED
    BY <1>0, <1>3, <1>4, <2>1, <2>2, <2>3, <2>4 DEF renameat_noreplace, exists, FsTypeOK
<1>7. CASE stage_create
  <2>1. create_exclusive(staging)
    BY <1>7 DEF stage_create, staging
  <2> QED
    BY <1>0, <1>3, <1>4, <2>1 DEF create_exclusive, exists, FsTypeOK
<1>8. CASE stage_copy
  BY <1>8 DEF stage_copy, write_all, exists
<1>9. CASE retire_unlink
  BY <1>0, <1>3, <1>4, <1>9 DEF retire_unlink, unlinkat, exists, FsTypeOK
<1> QED
  BY <1>5, <1>6, <1>7, <1>8, <1>9 DEF FileStep

(***************************************************************************)
(* As long as other programs leave the files alone while an operation runs, *)
(* the name that a move or an undo binds differs from every other name of   *)
(* its folder by more than case: the check that approve and undo make once, *)
(* many commits before the rename, is still true when the rename happens.   *)
(***************************************************************************)
THEOREM NoCaseCollisionTheorem == ASSUME ~Interference PROVE Spec => NoCaseCollision
<1>1. ASSUME Inv, FilesInv, [Next]_vars PROVE OwnStep => Distinct
  <2>1. CASE FileStep
    BY <1>1, <2>1, FileStepDistinct
  <2>2. CASE user_acts
    BY <1>1, <2>2 DEF user_acts, OwnStep, Inv, CountOK
  <2>3. CASE ~FileStep /\ ~user_acts
    BY <1>1, <2>3, OtherSteps DEF Distinct, exists
  <2> QED
    BY <2>1, <2>2, <2>3
<1>2. Inv /\ FilesInv /\ [Next]_vars => (OwnStep => Distinct)
  BY <1>1
<1>3. Spec => []Inv
  BY InitInv, InvStep, PTL DEF Spec
<1> QED
  BY <1>2, <1>3, FilesInvariant, PTL DEF Spec, NoCaseCollision, Distinct

-----------------------------------------------------------------------------
(***************************************************************************)
(* What one step may do to one entry of the queue, a crash apart.           *)
(***************************************************************************)
SameFile(p, q) ==
    /\ p.status # "absent" /\ q.identity = p.identity
    /\ q.source_root = p.source_root /\ q.source_relative = p.source_relative

EntryStep(id) ==
    LET p == proposals[id]  q == proposals'[id] IN
    \/ q = p
    \/ q.status = "absent"
    \/ /\ SameFile(p, q)
       /\ \/ q.status = p.status
          \/ q.status = "ignored"
          \/ q.status = "completed" /\ finish_approve /\ id = cur.id
          \/ q.status = "undone" /\ finish_undo /\ id = cur.id
          \/ q.status = "completed" /\ recover_entry(id) /\ evidence(id)
          \/ q.status = "needs_attention" /\ recover_entry(id)
    \/ id = nextId /\ Considered

(* One entry becomes q, and the others stay. *)
LEMMA UpdateEntry ==
  ASSUME StoreOK, NEW i \in Id, NEW q, proposals' = [proposals EXCEPT ![i] = q],
         NEW id \in Id
  PROVE  IF id = i THEN proposals'[id] = q ELSE proposals'[id] = proposals[id]
  BY DEF StoreOK, QueueOK

(* The same, followed by the pruning of finished entries. *)
LEMMA SettleEntry ==
  ASSUME StoreOK, NEW i \in Id, NEW v, NEW s, settle(i, v, s), proposals[i].status # "absent",
         NEW id \in Id
  PROVE  \/ proposals'[id] = proposals[id]
         \/ proposals'[id].status = "absent"
         \/ /\ id = i /\ proposals'[id].status = s
            /\ SameFile(proposals[id], proposals'[id])
<1> DEFINE q == [proposals[i] EXCEPT !.revision = v + 1, !.status = s]
           queue == [proposals EXCEPT ![i] = q]
<1>1. proposals \in [Id -> Proposal]
  BY DEF StoreOK, QueueOK
<1>2. q.status = s /\ SameFile(proposals[i], q)
  BY <1>1 DEF Proposal, SameFile
<1>3. proposals' = prune_terminal_proposals(queue)
  BY DEF settle
<1> HIDE DEF q
<1>4. queue[id] = proposals[id] \/ (id = i /\ queue[id] = q)
  BY <1>1
<1> HIDE DEF queue
<1>5. proposals'[id].status = "absent" \/ proposals'[id] = queue[id]
  BY <1>3, PruneEntry
<1> QED
  BY <1>2, <1>4, <1>5

(* An edit keeps the file and the status. *)
LEMMA EditEntry ==
  ASSUME StoreOK, NEW i \in Id, proposals[i].status # "absent", NEW v, NEW r, NEW n,
         \/ proposals' = [proposals EXCEPT ![i] =
                             [@ EXCEPT !.revision = v, !.destination = r, !.destination_name = n]]
         \/ proposals' = [proposals EXCEPT ![i] =
                             [@ EXCEPT !.revision = v, !.destination_name = n]]
         \/ proposals' = [proposals EXCEPT ![i] = [@ EXCEPT !.revision = v]],
         NEW id \in Id
  PROVE  EntryStep(id)
<1>1. proposals \in [Id -> Proposal]
  BY DEF StoreOK, QueueOK
<1>2. CASE id = i
  <2> DEFINE p == proposals[i]
             q == proposals'[i]
             revised == [p EXCEPT !.revision = v]
             renamed == [p EXCEPT !.revision = v, !.destination_name = n]
             redirected == [p EXCEPT !.revision = v, !.destination = r, !.destination_name = n]
  <2>1. q = revised \/ q = renamed \/ q = redirected
    BY <1>1
  <2>2. p \in Proposal /\ p.status # "absent"
    BY <1>1
  <2> HIDE DEF p
  <2>3. revised.status = p.status /\ SameFile(p, revised)
    BY <2>2 DEF Proposal, SameFile
  <2>4. renamed.status = p.status /\ SameFile(p, renamed)
    BY <2>2 DEF Proposal, SameFile
  <2>5. redirected.status = p.status /\ SameFile(p, redirected)
    BY <2>2 DEF Proposal, SameFile
  <2> HIDE DEF q, revised, renamed, redirected
  <2>6. q.status = p.status /\ SameFile(p, q)
    BY <2>1, <2>3, <2>4, <2>5
  <2> QED
    BY <1>2, <2>6 DEF EntryStep, p, q
<1>3. CASE id # i
  <2>1. proposals'[id] = proposals[id]
    BY <1>1, <1>3
  <2> QED
    BY <2>1 DEF EntryStep
<1> QED
  BY <1>2, <1>3

(* Recovery of one row. *)
LEMMA RecoverEntry ==
  ASSUME Inv, NEW i \in Id, recover_entry(i), NEW id \in Id
  PROVE  EntryStep(id)
<1>1. proposals \in [Id -> Proposal]
  BY DEF Inv, StoreOK, QueueOK
<1>2. CASE proposals' = proposals
  BY <1>2 DEF EntryStep
<1>3. ASSUME NEW s, recovered(i, s), s = "needs_attention" \/ (s = "completed" /\ evidence(i))
      PROVE  EntryStep(id)
  <2>1. CASE proposals[i].status = "absent" \/ id # i
    <3>1. proposals'[id] = proposals[id]
      BY <1>1, <1>3, <2>1 DEF recovered
    <3> QED
      BY <3>1 DEF EntryStep
  <2>2. CASE proposals[i].status # "absent" /\ id = i
    <3>1. proposals'[id].status = s /\ SameFile(proposals[id], proposals'[id])
      BY <1>1, <1>3, <2>2 DEF recovered, Proposal, SameFile
    <3> QED
      BY <1>3, <2>2, <3>1 DEF EntryStep
  <2> QED
    BY <2>1, <2>2
<1> QED
  BY <1>2, <1>3 DEF recover_entry

(* Every step but a crash treats every entry in one of those ways. *)
LEMMA EntrySteps ==
  ASSUME Inv, [Next]_vars, ~crash, NEW id \in Id
  PROVE  EntryStep(id)
<1>0. StoreOK
  BY DEF Inv
<1>1. CASE proposals' = proposals
  BY <1>1 DEF EntryStep
<1>2. ASSUME NEW i \in Id, NEW v, NEW r, choose_destination(i, v, r) PROVE EntryStep(id)
  BY <1>0, <1>2, EditEntry DEF choose_destination, proposal_index
<1>3. ASSUME NEW i \in Id, NEW v, NEW n, rename(i, v, n) PROVE EntryStep(id)
  BY <1>0, <1>3, EditEntry DEF rename, proposal_index
<1>4. ASSUME NEW i \in Id, NEW v, approve(i, v) PROVE EntryStep(id)
  BY <1>0, <1>4, EditEntry DEF approve, proposal_index
<1>5. ASSUME NEW i \in Id, NEW v, ignore(i, v) PROVE EntryStep(id)
  BY <1>0, <1>5, SettleEntry DEF ignore, proposal_index, EntryStep
<1>6. CASE finish_approve \/ finish_undo
  <2>1. pc \in MoverPc
    BY <1>6 DEF finish_approve, finish_undo, finish, MoverPc, JournalPc, MovePc
  <2>2. cur.id \in Id /\ proposals[cur.id].status # "absent"
    BY <2>1 DEF Inv, OperationOK
  <2>3. CASE finish_approve
    BY <1>0, <2>2, <2>3, SettleEntry DEF finish_approve, finish, EntryStep
  <2>4. CASE finish_undo
    BY <1>0, <2>2, <2>4, SettleEntry DEF finish_undo, finish, EntryStep
  <2> QED
    BY <1>6, <2>3, <2>4
<1>7. CASE Considered
  <2>1. nextId \in Id /\ \E q : proposals' = [proposals EXCEPT ![nextId] = q]
    BY <1>7 DEF Considered, consider, create
  <2>2. id = nextId \/ proposals'[id] = proposals[id]
    BY <1>0, <2>1, UpdateEntry
  <2> QED
    BY <1>7, <2>2 DEF EntryStep
<1>8. CASE open
  BY <1>8, PruneEntry DEF open, EntryStep
<1>9. ASSUME NEW i \in Id, recover_entry(i) PROVE EntryStep(id)
  BY <1>9, RecoverEntry
<1>10. CASE Request
  <2>1. CASE \/ \E b \in BOOLEAN : set_paused(b)
             \/ configure_agent \/ \E i \in Id : create_rule_from_proposal(i)
             \/ \E d \in Dir, w \in BOOLEAN, t \in BOOLEAN : add_root(d, w, t)
             \/ \E r \in RootId : remove_root(r)
             \/ \E i \in Id, v \in 0..MaxRevision : undo(i, v)
             \/ scan_once
    BY <1>1, <2>1 DEF set_paused, configure_agent, create_rule_from_proposal, add_root,
       remove_root, undo, scan_once, queueVars
  <2>2. CASE \E i \in Id, v \in 0..MaxRevision, d \in Dir : choose_destination_path(i, v, d)
    BY <1>1, <1>2, <2>2 DEF choose_destination_path
  <2> QED
    BY <1>2, <1>3, <1>4, <1>5, <1>10, <2>1, <2>2 DEF Request, proposal_destination
<1>11. CASE Mover
  <2>1. CASE ~finish_approve /\ ~finish_undo
    BY <1>1, <1>11, <2>1 DEF Mover, move_check, move_rename, move_verify, record_copying,
       stage_create, stage_copy, record_sha256, publish_stage, verify, record_published,
       retire_check, retire_unlink, record_removed, record, unchangedByMover, queueVars
  <2> QED
    BY <1>6, <2>1
<1>12. CASE Daemon /\ ~Mover
  <2>1. CASE choose_enrolled
    <3>1. cur.id \in Id
      BY <2>1 DEF choose_enrolled, Inv, OperationOK
    <3> QED
      BY <1>2, <2>1, <3>1 DEF choose_enrolled
  <2>2. CASE \/ enforce_journal_retention \/ save \/ scan_pause \/ scan_end
             \/ \E r \in RootId : scan_root(r)
             \/ \E n \in Name : scan_skip(n)
             \/ operation_error \/ recover_end
    BY <1>1, <2>2 DEF enforce_journal_retention, save, scan_pause, scan_root, scan_skip,
       scan_end, operation_error, recover_end, queueVars
  <2> QED
    BY <1>7, <1>8, <1>9, <1>12, <2>1, <2>2 DEF Daemon, Considered
<1>13. CASE user_acts \/ time_passes \/ UNCHANGED vars
  BY <1>1, <1>13 DEF user_acts, time_passes, vars, queueVars
<1> QED
  BY <1>10, <1>11, <1>12, <1>13 DEF Next

(***************************************************************************)
(* With UTF-8 names, and as long as other programs leave the files alone    *)
(* while an operation runs, an entry becomes "undone" only when the         *)
(* reviewed file, the same inode with the same content, is back at its      *)
(* source under one name and the name the queue showed for it is free.      *)
(***************************************************************************)
THEOREM UndoRestoresTheorem == ASSUME Utf8Names, ~Interference PROVE Spec => UndoRestores
<1> DEFINE Back == \A id \in Id :
               (proposals'[id].status = "undone" /\ proposals[id].status = "completed"
                /\ pc' # "down") =>
                  /\ single_link(rows[id].source)
                  /\ identity_fd(entry[rows[id].source]) = proposals[id].identity
                  /\ ~exists(destination_path(id))
<1>1. ASSUME Inv, QueueInv, FilesInv, [Next]_vars PROVE Back
  <2> SUFFICES ASSUME NEW id \in Id, proposals'[id].status = "undone",
                      proposals[id].status = "completed", pc' # "down"
               PROVE  /\ single_link(rows[id].source)
                      /\ identity_fd(entry[rows[id].source]) = proposals[id].identity
                      /\ ~exists(destination_path(id))
    OBVIOUS
  <2>1. ~crash
    BY DEF crash, leave
  <2>2. EntryStep(id)
    BY <1>1, <2>1, EntrySteps
  <2>3. ~Considered \/ id # nextId
    <3> SUFFICES ASSUME Considered, id = nextId PROVE FALSE
      OBVIOUS
    <3>1. EntryKnown(proposals[id], id, nextId, nextRoot)
      BY <1>1 DEF QueueInv, StoreRow, QueueRow
    <3> QED
      BY <1>1, <3>1 DEF EntryKnown, Inv, JournalTypeOK
  <2>4. finish_undo /\ id = cur.id
    BY <2>2, <2>3 DEF EntryStep, SameFile
  <2>5. pc = "undone" /\ pc \in MoverPc
    BY <2>4 DEF finish_undo, finish, MoverPc, MovePc
  <2>6. Restored /\ cur.undo /\ cur.from = destination_path(id)
        /\ cur.expected = proposals[id].identity
    BY <1>1, <2>4, <2>5 DEF FilesInv, MoverFiles, OperationKnown, Inv, OperationOK, Operation
  <2>7. cur.to = rows[id].source
    BY <1>1, <2>4, <2>5, <2>6 DEF QueueInv, MoverRow
  <2> QED
    BY <2>6, <2>7 DEF Restored, exists
<1>2. Inv /\ QueueInv /\ FilesInv /\ [Next]_vars => Back
  BY <1>1
<1>3. Inv /\ QueueInv /\ [Next]_vars => QueueInv'
  BY QueueInvStep
<1>4. Spec => []Inv
  BY InitInv, InvStep, PTL DEF Spec
<1> QED
  BY <1>2, <1>3, <1>4, QueueInit, FilesInvariant, PTL DEF Spec, UndoRestores

-----------------------------------------------------------------------------
(***************************************************************************)
(* The digest in a row is that of the content that was reviewed.  Recovery  *)
(* trusts it when the identity of a copy cannot match, and may find an      *)
(* entry that it only has from state.json.                                  *)
(***************************************************************************)
Digests(queue) ==
    \A id \in Id : queue[id].status # "absent" =>
        rows[id].sha256 \in {NoDigest, queue[id].identity.version}

DigestInv ==
    /\ Digests(proposals) /\ Digests(disk.proposals)
    /\ \A id \in Id : (proposals[id].status # "absent" /\ disk.proposals[id].status # "absent") =>
          proposals[id].identity = disk.proposals[id].identity

(* Only record_sha256 writes a digest. *)
LEMMA DigestKept ==
  ASSUME Inv, [Next]_vars, ~record_sha256, NEW id \in Id
  PROVE  rows'[id].sha256 \in {rows[id].sha256, NoDigest}
<1>0. rows \in [Id -> Row]
  BY DEF Inv, JournalTypeOK
<1>1. ASSUME NEW i, NEW v, NEW t, transition(i, v, t)
      PROVE  rows'[id].sha256 \in {rows[id].sha256, NoDigest}
  BY <1>0, <1>1 DEF transition, Row
<1>2. ASSUME NEW i, NEW v, NEW d, revise_proposal(i, v, d)
      PROVE  rows'[id].sha256 \in {rows[id].sha256, NoDigest}
  BY <1>0, <1>2 DEF revise_proposal, Row
<1>3. ASSUME NEW i, NEW p, NEW d, create(i, p, d)
      PROVE  rows'[id].sha256 \in {rows[id].sha256, NoDigest}
  BY <1>0, <1>3 DEF create, Row
<1>4. CASE enforce_retention
  BY <1>4 DEF enforce_retention, AbsentRow
<1>5. CASE rows' = rows
  BY <1>5
<1>6. CASE Request
  BY <1>1, <1>2, <1>5, <1>6, ZenonT(60) DEF Request, journalVars, set_paused, configure_agent,
     create_rule_from_proposal, add_root, remove_root, proposal_destination,
     choose_destination_path, choose_destination, rename, ignore, approve, undo, scan_once
<1>7. CASE Mover
  BY <1>1, <1>5, <1>7 DEF Mover, journalVars, move_check, move_rename, move_verify,
     record_copying, stage_create, stage_copy, publish_stage, verify, record_published,
     retire_check, retire_unlink, record_removed, record, finish_approve, finish_undo, finish
<1>8. CASE Daemon /\ ~Mover
  BY <1>1, <1>2, <1>3, <1>4, <1>5, <1>8 DEF Daemon, journalVars, choose_enrolled,
     choose_destination, enforce_journal_retention, save, scan_pause, scan_root, scan_skip,
     consider, scan_end, operation_error, open, recover_entry, recover_end
<1>9. CASE crash \/ user_acts \/ time_passes \/ UNCHANGED vars
  BY <1>5, <1>9 DEF crash, user_acts, time_passes, set_clock, vars, journalVars
<1> QED
  BY <1>6, <1>7, <1>8, <1>9 DEF Next

(* The digest that record_sha256 writes is that of the reviewed content. *)
LEMMA RecordDigest ==
  ASSUME Inv, FilesInv, DigestInv, record_sha256
  PROVE  DigestInv'
<1>1. pc = "set_sha" /\ pc \in MoverPc
  BY DEF record_sha256, goto, MoverPc, CopyPc
<1>2. /\ cur.id \in Id /\ proposals[cur.id].status # "absent"
      /\ cur.digest = proposals[cur.id].identity.version
  BY <1>1 DEF Inv, OperationOK, FilesInv, OperationKnown, MoverFiles, Digested
<1>3. /\ UNCHANGED <<proposals, disk>>
      /\ rows' = [rows EXCEPT ![cur.id] = [@ EXCEPT !.sha256 = cur.digest,
                                                   !.updated_at = clock]]
  BY DEF record_sha256, set_sha256, unchangedByMover, queueVars
<1>4. \A id \in Id : IF id = cur.id THEN rows'[id].sha256 = cur.digest
                     ELSE rows'[id].sha256 = rows[id].sha256
  BY <1>2, <1>3 DEF Inv, JournalTypeOK, Row
<1>5. Digests(proposals)'
  BY <1>2, <1>3, <1>4 DEF Digests, DigestInv
<1>6. Digests(disk.proposals)'
  BY <1>2, <1>3, <1>4 DEF Digests, DigestInv
<1> QED
  BY <1>3, <1>5, <1>6 DEF DigestInv

(* Every step keeps it. *)
LEMMA DigestStepLemma ==
  ASSUME Inv, QueueInv, FilesInv, DigestInv, [Next]_vars
  PROVE  DigestInv'
<1>1. CASE record_sha256
  BY <1>1, RecordDigest
<1>2. CASE ~record_sha256
  <2>1. \A id \in Id : rows'[id].sha256 \in {rows[id].sha256, NoDigest}
    BY <1>2, DigestKept
  <2>2. CASE crash
    <3>1. proposals' = disk.proposals /\ disk' = disk
      BY <2>2 DEF crash
    <3> QED
      BY <2>1, <3>1 DEF DigestInv, Digests
  <2>3. CASE ~crash
    <3>1. \A id \in Id : EntryStep(id)
      BY <2>3, EntrySteps
    <3>2. ASSUME NEW id \in Id, id = nextId, Considered
          PROVE  rows'[id].sha256 = NoDigest /\ disk.proposals[id].status = "absent"
      <4>1. rows'[id].sha256 = NoDigest
        BY <3>2 DEF Considered, consider, create, Inv, JournalTypeOK
      <4>2. EntryKnown(disk.proposals[id], id, nextId, nextRoot)
        BY DEF QueueInv, StoreRow, QueueRow
      <4> QED
        BY <3>2, <4>1, <4>2 DEF EntryKnown, Inv, JournalTypeOK
    <3>3. ASSUME NEW id \in Id, proposals'[id].status # "absent"
          PROVE  \/ proposals[id].status # "absent" /\ proposals'[id].identity = proposals[id].identity
                 \/ rows'[id].sha256 = NoDigest /\ disk.proposals[id].status = "absent"
      BY <3>1, <3>2, <3>3 DEF EntryStep, SameFile
    <3>4. Digests(proposals)'
      BY <2>1, <3>3 DEF Digests, DigestInv
    <3>5. CASE disk' = disk
      <4>1. Digests(disk.proposals)'
        BY <2>1, <3>5 DEF Digests, DigestInv
      <4>2. \A id \in Id : (proposals'[id].status # "absent" /\ disk'.proposals[id].status # "absent")
               => proposals'[id].identity = disk'.proposals[id].identity
        BY <3>3, <3>5 DEF DigestInv
      <4> QED
        BY <3>4, <4>1, <4>2 DEF DigestInv
    <3>6. CASE UNCHANGED proposals /\ disk'.proposals = proposals
      BY <3>4, <3>6 DEF Digests, DigestInv
    <3> QED
      BY <3>5, <3>6, DiskSteps
  <2> QED
    BY <2>2, <2>3
<1> QED
  BY <1>1, <1>2

(* The initial states: no entry, no row. *)
LEMMA DigestInit == Init => DigestInv /\ RowSources
<1> SUFFICES ASSUME Init PROVE DigestInv /\ RowSources
  OBVIOUS
<1>1. \A id \in Id : proposals[id].status = "absent" /\ disk.proposals[id].status = "absent"
  BY AbsentProposalType DEF Init, StartQueue
<1>2. \A id \in Id : rows[id].state = "absent"
  BY AbsentRowType DEF Init, JournalInit
<1> QED
  BY <1>1, <1>2 DEF DigestInv, Digests, RowSources

(* The content that recovery accepts is the reviewed one. *)
LEMMA EvidenceMeansMoved ==
  ASSUME Inv, DigestInv, RowSources, NEW id \in Id, evidence(id)
  PROVE  /\ ~exists(rows[id].source) /\ exists(rows[id].destination)
         /\ version[entry[rows[id].destination]] = proposals[id].identity.version
<1>1. /\ rows[id].state = "source_removed" /\ proposals[id].status # "absent"
      /\ ~(rows[id].source # NoPath /\ exists(rows[id].source))
      /\ single_link(rows[id].destination)
      /\ IF rows[id].sha256 # NoDigest
         THEN version[entry[rows[id].destination]] = rows[id].sha256
         ELSE identity_fd(entry[rows[id].destination]) = proposals[id].identity
  BY DEF evidence, verify_recovery_destination, sha256_file
<1>2. rows[id].source \in Path /\ rows[id].source # NoPath
  BY <1>1, PathsAssumption DEF RowSources, Path
<1>3. version[entry[rows[id].destination]] = proposals[id].identity.version
  BY <1>1 DEF DigestInv, Digests, identity_fd
<1> QED
  BY <1>1, <1>2, <1>3 DEF single_link

(***************************************************************************)
(* With UTF-8 names, and as long as other programs leave the files alone    *)
(* while an operation runs, an entry becomes "completed" only when the      *)
(* reviewed content is at the row's destination and the source is gone, by  *)
(* approve as well as by recovery after any crash.                          *)
(***************************************************************************)
THEOREM CompletedMeansMovedTheorem ==
  ASSUME Utf8Names, ~Interference PROVE Spec => CompletedMeansMoved
<1> DEFINE There == \A id \in Id :
               (proposals'[id].status = "completed"
                /\ proposals[id].status # "completed" /\ pc' # "down") =>
                  /\ ~exists(rows[id].source)
                  /\ exists(rows[id].destination)
                  /\ version[entry[rows[id].destination]] = proposals[id].identity.version
<1>1. ASSUME Inv, QueueInv, FilesInv, DigestInv, RowSources, [Next]_vars PROVE There
  <2> SUFFICES ASSUME NEW id \in Id, proposals'[id].status = "completed",
                      proposals[id].status # "completed", pc' # "down"
               PROVE  /\ ~exists(rows[id].source)
                      /\ exists(rows[id].destination)
                      /\ version[entry[rows[id].destination]] = proposals[id].identity.version
    OBVIOUS
  <2>1. ~crash
    BY DEF crash, leave
  <2>2. EntryStep(id)
    BY <1>1, <2>1, EntrySteps
  <2>3. ~(id = nextId /\ Considered)
    <3> SUFFICES ASSUME id = nextId, Considered PROVE FALSE
      OBVIOUS
    <3>1. proposals'[id].status = "proposed"
      BY <1>1 DEF Considered, consider, Inv, StoreOK, QueueOK
    <3> QED
      BY <3>1
  <2>4. CASE finish_approve /\ id = cur.id
    <3>1. pc = "completed" /\ pc \in MoverPc
      BY <2>4 DEF finish_approve, finish, MoverPc, JournalPc
    <3>2. Moved /\ cur.expected = proposals[id].identity
      BY <1>1, <2>4, <3>1 DEF FilesInv, MoverFiles, OperationKnown
    <3>3. cur.from = rows[id].source /\ cur.to = rows[id].destination
      BY <1>1, <2>4, <3>1 DEF QueueInv, MoverRow, MovePc
    <3> QED
      BY <3>2, <3>3 DEF Moved, holds, exists
  <2>5. CASE evidence(id)
    BY <1>1, <2>5, EvidenceMeansMoved
  <2> QED
    BY <2>2, <2>3, <2>4, <2>5 DEF EntryStep
<1>2. Inv /\ QueueInv /\ FilesInv /\ DigestInv /\ RowSources /\ [Next]_vars => There
  BY <1>1
<1>3. Inv /\ QueueInv /\ [Next]_vars => QueueInv'
  BY QueueInvStep
<1>4. Inv /\ QueueInv /\ FilesInv /\ DigestInv /\ [Next]_vars => DigestInv'
  BY DigestStepLemma
<1>5. Inv /\ RowSources /\ [Next]_vars => RowSources'
  BY InvStep, RowSourcesStep DEF Inv
<1>6. Spec => []Inv
  BY InitInv, InvStep, PTL DEF Spec
<1> QED
  BY <1>2, <1>3, <1>4, <1>5, <1>6, QueueInit, DigestInit, FilesInvariant, PTL
     DEF Spec, CompletedMeansMoved

-----------------------------------------------------------------------------
(***************************************************************************)
(* The refinement.  A row that is not over is a task of ReviewedMove; every *)
(* commit of the journal and every file step is a step of that task.        *)
(***************************************************************************)
(* What ReviewedMove sees as its tasks. *)
Tasks == [id \in Id |-> TaskNow(id)]

(* The task of a row that is not over. *)
LiveTask(row, id) ==
    [phase |-> PhaseNow(row.state), from |-> row.source, to |-> row.destination,
     draft |-> DraftNow(row, id)]

ClosedTask == [phase |-> "closed", from |-> NoPath, to |-> NoPath, draft |-> NoPath]

UnusedTask == [phase |-> "none", from |-> NoPath, to |-> NoPath, draft |-> NoPath]

(* The three forms of a task. *)
LEMMA TaskForms ==
  ASSUME NEW id \in Id
  PROVE  TaskNow(id) = IF id >= nextId THEN UnusedTask
                       ELSE IF rows[id].state \in Finished THEN ClosedTask
                       ELSE LiveTask(rows[id], id)
  BY DEF TaskNow, UnusedTask, ClosedTask, LiveTask

(* The same after a step. *)
LEMMA TaskFormsNext ==
  ASSUME NEW id \in Id
  PROVE  TaskNow(id)' = IF id >= nextId' THEN UnusedTask
                        ELSE IF rows'[id].state \in Finished THEN ClosedTask
                        ELSE LiveTask(rows'[id], id)
  BY DEF TaskNow, UnusedTask, ClosedTask, LiveTask, DraftNow, PhaseNow, Finished

(* The phases. *)
LEMMA Phases ==
  /\ PhaseNow("proposed") = "open"
  /\ PhaseNow("approved") = "approved" /\ PhaseNow("copying") = "approved"
  /\ PhaseNow("published") = "published" /\ PhaseNow("source_removed") = "published"
  /\ PhaseNow("completed") = "done" /\ PhaseNow("undoing") = "undoing"
  BY DEF PhaseNow

(* One task changes. *)
LEMMA OneTask ==
  ASSUME NEW t \in Id, NEW x, TaskNow(t)' = x,
         \A j \in Id : j # t => TaskNow(j)' = TaskNow(j)
  PROVE  Tasks' = [Tasks EXCEPT ![t] = x]
  BY DEF Tasks

(* No task changes. *)
LEMMA NoTask ==
  ASSUME \A j \in Id : TaskNow(j)' = TaskNow(j)
  PROVE  Tasks' = Tasks
  BY DEF Tasks

(* The task follows its row through a transition. *)
LEMMA TransitionTask ==
  ASSUME Inv, NEW id \in Id, NEW v, NEW s \in State, transition(id, v, s),
         rows[id].state \notin Finished
  PROVE  /\ Tasks[id] = LiveTask(rows[id], id)
         /\ s \in Finished => Tasks' = [Tasks EXCEPT ![id] = ClosedTask]
         /\ s \notin Finished => Tasks' = [Tasks EXCEPT ![id].phase = PhaseNow(s)]
<1>1. rows \in [Id -> Row] /\ nextId' = nextId
      /\ rows' = [rows EXCEPT ![id] = [@ EXCEPT !.state = s, !.revision = v + 1,
                                                !.updated_at = clock]]
  BY DEF Inv, JournalTypeOK, transition
<1>2. ~(id >= nextId)
  BY AbsentRowType DEF Inv, JournalTypeOK, Finished
<1>3. /\ rows'[id].state = s /\ rows'[id].source = rows[id].source
      /\ rows'[id].destination = rows[id].destination
      /\ \A j \in Id : j # id => rows'[j] = rows[j]
  BY <1>1 DEF Row
<1>4. \A j \in Id : j # id => TaskNow(j)' = TaskNow(j)
  BY <1>1, <1>3, TaskForms, TaskFormsNext
<1>5. TaskNow(id) = LiveTask(rows[id], id)
  BY <1>2, TaskForms
<1>6. CASE s \in Finished
  BY <1>1, <1>2, <1>3, <1>4, <1>5, <1>6, TaskFormsNext, OneTask DEF Tasks
<1>7. CASE s \notin Finished
  <2>1. TaskNow(id)' = LiveTask(rows'[id], id)
    BY <1>1, <1>2, <1>3, <1>7, TaskFormsNext
  <2>2. LiveTask(rows'[id], id) = [LiveTask(rows[id], id) EXCEPT !.phase = PhaseNow(s)]
    BY <1>3 DEF LiveTask, DraftNow
  <2>3. Tasks' = [Tasks EXCEPT ![id] = [LiveTask(rows[id], id) EXCEPT !.phase = PhaseNow(s)]]
    BY <1>4, <2>1, <2>2, OneTask
  <2> QED
    BY <1>5, <1>7, <2>3 DEF Tasks
<1> QED
  BY <1>6, <1>7

(* What the files hold does not change with them. *)
LEMMA HeldFrame == ASSUME UNCHANGED fsVars PROVE HeldNow' = HeldNow
  BY DEF HeldNow, exists, fsVars

(* A name is free when nothing is bound to it. *)
LEMMA HeldFree ==
  ASSUME FsTypeOK, NEW p \in Path
  PROVE  /\ exists(p) => HeldNow[p] = version[entry[p]] /\ HeldNow[p] # NoDigest
         /\ ~exists(p) => HeldNow[p] = NoDigest
<1>1. exists(p) => version[entry[p]] \in Version
  BY DEF FsTypeOK, exists
<1>2. NoDigest \notin Version
  BY PathsAssumption DEF Version, NoDigest
<1>3. HeldNow[p] = IF exists(p) THEN version[entry[p]] ELSE NoDigest
  BY DEF HeldNow
<1> QED
  BY <1>1, <1>2, <1>3

(* A step that ReviewedMove does not see. *)
LEMMA Unseen ==
  ASSUME HeldNow' = HeldNow, Tasks' = Tasks, userSteps' = userSteps
  PROVE  UNCHANGED Abstract!reviewVars
  BY DEF Abstract!reviewVars, Tasks

(* Tasks are read off the rows. *)
LEMMA TasksFrame == ASSUME UNCHANGED <<rows, nextId>> PROVE Tasks' = Tasks
<1>1. \A j \in Id : TaskNow(j)' = TaskNow(j)
  BY TaskForms, TaskFormsNext
<1> QED
  BY <1>1, NoTask

-----------------------------------------------------------------------------
(* Steps of the task that touch no file. *)
Paperwork == HeldNow' = HeldNow /\ userSteps' = userSteps

(* A transition of a row as a step of its task. *)
LEMMA TransitionReview ==
  ASSUME Inv, NEW id \in Id, NEW v, NEW s \in State, transition(id, v, s), Paperwork,
         rows[id].state \notin Finished,
         s = "published" => HeldNow[rows[id].destination] # NoDigest,
         s = "completed" => /\ HeldNow[rows[id].source] = NoDigest
                            /\ HeldNow[rows[id].destination] # NoDigest,
         s = "undone" => HeldNow[rows[id].source] # NoDigest,
         s # "failed_safely"
  PROVE  Abstract!ReviewNext \/ UNCHANGED Abstract!reviewVars
<1> DEFINE phase == Tasks[id].phase
<1>1. allowed(rows[id].state, s) /\ rows[id].state # "absent"
  BY DEF transition, can_transition
<1>2. /\ Tasks[id] = LiveTask(rows[id], id)
      /\ s \in Finished => Tasks' = [Tasks EXCEPT ![id] = ClosedTask]
      /\ s \notin Finished => Tasks' = [Tasks EXCEPT ![id].phase = PhaseNow(s)]
  BY TransitionTask
<1>3. /\ phase = PhaseNow(rows[id].state)
      /\ Tasks[id].from = rows[id].source /\ Tasks[id].to = rows[id].destination
  BY <1>2 DEF LiveTask
<1> HIDE DEF phase
<1>4. CASE s = "approved"
  <2>1. rows[id].state = "proposed"
    BY <1>1, <1>4 DEF allowed
  <2>2. Tasks' = [Tasks EXCEPT ![id].phase = "approved"] /\ phase = "open"
    BY <1>2, <1>3, <1>4, <2>1, Phases DEF Finished
  <2>3. Abstract!Approve(id)
    BY <2>2 DEF Abstract!Approve, Abstract!become, Abstract!paperwork, Tasks, Paperwork, phase
  <2> QED
    BY <2>3 DEF Abstract!ReviewNext
<1>5. CASE s = "copying" \/ s = "source_removed"
  <2>1. /\ s = "copying" => rows[id].state = "approved"
        /\ s = "source_removed" => rows[id].state = "published"
    BY <1>1, <1>5 DEF allowed
  <2>2. Tasks' = [Tasks EXCEPT ![id].phase = PhaseNow(s)] /\ phase = PhaseNow(s)
    BY <1>2, <1>3, <1>5, <2>1, Phases DEF Finished
  <2>3. Tasks' = Tasks
    <3>1. [Tasks[id] EXCEPT !.phase = PhaseNow(s)] = Tasks[id]
      BY <1>2, <2>2 DEF LiveTask, phase
    <3> QED
      BY <2>2, <3>1 DEF Tasks
  <2> QED
    BY <2>3, Unseen DEF Paperwork
<1>6. CASE s = "published"
  <2>1. rows[id].state \in {"approved", "copying"}
    BY <1>1, <1>6 DEF allowed
  <2>2. Tasks' = [Tasks EXCEPT ![id].phase = "published"] /\ phase = "approved"
    BY <1>2, <1>3, <1>6, <2>1, Phases DEF Finished
  <2>3. Abstract!Publish(id)
    BY <1>3, <1>6, <2>2 DEF Abstract!Publish, Abstract!free, Abstract!become,
       Abstract!paperwork, Tasks, Paperwork, phase
  <2> QED
    BY <2>3 DEF Abstract!ReviewNext
<1>7. CASE s = "completed"
  <2>1. rows[id].state = "source_removed"
    BY <1>1, <1>7 DEF allowed
  <2>2. Tasks' = [Tasks EXCEPT ![id].phase = "done"] /\ phase = "published"
    BY <1>2, <1>3, <1>7, <2>1, Phases DEF Finished
  <2>3. Abstract!Complete(id)
    BY <1>3, <1>7, <2>2 DEF Abstract!Complete, Abstract!free, Abstract!become,
       Abstract!paperwork, Tasks, Paperwork, phase
  <2> QED
    BY <2>3 DEF Abstract!ReviewNext
<1>8. CASE s = "undoing"
  <2>1. rows[id].state = "completed"
    BY <1>1, <1>8 DEF allowed
  <2>2. Tasks' = [Tasks EXCEPT ![id].phase = "undoing"] /\ phase = "done"
    BY <1>2, <1>3, <1>8, <2>1, Phases DEF Finished
  <2>3. Abstract!StartUndo(id)
    BY <2>2 DEF Abstract!StartUndo, Abstract!become, Abstract!paperwork, Tasks, Paperwork, phase
  <2> QED
    BY <2>3 DEF Abstract!ReviewNext
<1>9. CASE s = "undone"
  <2>1. rows[id].state = "undoing"
    BY <1>1, <1>9 DEF allowed
  <2>2. Tasks' = [Tasks EXCEPT ![id] = ClosedTask] /\ phase = "undoing"
    BY <1>2, <1>3, <1>9, <2>1, Phases DEF Finished
  <2>3. Abstract!Undone(id)
    BY <1>3, <1>9, <2>2 DEF Abstract!Undone, Abstract!free, Abstract!Closed, Abstract!blank,
       Abstract!paperwork, Tasks, Paperwork, phase, ClosedTask
  <2> QED
    BY <2>3 DEF Abstract!ReviewNext
<1>10. CASE s = "ignored" \/ s = "needs_attention"
  <2>1. rows[id].state \in {"proposed", "approved", "copying", "published",
                            "source_removed", "undoing"}
    BY <1>1, <1>10 DEF allowed, ActiveState, Finished
  <2>2. Tasks' = [Tasks EXCEPT ![id] = ClosedTask]
        /\ phase \in {"open", "approved", "published", "undoing"}
    BY <1>2, <1>3, <1>10, <2>1, Phases DEF Finished
  <2>3. Abstract!Abandon(id)
    BY <2>2 DEF Abstract!Abandon, Abstract!Closed, Abstract!blank, Abstract!paperwork,
       Tasks, Paperwork, phase, ClosedTask
  <2> QED
    BY <2>3 DEF Abstract!ReviewNext
<1>11. s # "proposed"
  BY <1>1 DEF allowed
<1> QED
  BY <1>4, <1>5, <1>6, <1>7, <1>8, <1>9, <1>10, <1>11 DEF State, ActiveState, TerminalState

(* A new row is a new task. *)
LEMMA CreateReview ==
  ASSUME Inv, NEW t \in Id, NEW p \in Path, NEW d \in Path \cup {NoPath}, create(t, p, d),
         Paperwork
  PROVE  Abstract!ReviewNext
<1> DEFINE new == [phase |-> "open", from |-> p, to |-> d, draft |-> DraftNow(rows'[t], t)]
<1>1. /\ t = nextId /\ nextId' = nextId + 1
      /\ rows' = [rows EXCEPT ![t] = [state |-> "proposed", revision |-> 1, source |-> p,
                                      destination |-> d, sha256 |-> NoDigest,
                                      updated_at |-> clock]]
  BY DEF create
<1>2. rows \in [Id -> Row] /\ nextId \in Int /\ \A j \in Id : j \in Int
  BY DEF Inv, JournalTypeOK, Id
<1>3. /\ rows'[t].state = "proposed" /\ rows'[t].source = p /\ rows'[t].destination = d
      /\ \A j \in Id : j # t => rows'[j] = rows[j]
  BY <1>1, <1>2
<1>4. \A j \in Id : j # t => TaskNow(j)' = TaskNow(j)
  BY <1>1, <1>2, <1>3, TaskForms, TaskFormsNext
<1>5. TaskNow(t) = UnusedTask
  BY <1>1, <1>2, TaskForms
<1>6. TaskNow(t)' = new
  BY <1>1, <1>2, <1>3, TaskFormsNext, Phases DEF Finished, LiveTask
<1>7. DraftNow(rows'[t], t) \in Path \cup {NoPath}
  BY <1>1, <1>3, ParentDir, StagePath DEF DraftNow
<1>8. Tasks' = [Tasks EXCEPT ![t] = new] /\ Tasks[t] = UnusedTask
  BY <1>1, <1>4, <1>5, <1>6, OneTask DEF Tasks
<1>9. Abstract!Propose(t)
  BY <1>7, <1>8 DEF Abstract!Propose, Abstract!Unused, Abstract!blank, Abstract!paperwork,
     Tasks, Paperwork, UnusedTask
<1> QED
  BY <1>1, <1>9 DEF Abstract!ReviewNext

(* A new destination redirects the task. *)
LEMMA ReviseReview ==
  ASSUME Inv, NEW id \in Id, NEW v, NEW d \in Path, revise_proposal(id, v, d), Paperwork
  PROVE  Abstract!ReviewNext
<1> DEFINE draft == stage_path(id, parent(d))
           old == [phase |-> "open", from |-> rows[id].source, to |-> rows[id].destination,
                   draft |-> DraftNow(rows[id], id)]
           new == [phase |-> "open", from |-> rows[id].source, to |-> d, draft |-> draft]
<1>1. /\ rows[id].state = "proposed" /\ nextId' = nextId
      /\ rows' = [rows EXCEPT ![id] = [@ EXCEPT !.destination = d, !.revision = v + 1,
                                                !.updated_at = clock]]
  BY DEF revise_proposal
<1>2. rows \in [Id -> Row]
  BY DEF Inv, JournalTypeOK
<1>3. ~(id >= nextId)
  BY <1>1, AbsentRowType DEF Inv, JournalTypeOK
<1>4. /\ rows'[id].state = "proposed" /\ rows'[id].source = rows[id].source
      /\ rows'[id].destination = d
      /\ \A j \in Id : j # id => rows'[j] = rows[j]
  BY <1>1, <1>2 DEF Row
<1>5. \A j \in Id : j # id => TaskNow(j)' = TaskNow(j)
  BY <1>1, <1>4, TaskForms, TaskFormsNext
<1>6. d # NoPath /\ draft \in Path
  BY PathsAssumption, ParentDir, StagePath DEF Path
<1>7. TaskNow(id) = LiveTask(rows[id], id)
  BY <1>1, <1>3, TaskForms DEF Finished
<1>8. TaskNow(id)' = new
  <2>1. TaskNow(id)' = LiveTask(rows'[id], id)
    BY <1>1, <1>3, <1>4, TaskFormsNext DEF Finished
  <2>2. DraftNow(rows'[id], id) = draft
    BY <1>4, <1>6 DEF DraftNow
  <2> QED
    BY <1>4, <2>1, <2>2, Phases DEF LiveTask
<1>9. Tasks' = [Tasks EXCEPT ![id] = new] /\ Tasks[id] = old
  BY <1>1, <1>5, <1>7, <1>8, Phases, OneTask DEF Tasks, LiveTask
<1> HIDE DEF draft
<1>10. [old EXCEPT !.to = d, !.draft = draft] = new /\ old.phase = "open"
  <2> DEFINE mid == [old EXCEPT !.to = d]
  <2>1. mid = [phase |-> "open", from |-> rows[id].source, to |-> d,
               draft |-> DraftNow(rows[id], id)]
    OBVIOUS
  <2> HIDE DEF mid
  <2>2. [mid EXCEPT !.draft = draft] = new
    BY <2>1
  <2> QED
    BY <2>2 DEF mid
<1> HIDE DEF old, new
<1>11. Tasks' = [Tasks EXCEPT ![id] = [@ EXCEPT !.to = d, !.draft = draft]]
       /\ Tasks[id].phase = "open"
  BY <1>9, <1>10
<1>12. Abstract!Redirect(id)
  BY <1>6, <1>11 DEF Abstract!Redirect, Abstract!paperwork, Tasks, Paperwork
<1> QED
  BY <1>12 DEF Abstract!ReviewNext

(* Retention forgets finished tasks. *)
LEMMA RetentionReview ==
  ASSUME Inv, enforce_retention, Paperwork
  PROVE  Abstract!ReviewNext
<1> DEFINE S == {id \in pruned : rows[id].state = "completed"}
<1>1. pruned \subseteq Terminal
  BY DEF pruned, aged, prune_terminal
<1>2. nextId' = nextId /\ \A j \in Id : rows'[j] = IF j \in pruned THEN AbsentRow ELSE rows[j]
  BY DEF enforce_retention
<1>3. \A j \in Id : rows[j].state \in TerminalState => ~(j >= nextId)
  BY AbsentRowType DEF Inv, JournalTypeOK, TerminalState
<1>4. ASSUME NEW j \in S
      PROVE  TaskNow(j)' = ClosedTask /\ TaskNow(j) = LiveTask(rows[j], j) /\ j \in Id
             /\ TaskNow(j).phase = "done"
  <2>1. j \in Id /\ rows[j].state = "completed" /\ ~(j >= nextId) /\ rows'[j].state = "absent"
    BY <1>1, <1>2, <1>3, <1>4, AbsentRowType DEF Terminal, TerminalState
  <2>2. TaskNow(j) = LiveTask(rows[j], j)
    BY <2>1, TaskForms DEF Finished
  <2> QED
    BY <1>2, <2>1, <2>2, TaskFormsNext, Phases DEF Finished, LiveTask
<1>5. ASSUME NEW j \in Id, j \notin S
      PROVE  TaskNow(j)' = TaskNow(j)
  <2>1. CASE j \in pruned
    <3>1. rows[j].state \in Finished /\ ~(j >= nextId) /\ rows'[j].state = "absent"
      BY <1>1, <1>2, <1>3, <1>5, <2>1, AbsentRowType DEF Terminal, TerminalState, Finished
    <3> QED
      BY <1>2, <3>1, TaskForms, TaskFormsNext DEF Finished
  <2>2. CASE j \notin pruned
    BY <1>2, <2>2, TaskForms, TaskFormsNext
  <2> QED
    BY <2>1, <2>2
<1> HIDE DEF S
<1>6. S \in SUBSET Id
  BY <1>4
<1>7. Tasks' = [t \in Id |-> IF t \in S THEN ClosedTask ELSE Tasks[t]]
  BY <1>4, <1>5 DEF Tasks
<1>8. \A t \in S : Tasks[t].phase = "done"
  BY <1>4 DEF Tasks
<1>9. Abstract!Forget(S)
  BY <1>7, <1>8 DEF Abstract!Forget, Abstract!Closed, Abstract!blank, Abstract!paperwork,
     Tasks, Paperwork, ClosedTask
<1> QED
  BY <1>6, <1>9 DEF Abstract!ReviewNext

-----------------------------------------------------------------------------
(* What a name holds after a step. *)
LEMMA HeldNext ==
  /\ HeldNow' = [p \in Path |-> IF entry'[p] # NoIno THEN version'[entry'[p]] ELSE NoDigest]
  /\ HeldNow = [p \in Path |-> IF entry[p] # NoIno THEN version[entry[p]] ELSE NoDigest]
  BY DEF HeldNow, exists

(* A rename carries what the name held to a name that was free. *)
LEMMA CarryReview ==
  ASSUME FsTypeOK, NEW from \in Path, NEW to \in Path, renameat_noreplace(from, to),
         Tasks' = Tasks, userSteps' = userSteps
  PROVE  Abstract!carry(from, to)
<1>1. /\ exists(from) /\ ~exists(to) /\ version' = version
      /\ entry' = [entry EXCEPT ![from] = NoIno, ![to] = entry[from]]
  BY DEF renameat_noreplace
<1>2. HeldNow[from] # NoDigest /\ HeldNow[to] = NoDigest /\ from # to
  BY <1>1, HeldFree
<1>3. /\ entry'[from] = NoIno /\ entry'[to] = entry[from]
      /\ \A p \in Path : p # from /\ p # to => entry'[p] = entry[p]
  BY <1>1, <1>2 DEF FsTypeOK
<1>4. HeldNow' = [HeldNow EXCEPT ![from] = NoDigest, ![to] = HeldNow[from]]
  <2> DEFINE new == [HeldNow EXCEPT ![from] = NoDigest, ![to] = HeldNow[from]]
  <2>1. new = [p \in Path |-> IF p = to THEN HeldNow[from]
                              ELSE IF p = from THEN NoDigest ELSE HeldNow[p]]
    BY HeldNext
  <2>2. \A p \in Path : HeldNow'[p] = IF p = to THEN HeldNow[from]
                                      ELSE IF p = from THEN NoDigest ELSE HeldNow[p]
    <3>1. HeldNow'[from] = NoDigest
      BY <1>3, HeldNext
    <3>2. HeldNow'[to] = HeldNow[from]
      <4>1. entry[from] # NoIno
        BY <1>1 DEF exists
      <4>2. HeldNow[from] = version[entry[from]]
        BY <4>1, HeldNext
      <4>3. HeldNow'[to] = version'[entry'[to]]
        BY <1>3, <4>1, HeldNext
      <4> QED
        BY <1>1, <1>3, <4>2, <4>3
    <3>3. ASSUME NEW p \in Path, p # from, p # to
          PROVE  HeldNow'[p] = HeldNow[p]
      <4>1. entry'[p] = entry[p] /\ version' = version
        BY <1>1, <1>3, <3>3
      <4> QED
        BY <4>1, HeldNext
    <3> QED
      BY <1>2, <3>1, <3>2, <3>3
  <2>3. HeldNow' = [p \in Path |-> HeldNow'[p]]
    BY HeldNext
  <2> HIDE DEF new
  <2> QED
    BY <2>1, <2>2, <2>3 DEF new
<1> QED
  BY <1>2, <1>4 DEF Abstract!carry, Abstract!free, Tasks

(* One name holds something else, and no other name is affected. *)
LEMMA HeldUpdate ==
  ASSUME NEW w \in Path, NEW c,
         HeldNow'[w] = c,
         \A p \in Path : p # w => HeldNow'[p] = HeldNow[p]
  PROVE  HeldNow' = [HeldNow EXCEPT ![w] = c]
<1>1. HeldNow' = [p \in Path |-> HeldNow'[p]] /\ HeldNow = [p \in Path |-> HeldNow[p]]
  BY HeldNext
<1> QED
  BY <1>1

(* The task of the running operation. *)
LEMMA OperationTask ==
  ASSUME Inv, QueueInv, pc \in MoverPc
  PROVE  LET row == rows[cur.id] IN
         row.state \notin Finished =>
            /\ cur.id \in Id
            /\ Tasks[cur.id].phase = PhaseNow(row.state)
            /\ Tasks[cur.id].from = row.source
            /\ Tasks[cur.id].to = row.destination
            /\ ~cur.undo => Tasks[cur.id].draft = staging
<1> DEFINE row == rows[cur.id]
<1> SUFFICES ASSUME row.state \notin Finished
             PROVE  /\ cur.id \in Id
                    /\ Tasks[cur.id].phase = PhaseNow(row.state)
                    /\ Tasks[cur.id].from = row.source
                    /\ Tasks[cur.id].to = row.destination
                    /\ ~cur.undo => Tasks[cur.id].draft = staging
  OBVIOUS
<1>1. cur.id \in Id /\ cur.to \in Path /\ cur.to # NoPath
  BY PathsAssumption DEF Inv, OperationOK, Path
<1>2. ~(cur.id >= nextId)
  BY <1>1, AbsentRowType DEF Inv, JournalTypeOK, Finished
<1>3. Tasks[cur.id] = LiveTask(row, cur.id)
  BY <1>1, <1>2, TaskForms DEF Tasks
<1>4. ~cur.undo => cur.to = row.destination
  BY DEF QueueInv, MoverRow
<1> QED
  BY <1>1, <1>3, <1>4 DEF LiveTask, DraftNow, staging

(* The steps of the mover that touch a file are steps of the task. *)
LEMMA FileReview ==
  ASSUME Inv, QueueInv, FilesInv, FileStep
  PROVE  Abstract!ReviewNext
<1> DEFINE t == cur.id
           row == rows[cur.id]
<1>0. FsTypeOK /\ Fresh
  BY DEF Inv, FilesInv
<1>1. /\ pc \in {"move_rename", "stage", "copy", "publish", "unlink"}
      /\ pc \in MoverPc
  BY DEF FileStep, move_rename, stage_create, stage_copy, publish_stage, retire_unlink, goto,
         MoverPc, MovePc, CopyPc
<1>2. UNCHANGED <<rows, nextId, userSteps>>
  BY DEF FileStep, move_rename, stage_create, stage_copy, publish_stage, retire_unlink,
         journalVars, unchangedByMover
<1>3. Tasks' = Tasks
  BY <1>2, TasksFrame
<1>4. cur.id \in Id /\ cur.from \in Path /\ cur.to \in Path /\ staging \in Path
  BY <1>1, MoverPaths
<1>5. OperationKnown /\ MoverFiles
  BY <1>1 DEF FilesInv
<1>6. /\ cur.undo => pc = "move_rename" /\ row.state = "undoing" /\ cur.to = row.source
      /\ ~cur.undo => cur.from = row.source /\ cur.to = row.destination
      /\ ~cur.undo /\ pc = "move_rename" => row.state = "approved"
      /\ pc \in {"stage", "copy", "publish"} => row.state = "copying"
      /\ pc = "unlink" => row.state = "published"
  BY <1>1 DEF QueueInv, MoverRow, MovePc
<1>7. row.state \notin Finished
  BY <1>1, <1>6 DEF Finished
<1>8. /\ Tasks[t].phase = PhaseNow(row.state)
      /\ Tasks[t].from = row.source
      /\ Tasks[t].to = row.destination
      /\ ~cur.undo => Tasks[t].draft = staging
  BY <1>1, <1>7, OperationTask
<1>9. CASE move_rename
  <2>1. pc = "move_rename" /\ Abstract!carry(cur.from, cur.to)
    BY <1>0, <1>2, <1>3, <1>4, <1>9, CarryReview DEF move_rename, goto
  <2>2. CASE cur.undo
    <3>1. Abstract!Restore(t)
      BY <1>4, <1>6, <1>8, <2>1, <2>2, Phases DEF Abstract!Restore, Tasks
    <3> QED
      BY <1>4, <3>1 DEF Abstract!ReviewNext
  <2>3. CASE ~cur.undo
    <3>1. Abstract!Move(t)
      BY <1>4, <1>6, <1>8, <2>1, <2>3, Phases DEF Abstract!Move, Tasks
    <3> QED
      BY <1>4, <3>1 DEF Abstract!ReviewNext
  <2> QED
    BY <2>2, <2>3
<1>10. CASE stage_create
  <2>1. pc = "stage" /\ create_exclusive(staging)
    BY <1>10 DEF stage_create, goto, staging
  <2>2. /\ ~exists(staging) /\ nextIno \in Ino /\ nextIno # NoIno
        /\ entry' = [entry EXCEPT ![staging] = nextIno]
        /\ version' = [version EXCEPT ![nextIno] = Torn]
    <3>1. nextIno \in Ino /\ nextIno # NoIno
      BY <2>1, FsAssumption DEF create_exclusive, Ino, NoIno
    <3> QED
      BY <2>1, <3>1 DEF create_exclusive
  <2>3. \A p \in Path : p # staging =>
           /\ entry'[p] = entry[p]
           /\ exists(p) => version'[entry[p]] = version[entry[p]]
    BY <1>0, <2>2, FsAssumption DEF exists, Fresh, FsTypeOK, Ino, NoIno
  <2>4. HeldNow' = [HeldNow EXCEPT ![staging] = Torn] /\ HeldNow[staging] = NoDigest
    <3>1. HeldNow'[staging] = Torn
      BY <1>0, <1>4, <2>2, HeldNext DEF FsTypeOK
    <3>2. \A p \in Path : p # staging => HeldNow'[p] = HeldNow[p]
      BY <2>3, HeldNext DEF exists
    <3> QED
      BY <1>0, <1>4, <2>2, <3>1, <3>2, HeldUpdate, HeldFree
  <2>5. Tasks[t].phase = "approved" /\ Tasks[t].draft = staging /\ Torn \in Version
    BY <1>6, <1>8, <2>1, Phases, PathsAssumption DEF Torn, Version
  <2>6. Abstract!Prepare(t)
    BY <1>2, <1>3, <1>4, <2>4, <2>5 DEF Abstract!Prepare, Tasks
  <2> QED
    BY <1>4, <2>6 DEF Abstract!ReviewNext
<1>11. CASE stage_copy
  <2>1. PICK v \in read_result : write_all(entry[staging], v)
    BY <1>11 DEF stage_copy, staging
  <2>2. pc = "copy" /\ Staged /\ StageEmpty
    BY <1>5, <1>11 DEF MoverFiles, stage_copy, goto
  <2>3. exists(staging) /\ entry[staging] \in Ino /\ v \in Version
    BY <1>0, <1>4, <2>1, <2>2, ReadResult DEF Staged, exists, FsTypeOK, Inv, OperationOK
  <2>4. /\ entry' = entry
        /\ version'[entry[staging]] = v
        /\ \A p \in Path : (p # staging /\ exists(p)) => version'[entry[p]] = version[entry[p]]
    BY <1>0, <2>1, <2>2, <2>3 DEF write_all, StageEmpty, FsTypeOK, exists
  <2>5. HeldNow' = [HeldNow EXCEPT ![staging] = v] /\ HeldNow[staging] = Torn
    <3>1. HeldNow'[staging] = v
      BY <1>4, <2>3, <2>4, HeldNext DEF exists
    <3>2. \A p \in Path : p # staging => HeldNow'[p] = HeldNow[p]
      BY <2>4, HeldNext DEF exists
    <3> QED
      BY <1>0, <1>4, <2>2, <2>3, <3>1, <3>2, HeldUpdate, HeldFree DEF StageEmpty
  <2>6. Tasks[t].phase = "approved" /\ Tasks[t].draft = staging
    BY <1>6, <1>8, <2>2, Phases
  <2>7. Abstract!Prepare(t)
    BY <1>2, <1>3, <1>4, <2>3, <2>5, <2>6 DEF Abstract!Prepare, Tasks
  <2> QED
    BY <1>4, <2>7 DEF Abstract!ReviewNext
<1>12. CASE publish_stage
  <2>1. pc = "publish" /\ Abstract!carry(staging, cur.to)
    BY <1>0, <1>2, <1>3, <1>4, <1>12, CarryReview DEF publish_stage, goto, staging
  <2>2. Staged /\ version[entry[staging]] = cur.expected.version
    BY <1>5, <2>1 DEF MoverFiles
  <2>3. HeldNow[staging] = HeldNow[cur.from]
    BY <1>0, <1>4, <2>2, HeldFree DEF Staged, SourceOpen
  <2>4. ~cur.undo /\ Tasks[t].phase = "approved" /\ Tasks[t].from = cur.from
        /\ Tasks[t].to = cur.to /\ Tasks[t].draft = staging
    BY <1>6, <1>8, <2>1, Phases
  <2>5. Abstract!Copy(t)
    BY <1>4, <2>1, <2>3, <2>4 DEF Abstract!Copy, Tasks
  <2> QED
    BY <1>4, <2>5 DEF Abstract!ReviewNext
<1>13. CASE retire_unlink
  <2>1. unlinkat(cur.from) /\ pc = "unlink"
    BY <1>13 DEF retire_unlink, goto
  <2>2. /\ holds(cur.from, cur.expected.version) /\ holds(cur.to, cur.expected.version)
        /\ cur.from # cur.to
    BY <1>5, <2>1 DEF MoverFiles, Copied, OperationKnown, MovePc
  <2>3. /\ \A p \in Path : p # cur.from => entry'[p] = entry[p]
        /\ entry'[cur.from] = NoIno /\ version' = version
    BY <1>0, <1>4, <2>1 DEF unlinkat, FsTypeOK
  <2>4. HeldNow' = [HeldNow EXCEPT ![cur.from] = NoDigest]
    <3>1. HeldNow'[cur.from] = NoDigest
      BY <1>4, <2>3, HeldNext
    <3>2. \A p \in Path : p # cur.from => HeldNow'[p] = HeldNow[p]
      BY <2>3, HeldNext
    <3> QED
      BY <1>4, <3>1, <3>2, HeldUpdate
  <2>5. HeldNow[cur.from] # NoDigest /\ HeldNow[cur.to] = HeldNow[cur.from]
    BY <1>0, <1>4, <2>2, HeldFree DEF holds
  <2>6. Tasks[t].phase = "published" /\ Tasks[t].from = cur.from /\ Tasks[t].to = cur.to
    BY <1>6, <1>8, <2>1, Phases
  <2>7. Abstract!Remove(t)
    BY <1>2, <1>3, <1>4, <2>2, <2>4, <2>5, <2>6 DEF Abstract!Remove, Abstract!free, Tasks
  <2> QED
    BY <1>4, <2>7 DEF Abstract!ReviewNext
<1> QED
  BY <1>9, <1>10, <1>11, <1>12, <1>13 DEF FileStep
-----------------------------------------------------------------------------
(* A step of the task, or one that ReviewedMove does not see. *)
Reviewed == Abstract!ReviewNext \/ UNCHANGED Abstract!reviewVars

(* A step that touches no file and no row. *)
LEMMA NothingSeen ==
  ASSUME UNCHANGED <<fsVars, rows, nextId, userSteps>>
  PROVE  Reviewed
  BY HeldFrame, TasksFrame, Unseen DEF Reviewed

(* A step that touches no file, and no counter of other programs, is paperwork. *)
LEMMA NoFile == ASSUME UNCHANGED <<fsVars, userSteps>> PROVE Paperwork
  BY HeldFrame DEF Paperwork

(* Editing. *)
LEMMA ChooseReview ==
  ASSUME Inv, NEW id \in Id, NEW v, NEW r, choose_destination(id, v, r)
  PROVE  Reviewed
<1> DEFINE d == <<roots[r].dir, proposals[id].source_relative>>
<1>1. proposals[id].status # "absent" /\ registered(r) /\ revise_proposal(id, v, d)
      /\ UNCHANGED <<fsVars, userSteps>>
  BY DEF choose_destination, proposal_index, is_destination
<1>2. d \in Path
  BY <1>1, EntryNamed, RootDir, MakePath DEF Inv, StoreOK
<1> HIDE DEF d
<1> QED
  BY <1>1, <1>2, NoFile, ReviseReview DEF Reviewed

(* Another name for the file is a redirection too. *)
LEMMA RenameReview ==
  ASSUME Inv, NEW id \in Id, NEW v, NEW n \in Name, rename(id, v, n)
  PROVE  Reviewed
<1> DEFINE d == <<roots[proposals[id].destination].dir, n>>
<1>1. registered(proposals[id].destination) /\ revise_proposal(id, v, d)
      /\ UNCHANGED <<fsVars, userSteps>>
  BY DEF rename, is_destination
<1>2. d \in Path
  BY <1>1, RootDir, MakePath DEF Inv, StoreOK
<1> HIDE DEF d
<1> QED
  BY <1>1, <1>2, NoFile, ReviseReview DEF Reviewed

(* A request that asks the journal for a transition. *)
LEMMA RequestReview ==
  ASSUME Inv, NEW id \in Id, NEW v, ignore(id, v) \/ approve(id, v) \/ undo(id, v)
  PROVE  Reviewed
<1>1. UNCHANGED <<fsVars, userSteps>>
  BY DEF ignore, approve, undo
<1>2. PICK s \in {"ignored", "approved", "undoing"} : transition(id, v, s)
  BY DEF ignore, approve, undo
<1>3. rows[id].state \notin Finished /\ s \in State
  BY <1>2 DEF transition, can_transition, allowed, Finished, State, ActiveState, TerminalState
<1> QED
  BY <1>1, <1>2, <1>3, NoFile, TransitionReview DEF Reviewed

(* A new proposal. *)
LEMMA ConsiderReview == ASSUME Inv, Considered PROVE Reviewed
<1>1. PICK n \in Name, c \in RootId \cup {NoRoot} : consider(n, c)
  BY DEF Considered
<1> DEFINE p == <<roots[scan.root].dir, n>>
<1>2. UNCHANGED <<fsVars, userSteps>> /\ n \in scan.files /\ nextId \in Id
      /\ create(nextId, p, destination_path_for(c, n))
  BY <1>1 DEF consider, create
<1>3. p \in Path
  BY <1>2, RootDir, MakePath DEF Inv, StoreOK, ScanOK
<1>4. destination_path_for(c, n) \in Path \cup {NoPath}
  BY RootDir, MakePath DEF destination_path_for, is_destination, Inv, StoreOK
<1> HIDE DEF p
<1>5. \A t \in Id : create(t, p, destination_path_for(c, n)) => Abstract!ReviewNext
  BY <1>2, <1>3, <1>4, NoFile, CreateReview
<1> QED
  BY <1>2, <1>5 DEF Reviewed
(* A commit of the running operation: the files already say what it records. *)
LEMMA RecordReview ==
  ASSUME Inv, QueueInv, FilesInv,
         record_copying \/ record_published \/ record_removed \/ finish_approve \/ finish_undo
  PROVE  Reviewed
<1> DEFINE row == rows[cur.id]
<1>1. PICK s \in {"copying", "published", "source_removed", "completed", "undone"} :
         /\ transition(cur.id, cur.revision, s)
         /\ pc = s
  BY DEF record_copying, record_published, record_removed, record, goto, finish_approve,
         finish_undo, finish
<1>2. UNCHANGED <<fsVars, userSteps>>
  BY DEF record_copying, record_published, record_removed, record, finish_approve,
         finish_undo, finish, unchangedByMover
<1>3. pc \in MoverPc
  BY <1>1 DEF MoverPc, MovePc, CopyPc, JournalPc
<1>4. /\ cur.id \in Id /\ cur.from \in Path /\ cur.to \in Path
      /\ OperationKnown /\ MoverFiles /\ FsTypeOK
  BY <1>3, MoverPaths DEF FilesInv, Inv
<1>5. row.state \notin Finished
  BY <1>1 DEF transition, can_transition, allowed, Finished
<1>6. /\ cur.undo => pc = "undone" /\ cur.to = row.source
      /\ ~cur.undo => pc # "undone" /\ cur.from = row.source /\ cur.to = row.destination
  BY <1>1, <1>3, <1>4 DEF QueueInv, MoverRow, OperationKnown, MovePc
<1>7. s = "published" => HeldNow[row.destination] # NoDigest
  BY <1>1, <1>4, <1>6, HeldFree DEF MoverFiles, Moved, Copied, holds
<1>8. s = "completed" => HeldNow[row.source] = NoDigest /\ HeldNow[row.destination] # NoDigest
  BY <1>1, <1>4, <1>6, HeldFree DEF MoverFiles, Moved, holds, exists
<1>9. s = "undone" => HeldNow[row.source] # NoDigest
  BY <1>1, <1>3, <1>4, <1>6, HeldFree
     DEF MoverFiles, Restored, single_link, Inv, OperationOK, Operation
<1>10. s \in State /\ s # "failed_safely"
  BY DEF State, ActiveState, TerminalState
<1> QED
  BY <1>1, <1>2, <1>4, <1>5, <1>7, <1>8, <1>9, <1>10, NoFile, TransitionReview DEF Reviewed

(* The digest of the copy is no part of the task. *)
LEMMA DigestReview == ASSUME Inv, record_sha256 PROVE Reviewed
<1>1. /\ UNCHANGED <<fsVars, userSteps, nextId>>
      /\ rows' = [rows EXCEPT ![cur.id] = [@ EXCEPT !.sha256 = cur.digest,
                                                   !.updated_at = clock]]
  BY DEF record_sha256, set_sha256, unchangedByMover
<1>2. ASSUME NEW j \in Id
      PROVE  /\ rows'[j].state = rows[j].state
             /\ rows'[j].source = rows[j].source
             /\ rows'[j].destination = rows[j].destination
  BY <1>1 DEF Inv, JournalTypeOK, Row
<1>3. ASSUME NEW j \in Id PROVE TaskNow(j)' = TaskNow(j)
  <2>1. LiveTask(rows'[j], j) = LiveTask(rows[j], j)
    BY <1>2 DEF LiveTask, DraftNow
  <2> QED
    BY <1>1, <1>2, <2>1, TaskForms, TaskFormsNext
<1> QED
  BY <1>1, <1>3, HeldFrame, NoTask, Unseen DEF Reviewed

(* Recovery completes a row on evidence, or hands it to the user. *)
LEMMA RecoverReview ==
  ASSUME Inv, RowSources, NEW id \in Id, recover_entry(id)
  PROVE  Reviewed
<1>1. UNCHANGED <<fsVars, userSteps>>
  BY DEF recover_entry
<1>2. CASE UNCHANGED journalVars
  BY <1>1, <1>2, NothingSeen DEF journalVars
<1>3. CASE rows[id].state \in Interrupted /\ transition(id, rows[id].revision, "needs_attention")
  <2>1. rows[id].state \notin Finished /\ "needs_attention" \in State
    BY <1>3 DEF Interrupted, Finished, State, ActiveState
  <2> QED
    BY <1>1, <1>3, <2>1, NoFile, TransitionReview DEF Reviewed
<1>4. CASE evidence(id) /\ transition(id, rows[id].revision, "completed")
  <2>1. /\ rows[id].state = "source_removed"
        /\ ~(rows[id].source # NoPath /\ exists(rows[id].source))
        /\ rows[id].destination # NoPath /\ exists(rows[id].destination)
    BY <1>4 DEF evidence, verify_recovery_destination, single_link
  <2>2. rows[id].source \in Path /\ rows[id].source # NoPath /\ rows[id].destination \in Path
    BY <2>1, PathsAssumption DEF RowSources, Path, Inv, JournalTypeOK, Row
  <2>3. HeldNow[rows[id].source] = NoDigest /\ HeldNow[rows[id].destination] # NoDigest
    BY <2>1, <2>2, HeldFree DEF Inv
  <2>4. rows[id].state \notin Finished /\ "completed" \in State
    BY <2>1 DEF Finished, State, TerminalState
  <2> QED
    BY <1>1, <1>4, <2>3, <2>4, NoFile, TransitionReview DEF Reviewed
<1> QED
  BY <1>2, <1>3, <1>4 DEF recover_entry, journalVars

(* What the names can hold. *)
LEMMA HeldType == ASSUME FsTypeOK PROVE HeldNow \in [Path -> Version \cup {NoDigest}]
  BY DEF HeldNow, exists, FsTypeOK

(* Other programs. *)
LEMMA UserReview == ASSUME Inv, [Next]_vars, user_acts PROVE Reviewed
<1>1. UNCHANGED <<rows, nextId>> /\ userSteps' = userSteps + 1
  BY DEF user_acts, journalVars
<1>2. HeldNow' \in [Path -> Version \cup {NoDigest}]
  <2>1. FsTypeOK'
    BY InvStep DEF Inv
  <2> QED
    BY <2>1 DEF HeldNow, exists, FsTypeOK
<1>3. Abstract!Others
  BY <1>1, <1>2, TasksFrame DEF Abstract!Others, Tasks
<1> QED
  BY <1>3 DEF Reviewed, Abstract!ReviewNext

(* Every step is a step of the task, of other programs, or is not seen. *)
LEMMA ReviewStep ==
  ASSUME Inv, QueueInv, FilesInv, RowSources, [Next]_vars
  PROVE  Reviewed
<1>1. CASE Request
  <2>1. CASE \/ \E b \in BOOLEAN : set_paused(b)
             \/ configure_agent \/ \E i \in Id : create_rule_from_proposal(i)
             \/ \E d \in Dir, w \in BOOLEAN, t \in BOOLEAN : add_root(d, w, t)
             \/ \E r \in RootId : remove_root(r)
             \/ scan_once
    <3>1. UNCHANGED <<fsVars, rows, nextId, userSteps>>
      BY <2>1 DEF set_paused, configure_agent, create_rule_from_proposal, add_root,
         remove_root, scan_once, journalVars
    <3> QED
      BY <3>1, NothingSeen
  <2>2. ASSUME NEW i \in Id, NEW v \in 0..MaxRevision, NEW d \in Dir,
               choose_destination_path(i, v, d)
        PROVE  Reviewed
    <3>1. CASE \E r \in RootId : choose_destination(i, v, r)
      BY <3>1, ChooseReview
    <3>2. CASE UNCHANGED <<journalVars, fsVars, userSteps>>
      BY <3>2, NothingSeen DEF journalVars
    <3> QED
      BY <2>2, <3>1, <3>2 DEF choose_destination_path
  <2> QED
    BY <1>1, <2>1, <2>2, ChooseReview, RenameReview, RequestReview DEF Request, proposal_destination
<1>2. CASE FileStep
  BY <1>2, FileReview DEF Reviewed
<1>3. CASE Mover /\ ~FileStep
  <2>1. CASE move_check \/ move_verify \/ verify \/ retire_check
    <3>1. UNCHANGED <<fsVars, rows, nextId, userSteps>>
      BY <2>1 DEF move_check, move_verify, verify, retire_check, journalVars, unchangedByMover
    <3> QED
      BY <3>1, NothingSeen
  <2> QED
    BY <1>3, <2>1, RecordReview, DigestReview DEF Mover, FileStep
<1>4. CASE Daemon /\ ~Mover
  <2>1. CASE \/ save \/ scan_pause \/ scan_end \/ operation_error \/ recover_end
             \/ \E r \in RootId : scan_root(r)
             \/ \E n \in Name : scan_skip(n)
    <3>1. UNCHANGED <<fsVars, rows, nextId, userSteps>>
      BY <2>1 DEF save, scan_pause, scan_root, scan_skip, scan_end, operation_error,
         recover_end, journalVars
    <3> QED
      BY <3>1, NothingSeen
  <2>2. CASE choose_enrolled
    <3>1. cur.id \in Id
      BY <2>2 DEF choose_enrolled, Inv, OperationOK
    <3> QED
      BY <2>2, <3>1, ChooseReview DEF choose_enrolled
  <2>3. CASE enforce_journal_retention \/ open
    <3>1. enforce_retention /\ UNCHANGED <<fsVars, userSteps>>
      BY <2>3 DEF enforce_journal_retention, open
    <3> QED
      BY <3>1, NoFile, RetentionReview DEF Reviewed
  <2> QED
    BY <1>4, <2>1, <2>2, <2>3, ConsiderReview, RecoverReview DEF Daemon, Considered
<1>5. CASE crash \/ time_passes \/ UNCHANGED vars
  <2>1. UNCHANGED <<fsVars, rows, nextId, userSteps>>
    BY <1>5 DEF crash, time_passes, set_clock, vars, journalVars
  <2> QED
    BY <2>1, NothingSeen
<1> QED
  BY <1>1, <1>2, <1>3, <1>4, <1>5, UserReview DEF Next

(* At the start there is no task. *)
LEMMA ReviewStart == Init => Abstract!ReviewInit
<1> SUFFICES ASSUME Init PROVE Abstract!ReviewInit
  OBVIOUS
<1>1. HeldNow \in [Path -> Version \cup {NoDigest}]
  BY InitInv, HeldType DEF Inv
<1>2. nextId = 1 /\ userSteps = 0
  BY DEF Init, JournalInit
<1>3. \A id \in Id : TaskNow(id) = UnusedTask
  BY <1>2, TaskForms DEF Id
<1> QED
  BY <1>1, <1>2, <1>3 DEF Abstract!ReviewInit, Abstract!Unused, Abstract!blank, UnusedTask

(***************************************************************************)
(* The service, with its journal, its queue, staging, errors, crashes and   *)
(* recovery, implements ReviewedMove: with UTF-8 names, and as long as      *)
(* other programs leave the files alone while an operation runs, every step *)
(* of it is a step of the task whose row it commits, or touches nothing     *)
(* that a reader of the folders and of the journal sees.                    *)
(***************************************************************************)
THEOREM ImplementsReviewedMoveTheorem ==
  ASSUME Utf8Names, ~Interference PROVE Spec => ImplementsReviewedMove
<1>1. Inv /\ QueueInv /\ FilesInv /\ RowSources /\ [Next]_vars
         => [Abstract!ReviewNext]_(Abstract!reviewVars)
  BY ReviewStep DEF Reviewed
<1>2. Inv /\ QueueInv /\ [Next]_vars => QueueInv'
  BY QueueInvStep
<1>3. Inv /\ RowSources /\ [Next]_vars => RowSources'
  BY InvStep, RowSourcesStep DEF Inv
<1>4. Spec => []Inv
  BY InitInv, InvStep, PTL DEF Spec
<1>5. Init => RowSources
  BY DigestInit
<1> QED
  BY <1>1, <1>2, <1>3, <1>4, <1>5, QueueInit, FilesInvariant, ReviewStart, PTL
     DEF Spec, ImplementsReviewedMove, Abstract!ReviewSpec

-----------------------------------------------------------------------------
(* ReviewedMove as the module that proves what it promises sees it. *)
Promise == INSTANCE ReviewProofs WITH
    Task <- Id, Place <- Path, Content <- Version, Draft <- Torn, Nothing <- NoDigest,
    Nowhere <- NoPath,
    held <- HeldNow, task <- [id \in Id |-> TaskNow(id)], others <- userSteps

(* The two instances of ReviewedMove have the same steps. *)
LEMMA SameActions ==
  [Abstract!ReviewNext]_(Abstract!reviewVars) => [Promise!ReviewNext]_(Promise!reviewVars)
<1>1. \A t \in Id : Abstract!Propose(t) \/ Abstract!Redirect(t) \/ Abstract!Approve(t)
                    => Promise!Propose(t) \/ Promise!Redirect(t) \/ Promise!Approve(t)
  BY DEF Abstract!Propose, Abstract!Redirect, Abstract!Approve, Abstract!Unused,
     Abstract!blank, Abstract!become, Abstract!paperwork,
     Promise!Propose, Promise!Redirect, Promise!Approve, Promise!Unused,
     Promise!blank, Promise!become, Promise!paperwork
<1>2. \A p, q : Abstract!carry(p, q) => Promise!carry(p, q)
  BY DEF Abstract!carry, Abstract!free, Promise!carry, Promise!free
<1>3. \A t \in Id : Abstract!Move(t) \/ Abstract!Prepare(t) \/ Abstract!Copy(t) \/ Abstract!Restore(t)
                    => Promise!Move(t) \/ Promise!Prepare(t) \/ Promise!Copy(t) \/ Promise!Restore(t)
  BY <1>2 DEF Abstract!Move, Abstract!Prepare, Abstract!Copy, Abstract!Restore,
     Promise!Move, Promise!Prepare, Promise!Copy, Promise!Restore
<1>4. \A t \in Id : Abstract!Publish(t) \/ Abstract!Remove(t) \/ Abstract!Complete(t)
                    => Promise!Publish(t) \/ Promise!Remove(t) \/ Promise!Complete(t)
  BY DEF Abstract!Publish, Abstract!Remove, Abstract!Complete, Abstract!free,
     Abstract!become, Abstract!paperwork,
     Promise!Publish, Promise!Remove, Promise!Complete, Promise!free,
     Promise!become, Promise!paperwork
<1>5. \A t \in Id : Abstract!StartUndo(t) \/ Abstract!Undone(t) \/ Abstract!Abandon(t)
                    => Promise!StartUndo(t) \/ Promise!Undone(t) \/ Promise!Abandon(t)
  BY DEF Abstract!StartUndo, Abstract!Undone, Abstract!Abandon, Abstract!Closed,
     Abstract!blank, Abstract!free, Abstract!become, Abstract!paperwork,
     Promise!StartUndo, Promise!Undone, Promise!Abandon, Promise!Closed,
     Promise!blank, Promise!free, Promise!become, Promise!paperwork
<1>6. \A S \in SUBSET Id : Abstract!Forget(S) => Promise!Forget(S)
  BY DEF Abstract!Forget, Abstract!Closed, Abstract!blank, Abstract!paperwork,
     Promise!Forget, Promise!Closed, Promise!blank, Promise!paperwork
<1>7. Abstract!Others => Promise!Others
  BY DEF Abstract!Others, Promise!Others
<1>8. UNCHANGED Abstract!reviewVars => UNCHANGED Promise!reviewVars
  BY DEF Abstract!reviewVars, Promise!reviewVars
<1>9. Abstract!ReviewNext => Promise!ReviewNext
  BY <1>1, <1>3, <1>4, <1>5, <1>6, <1>7 DEF Abstract!ReviewNext, Promise!ReviewNext
<1> QED
  BY <1>8, <1>9

(***************************************************************************)
(* What ReviewedMove promises therefore holds of the service: in every step *)
(* that is not another program's, no complete content is lost, no name that *)
(* holds one is given another, and no name changes without an approved      *)
(* task, through errors, crashes and recovery.                              *)
(***************************************************************************)
THEOREM ReviewSafeTheorem == ASSUME Utf8Names, ~Interference PROVE Spec => Promise!ReviewSafe
<1>1. Promise!ReviewSpec => Promise!ReviewSafe
  BY Promise!ReviewedMoveSafe, PTL
<1>2. Abstract!ReviewInit => Promise!ReviewInit
  BY DEF Abstract!ReviewInit, Promise!ReviewInit, Abstract!Unused, Promise!Unused,
     Abstract!blank, Promise!blank
<1>3. Abstract!ReviewSpec => Promise!ReviewSpec
  BY <1>2, SameActions, PTL DEF Abstract!ReviewSpec, Promise!ReviewSpec
<1> QED
  BY <1>1, <1>3, ImplementsReviewedMoveTheorem, PTL DEF ImplementsReviewedMove
=============================================================================
