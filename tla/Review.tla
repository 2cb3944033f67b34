------------------------------- MODULE Review -------------------------------
(***************************************************************************)
(* The service as an implementation of ReviewedMove: what a reader of the   *)
(* user's folders and of the journal sees of it.                            *)
(***************************************************************************)
EXTENDS Service

HeldNow == [p \in Path |-> IF exists(p) THEN version[entry[p]] ELSE NoDigest]

Finished == {"ignored", "undone", "failed_safely", "needs_attention", "absent"}

PhaseNow(state) ==
    CASE state = "proposed" -> "open"
      [] state \in {"approved", "copying"} -> "approved"
      [] state \in {"published", "source_removed"} -> "published"
      [] state = "completed" -> "done"
      [] state = "undoing" -> "undoing"

(* The staging name belongs to the row as soon as it has a destination. *)
DraftNow(row, id) ==
    IF row.destination = NoPath THEN NoPath ELSE stage_path(id, parent(row.destination))

TaskNow(id) ==
    LET row == rows[id]
        blank(phase) == [phase |-> phase, from |-> NoPath, to |-> NoPath, draft |-> NoPath]
    IN
    IF id >= nextId THEN blank("none")
    ELSE IF row.state \in Finished THEN blank("closed")
    ELSE [phase |-> PhaseNow(row.state), from |-> row.source, to |-> row.destination,
          draft |-> DraftNow(row, id)]

Abstract == INSTANCE ReviewedMove WITH
    Task <- Id, Place <- Path, Content <- Version, Draft <- Torn, Nothing <- NoDigest,
    Nowhere <- NoPath,
    held <- HeldNow, task <- [id \in Id |-> TaskNow(id)], others <- userSteps

(***************************************************************************)
(* The service, with its journal, staging, errors, crashes and recovery,    *)
(* implements ReviewedMove, as long as other programs leave the files alone *)
(* while an operation runs (approve, undo, recover_without_guessing).       *)
(***************************************************************************)
ImplementsReviewedMove == Abstract!ReviewSpec
=============================================================================
