----------------------------- MODULE MCJournal -----------------------------
(* The journal alone, driven by an arbitrary caller. *)
EXTENDS Journal
=============================================================================
