------------------------------- MODULE MCDesk -------------------------------
(* An instance of the review desk with model values as destinations. *)
EXTENDS Desk

CONSTANTS a, b
=============================================================================
