------------------------------- MODULE Paths -------------------------------
(***************************************************************************)
(* The values that the journal, the file system and the review queue share. *)
(* A path is a directory and a raw file name; the bytes of a file are       *)
(* abstracted to a version number, fresh for every write by the user.       *)
(***************************************************************************)
EXTENDS Integers

CONSTANTS
    Dir,          \* directories that can be enrolled as roots
    Name,         \* raw file names (byte strings)
    NoPath,       \* the empty token of a proposal without a destination
    MaxVersion    \* bound: how many versions of file content exist

ASSUME PathsAssumption ==
    /\ MaxVersion \in Nat
    /\ NoPath \notin Dir \X Name

Path == Dir \X Name

\* The folder and the last component of a path.
parent(p) == p[1]
file_name(p) == p[2]

(***************************************************************************)
(* A version stands for the content of a file together with its size and    *)
(* mtime.  Torn is the content of a partial copy, or of a copy that read a  *)
(* file while it was being rewritten.  A SHA-256 digest is the version it   *)
(* was computed from, since equal digests mean equal content.               *)
(***************************************************************************)
Version  == 0..MaxVersion
Torn     == 0
NoDigest == -1
Digest   == Version \cup {NoDigest}
=============================================================================
