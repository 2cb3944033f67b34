----------------------------- MODULE MCService -----------------------------
(***************************************************************************)
(* Instances of the service.  Folder d2 is on another device than d1.  Root   *)
(* 1 watches d1 and is a destination too; root 2, when enrolled at the      *)
(* start, makes d2 a destination.                                           *)
(***************************************************************************)
EXTENDS Review

CONSTANTS d1, d2, n1, n2, n3, s1, s2

MCDeviceOf == [d \in Dir |-> IF d = d2 THEN 2 ELSE 1]

MCSameDevice == [d \in Dir |-> 1]

(* Every name is its own case-folded and its own lossy form. *)
MCFold  == [n \in Name |-> n]
MCLossy == [n \in Name |-> n]

MCStageName == [id \in Id |-> IF id = 1 THEN s1 ELSE s2]

WatchedRoot == [dir |-> d1, watched |-> TRUE, destination |-> TRUE]
TargetRoot(d) == [dir |-> d, watched |-> FALSE, destination |-> TRUE]

MCOneRoot  == [r \in RootId |-> IF r = 1 THEN WatchedRoot ELSE NoRootEntry]
MCTwoRoots == [r \in RootId |-> IF r = 1 THEN WatchedRoot
                                ELSE IF r = 2 THEN TargetRoot(d2) ELSE NoRootEntry]

MCOneFile  == {<<d1, n1>>}
MCTwoFiles == {<<d1, n1>>, <<d1, n2>>}

(* n3 is n2 in another case. *)
MCCaseFold == [n \in Name |-> IF n = n3 THEN n2 ELSE n]

(* n1 is not UTF-8: its lossy form is the different name n2. *)
MCNotUtf8 == [n \in Name |-> IF n = n1 THEN n2 ELSE n]
=============================================================================
