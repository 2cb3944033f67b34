------------------------------ MODULE MCIntake ------------------------------
(***************************************************************************)
(* An instance of the intake: f1 in the first watched root, f2 and the      *)
(* unfinished download f3 in the second; the name of f2 ends with a dot, so *)
(* its extension is empty.                                                  *)
(***************************************************************************)
EXTENDS Intake

CONSTANTS f1, f2, f3, a, b, pdf

Empty == "empty"

MCStartFiles == {File, {f1, f3}}
MCRoots == <<1, 2>>
MCRootOf == [f \in File |-> IF f = f1 THEN 1 ELSE 2]
MCChoice == [root : RootId, directory : Directory] \cup {NoChoice}
MCExtension == [f \in File |-> IF f = f2 THEN Empty ELSE pdf]
MCMime == [f \in File |-> None]
MCSourceDir == [f \in File |-> ""]
MCLower == [v \in {Empty, pdf} |-> v]
MCGlob == [p \in {"any"} |-> File]
MCValid == {pdf}

ByName(p, r) == [priority |-> p, predicates |-> {[kind |-> "filename_glob", value |-> "any"]},
                 destination |-> [root |-> r, directory |-> "."]]

MCStartRules == {<<ByName(1, a)>>, <<ByName(1, a), ByName(1, b)>>}
=============================================================================
