----------------------------- MODULE MCWatcher -----------------------------
(***************************************************************************)
(* Instances of the watcher: f1 in the first watched root, the others in    *)
(* the second.                                                              *)
(***************************************************************************)
EXTENDS Watcher

CONSTANTS f1, f2, f3

MCStartFiles == {File}
MCRoots == <<1, 2>>
MCRootOf == [f \in File |-> IF f = f1 THEN 1 ELSE 2]
=============================================================================
