--------------------------- MODULE ReviewProofs ---------------------------
(***************************************************************************)
(* What an implementation of ReviewedMove gives its user, for every set of  *)
(* tasks, places and contents.                                              *)
(***************************************************************************)
EXTENDS ReviewedMove, TLAPS

(* Every name holds a content or nothing, every task is in some phase, and  *)
(* the steps of others are counted.                                         *)
ReviewTyped ==
    /\ held \in [Place -> Content \cup {Nothing}]
    /\ DOMAIN task = Task
    /\ others \in Nat

(* Complete content is at one name before and after the step, or at another. *)
Kept ==
    \A p \in Place : held[p] \notin {Nothing, Draft} =>
        /\ held'[p] \in {held[p], Nothing}
        /\ \E q \in Place : held'[q] = held[p]

(* Carrying a file to a free name keeps all content and the types. *)
LEMMA CarryKeeps ==
  ASSUME ReviewTyped, NEW p, NEW q, carry(p, q)
  PROVE  Kept /\ ReviewTyped'
<1>1. p \in Place /\ q \in Place /\ held[p] # Nothing /\ held[q] = Nothing /\ p # q
  BY DEF carry, free
<1>2. held' = [held EXCEPT ![p] = Nothing, ![q] = held[p]] /\ task' = task
      /\ others' = others
  BY DEF carry
<1>3. /\ held'[q] = held[p] /\ held'[p] = Nothing
      /\ \A x \in Place : x # p /\ x # q => held'[x] = held[x]
  BY <1>1, <1>2 DEF ReviewTyped
<1>4. Kept
  BY <1>1, <1>3 DEF Kept
<1>5. ReviewTyped'
  BY <1>1, <1>2 DEF ReviewTyped
<1> QED
  BY <1>4, <1>5

(* Paperwork touches no file. *)
LEMMA PaperworkKeeps ==
  ASSUME ReviewTyped, paperwork, DOMAIN task' = Task
  PROVE  Kept /\ ReviewTyped' /\ held' = held
  BY DEF ReviewTyped, paperwork, Kept

(* Preparing a draft overwrites at most an incomplete one. *)
LEMMA PrepareKeeps ==
  ASSUME ReviewTyped, NEW t \in Task, Prepare(t)
  PROVE  Kept /\ ReviewTyped'
<1>1. PICK c \in Content : held' = [held EXCEPT ![task[t].draft] = c]
  BY DEF Prepare
<1>2. task[t].draft \in Place /\ held[task[t].draft] \in {Nothing, Draft}
      /\ task' = task /\ others' = others
  BY DEF Prepare
<1>3. \A x \in Place : x # task[t].draft => held'[x] = held[x]
  BY <1>1, <1>2 DEF ReviewTyped
<1>4. Kept
  BY <1>2, <1>3 DEF Kept
<1>5. ReviewTyped'
  BY <1>1, <1>2 DEF ReviewTyped
<1> QED
  BY <1>4, <1>5

(* Removing the original leaves the same content at the destination. *)
LEMMA RemoveKeeps ==
  ASSUME ReviewTyped, NEW t \in Task, Remove(t)
  PROVE  Kept /\ ReviewTyped'
<1> DEFINE from == task[t].from
           to == task[t].to
<1>1. from \in Place /\ to \in Place /\ from # to /\ held[to] = held[from]
      /\ held' = [held EXCEPT ![from] = Nothing] /\ task' = task /\ others' = others
  BY DEF Remove
<1> HIDE DEF from, to
<1>2. /\ held'[from] = Nothing /\ held'[to] = held[from]
      /\ \A x \in Place : x # from => held'[x] = held[x]
  BY <1>1 DEF ReviewTyped
<1>3. Kept
  BY <1>1, <1>2 DEF Kept
<1>4. ReviewTyped'
  BY <1>1 DEF ReviewTyped
<1> QED
  BY <1>3, <1>4

(* Every step keeps the types and the promise. *)
LEMMA ReviewStepLemma ==
  ASSUME ReviewTyped, [ReviewNext]_reviewVars
  PROVE  ReviewTyped' /\ ReviewStep
<1> DEFINE Busy == \E t \in Task : task[t].phase \in {"approved", "published", "undoing"}
<1>0. ASSUME Kept, Busy \/ held' = held
      PROVE  ReviewStep
  BY <1>0 DEF Kept, ReviewStep
<1>1. ASSUME NEW t \in Task,
             Propose(t) \/ Redirect(t) \/ Approve(t) \/ Publish(t) \/ Complete(t)
             \/ StartUndo(t) \/ Undone(t) \/ Abandon(t)
      PROVE  ReviewTyped' /\ ReviewStep
  <2>1. paperwork
    BY <1>1 DEF Propose, Redirect, Approve, Publish, Complete, StartUndo, Undone, Abandon
  <2>2. DOMAIN task' = Task
    <3>0. DOMAIN task = Task
      BY DEF ReviewTyped
    <3>1. CASE Propose(t)
      BY <3>0, <3>1 DEF Propose
    <3>2. CASE Redirect(t)
      BY <3>0, <3>2 DEF Redirect
    <3>3. CASE Approve(t) \/ Publish(t) \/ Complete(t) \/ StartUndo(t)
      BY <3>0, <3>3 DEF Approve, Publish, Complete, StartUndo, become
    <3>4. CASE Undone(t) \/ Abandon(t)
      BY <3>0, <3>4 DEF Undone, Abandon
    <3> QED
      BY <1>1, <3>1, <3>2, <3>3, <3>4
  <2> QED
    BY <2>1, <2>2, <1>0, PaperworkKeeps
<1>2. ASSUME NEW t \in Task, Move(t) \/ Copy(t) \/ Restore(t)
      PROVE  ReviewTyped' /\ ReviewStep
  <2>1. Busy
    BY <1>2 DEF Move, Copy, Restore
  <2>2. PICK p, q : carry(p, q)
    BY <1>2 DEF Move, Copy, Restore
  <2> QED
    BY <2>1, <2>2, <1>0, CarryKeeps
<1>3. ASSUME NEW t \in Task, Prepare(t)
      PROVE  ReviewTyped' /\ ReviewStep
  <2>1. Busy
    BY <1>3 DEF Prepare
  <2> QED
    BY <2>1, <1>3, <1>0, PrepareKeeps
<1>4. ASSUME NEW t \in Task, Remove(t)
      PROVE  ReviewTyped' /\ ReviewStep
  <2>1. Busy
    BY <1>4 DEF Remove
  <2> QED
    BY <2>1, <1>4, <1>0, RemoveKeeps
<1>5. ASSUME NEW S \in SUBSET Task, Forget(S)
      PROVE  ReviewTyped' /\ ReviewStep
  <2>1. paperwork /\ DOMAIN task' = Task
    BY <1>5 DEF Forget
  <2> QED
    BY <2>1, <1>0, PaperworkKeeps
<1>6. ASSUME Others
      PROVE  ReviewTyped' /\ ReviewStep
  <2>1. others' # others /\ others' \in Nat
    BY <1>6 DEF Others, ReviewTyped
  <2> QED
    BY <1>6, <2>1 DEF Others, ReviewTyped, ReviewStep
<1>7. CASE UNCHANGED reviewVars
  <2>1. paperwork /\ DOMAIN task' = Task
    BY <1>7 DEF reviewVars, paperwork, ReviewTyped
  <2> QED
    BY <2>1, <1>0, PaperworkKeeps
<1> QED
  BY <1>1, <1>2, <1>3, <1>4, <1>5, <1>6, <1>7 DEF ReviewNext

(***************************************************************************)
(* Whatever implements ReviewedMove loses no complete content, gives no     *)
(* name that holds one another content, and touches no file without an      *)
(* approved task: what approve, undo and recovery promise the user.         *)
(***************************************************************************)
THEOREM ReviewedMoveSafe == ReviewSpec => ReviewSafe
<1>1. ReviewInit => ReviewTyped
  BY DEF ReviewInit, ReviewTyped
<1>2. ReviewTyped /\ [ReviewNext]_reviewVars => ReviewTyped' /\ ReviewStep
  BY ReviewStepLemma
<1>3. ReviewTyped /\ [ReviewNext]_reviewVars => [ReviewStep]_reviewVars
  BY <1>2
<1> QED
  BY <1>1, <1>2, <1>3, PTL DEF ReviewSpec, ReviewSafe
=============================================================================
