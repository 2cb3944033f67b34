---------------------------- MODULE ReviewedMove ----------------------------
(***************************************************************************)
(* What SortingHat promises about files, without journal, queue, inodes,    *)
(* staging, errors or crashes: a name of the user's folders changes only    *)
(* for a task that was approved, a file is removed only when its content    *)
(* is at the approved destination, and a task is finished only when the     *)
(* file is there and the original is not.                                   *)
(***************************************************************************)
EXTENDS Integers

CONSTANTS
    Task,     \* one task per proposal
    Place,    \* the names under which the user sees files
    Content,  \* what a file can hold
    Draft,    \* the content of a copy that is not complete
    Nothing,  \* a name that is free
    Nowhere   \* no place

VARIABLES
    held,   \* what each name holds
    task,   \* phase and paths of each task
    others  \* how many steps other programs have taken

reviewVars == <<held, task, others>>

(* draft is the name under which a copy for the task is prepared. *)
blank(phase) == [phase |-> phase, from |-> Nowhere, to |-> Nowhere, draft |-> Nowhere]
Unused == blank("none")
Closed == blank("closed")

free(p) == held[p] = Nothing

become(t, phase) == task' = [task EXCEPT ![t].phase = phase]

(* A step of the task that touches no file. *)
paperwork == UNCHANGED <<held, others>>

Propose(t) ==
    /\ task[t] = Unused
    /\ \E s \in Place, d, w \in Place \cup {Nowhere} :
          task' = [task EXCEPT ![t] = [phase |-> "open", from |-> s, to |-> d, draft |-> w]]
    /\ paperwork

Redirect(t) ==
    /\ task[t].phase = "open"
    /\ \E d, w \in Place : task' = [task EXCEPT ![t] = [@ EXCEPT !.to = d, !.draft = w]]
    /\ paperwork

Approve(t) == task[t].phase = "open" /\ become(t, "approved") /\ paperwork

(* A file goes from one name to another that was free. *)
carry(p, q) ==
    /\ p \in Place /\ q \in Place
    /\ ~free(p) /\ free(q)
    /\ held' = [held EXCEPT ![p] = Nothing, ![q] = held[p]]
    /\ UNCHANGED <<task, others>>

Move(t) == task[t].phase = "approved" /\ carry(task[t].from, task[t].to)

(* The draft is made and filled under a name that was free. *)
Prepare(t) ==
    LET w == task[t].draft IN
    /\ task[t].phase = "approved"
    /\ w \in Place /\ held[w] \in {Nothing, Draft}
    /\ \E c \in Content : held' = [held EXCEPT ![w] = c]
    /\ UNCHANGED <<task, others>>

(* The draft becomes the destination once it equals the original. *)
Copy(t) ==
    /\ task[t].phase = "approved"
    /\ task[t].from \in Place /\ held[task[t].draft] = held[task[t].from]
    /\ carry(task[t].draft, task[t].to)

Publish(t) ==
    /\ task[t].phase = "approved" /\ ~free(task[t].to)
    /\ become(t, "published") /\ paperwork

Remove(t) ==
    /\ task[t].phase = "published"
    /\ task[t].from \in Place /\ task[t].to \in Place /\ task[t].from # task[t].to
    /\ ~free(task[t].from) /\ held[task[t].to] = held[task[t].from]
    /\ held' = [held EXCEPT ![task[t].from] = Nothing]
    /\ UNCHANGED <<task, others>>

Complete(t) ==
    /\ task[t].phase = "published" /\ free(task[t].from) /\ ~free(task[t].to)
    /\ become(t, "done") /\ paperwork

StartUndo(t) == task[t].phase = "done" /\ become(t, "undoing") /\ paperwork

Restore(t) ==
    task[t].phase = "undoing" /\ \E p \in Place : carry(p, task[t].from)

Undone(t) ==
    /\ task[t].phase = "undoing" /\ ~free(task[t].from)
    /\ task' = [task EXCEPT ![t] = Closed] /\ paperwork

(* Ignored, or handed to the user with the files as they are. *)
Abandon(t) ==
    /\ task[t].phase \in {"open", "approved", "published", "undoing"}
    /\ task' = [task EXCEPT ![t] = Closed] /\ paperwork

(* Finished tasks are forgotten. *)
Forget(S) ==
    /\ \A t \in S : task[t].phase = "done"
    /\ task' = [t \in Task |-> IF t \in S THEN Closed ELSE task[t]]
    /\ paperwork

Others ==
    /\ others' = others + 1
    /\ held' \in [Place -> Content \cup {Nothing}]
    /\ UNCHANGED task

ReviewInit ==
    /\ held \in [Place -> Content \cup {Nothing}]
    /\ task = [t \in Task |-> Unused]
    /\ others = 0

ReviewNext ==
    \/ \E t \in Task :
          \/ Propose(t) \/ Redirect(t) \/ Approve(t)
          \/ Move(t) \/ Prepare(t) \/ Copy(t) \/ Publish(t) \/ Remove(t) \/ Complete(t)
          \/ StartUndo(t) \/ Restore(t) \/ Undone(t) \/ Abandon(t)
    \/ \E S \in SUBSET Task : Forget(S)
    \/ Others

ReviewSpec == ReviewInit /\ [][ReviewNext]_reviewVars

(***************************************************************************)
(* No complete content is lost, no name that holds one is given another,    *)
(* and nothing happens to a file without an approved task, in any step that *)
(* is not another program's.                                                *)
(***************************************************************************)
ReviewStep ==
    others' = others =>
        /\ \A p \in Place : held[p] \notin {Nothing, Draft} =>
              /\ held'[p] \in {held[p], Nothing}
              /\ \E q \in Place : held'[q] = held[p]
        /\ held' # held => \E t \in Task :
                              task[t].phase \in {"approved", "published", "undoing"}

ReviewSafe == [][ReviewStep]_reviewVars
=============================================================================
