------------------------------- MODULE Agent -------------------------------
(***************************************************************************)
(* The metadata agent of crates/sortinghat-agent: Adapter::classify starts  *)
(* the configured program, writes the request to its standard input, polls  *)
(* for its exit until a deadline, and reads its standard output until every *)
(* process that holds the pipe has closed it.  The program is external: it  *)
(* may answer anything, hang, or leave a descendant behind that keeps the   *)
(* pipe open.                                                               *)
(***************************************************************************)
EXTENDS Integers

CONSTANTS
    RootId,    \* ids that an answer can name
    NoRoot,    \* no destination
    Deadline   \* polls before the program is killed (30 seconds)

ASSUME AgentAssumption == NoRoot \notin RootId /\ Deadline \in Nat

VARIABLES
    phase,    \* where classify is
    allowed,  \* the destinations named in the request
    elapsed,  \* time since the request was written
    child,    \* the process that was started
    held,     \* whether a descendant of it holds the output pipe
    output,   \* what was written to the pipe
    outcome   \* what classify has returned

agentVars == <<phase, allowed, elapsed, child, held, output, outcome>>

(* accepted: a successful exit and an output that is not too large and is   *)
(* JSON of the right version, correlation id and reason length.  A program  *)
(* that writes more than the pipe holds does not exit, since nobody reads   *)
(* while it runs.                                                           *)
NoOutput == [accepted |-> FALSE, destination |-> NoRoot]
Output == [accepted : {TRUE}, destination : RootId \cup {NoRoot}] \cup {NoOutput}

Outcome == [result : {"none", "answer", "error"}, destination : RootId \cup {NoRoot}]
Pending == [result |-> "none", destination |-> NoRoot]
Failed  == [result |-> "error", destination |-> NoRoot]

AgentTypeOK ==
    /\ phase \in {"none", "write", "wait", "drain", "returned"}
    /\ allowed \subseteq RootId
    /\ elapsed \in 0..(Deadline + 1)
    /\ child \in {"none", "running", "exited"}
    /\ held \in BOOLEAN
    /\ output \in Output
    /\ outcome \in Outcome

AgentInit ==
    /\ phase = "none" /\ allowed = {} /\ elapsed = 0
    /\ child = "none" /\ held = FALSE /\ output = NoOutput
    /\ outcome = Pending

(* classify is over; what is left of the child is nobody's concern. *)
return(result) ==
    /\ phase' = "returned" /\ outcome' = result
    /\ elapsed' = 0 /\ child' = "none" /\ held' = FALSE /\ output' = NoOutput
    /\ UNCHANGED allowed

-----------------------------------------------------------------------------
(* Serialising, the size of the request or spawning the program can fail. *)
spawn(roots) ==
    /\ phase = "none"
    /\ allowed' = roots /\ UNCHANGED <<elapsed, held, output>>
    /\ \/ phase' = "write" /\ child' = "running" /\ UNCHANGED outcome
       \/ phase' = "returned" /\ outcome' = Failed /\ UNCHANGED child

(* The request fits the pipe.  Writing fails once nobody can read it. *)
write_request ==
    /\ phase = "write"
    /\ \/ /\ child = "running" \/ held
          /\ phase' = "wait" /\ UNCHANGED <<allowed, elapsed, child, held, output, outcome>>
       \/ return(Failed)

poll_exited ==
    /\ phase = "wait" /\ child = "exited"
    /\ phase' = "drain"
    /\ UNCHANGED <<allowed, elapsed, child, held, output, outcome>>

(* Wrong variant: the deadline is overlooked. *)
poll_again_for_ever ==
    /\ phase = "wait" /\ child = "running"
    /\ elapsed' = elapsed + 1 /\ elapsed <= Deadline
    /\ UNCHANGED <<phase, allowed, child, held, output, outcome>>

poll_again ==
    /\ phase = "wait" /\ child = "running" /\ elapsed < Deadline
    /\ elapsed' = elapsed + 1
    /\ UNCHANGED <<phase, allowed, child, held, output, outcome>>

(* Wrong variant: the program is waited for, not killed. *)
poll_timeout_waits ==
    /\ phase = "wait" /\ child = "exited" /\ elapsed >= Deadline
    /\ return(Failed)

poll_timeout ==
    /\ phase = "wait" /\ child = "running" /\ elapsed >= Deadline
    /\ return(Failed)

(* Only a destination of the request, or none, is an answer. *)
validated ==
    IF output.accepted /\ output.destination \in allowed \cup {NoRoot}
    THEN [result |-> "answer", destination |-> output.destination]
    ELSE Failed

(* wait_with_output returns at the end of the pipe. *)
read_output == phase = "drain" /\ ~held /\ return(validated)

(* The daemon is blocked in it: time goes on, past any deadline. *)
blocked ==
    /\ phase = "drain" /\ held /\ elapsed <= Deadline
    /\ elapsed' = elapsed + 1
    /\ UNCHANGED <<phase, allowed, child, held, output, outcome>>

-----------------------------------------------------------------------------
child_exits(o, h) ==
    /\ phase \in {"write", "wait"} /\ child = "running"
    /\ child' = "exited" /\ output' = o /\ held' = h
    /\ UNCHANGED <<phase, allowed, elapsed, outcome>>

pipe_closes ==
    /\ held /\ held' = FALSE
    /\ UNCHANGED <<phase, allowed, elapsed, child, output, outcome>>

(* The caller has taken the outcome, or the daemon died. *)
forget ==
    /\ phase' = "none" /\ allowed' = {} /\ elapsed' = 0
    /\ child' = "none" /\ held' = FALSE /\ output' = NoOutput
    /\ outcome' = Pending

classify_steps ==
    write_request \/ poll_exited \/ poll_timeout \/ read_output

-----------------------------------------------------------------------------
(***************************************************************************)
(* The 30-second bound: a classification outlasts its deadline only when    *)
(* the program has exited in time and a descendant of it has kept the       *)
(* output pipe open (the loop of classify, and wait_with_output after it).  *)
(***************************************************************************)
BoundedUnlessPipeHeld == elapsed > Deadline => phase = "drain" /\ child = "exited"
=============================================================================
