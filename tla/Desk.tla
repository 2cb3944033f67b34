-------------------------------- MODULE Desk --------------------------------
(***************************************************************************)
(* The review desk: the plugin's service and widget, the command line       *)
(* client that carries each of their calls, another client in a terminal,   *)
(* and the daemon's request loop, which serves one connection at a time.    *)
(* Requests and answers can be lost in a crash of the daemon, cards can be  *)
(* out of date, and a client can connect and stay silent.  What a request   *)
(* does to the files is the Service module's concern; here it is what it    *)
(* does to a queue entry, to its journal row and to state.json.             *)
(***************************************************************************)
EXTENDS Integers, Sequences, FiniteSets

CONSTANTS
    MaxId,       \* bound: how many proposals are ever made
    Target,      \* destinations (folder and name) a proposal can have
    StartTarget, \* destinations of the proposal there is at the start
    Decision,    \* what is decided for a new file
    NoTarget,    \* no destination chosen yet
    PAGE,        \* cards in an answer to queue_list (100)
    FITS,        \* cards that fit into MAX_IPC_BYTES
    MaxActs,     \* bound: new files and requests that change something
    MaxFaults    \* bound: crashes and failed saves

ASSUME DeskAssumption ==
    /\ NoTarget \notin Target /\ StartTarget \cup Decision \subseteq Target \cup {NoTarget}
    /\ {MaxId, PAGE, FITS, MaxActs, MaxFaults} \subseteq Nat

Id == 1..MaxId

(* The plugin's processes, each a run of the client, and a terminal.  The   *)
(* plugin's list of roots, which no card depends on, is left out.           *)
Client == {"status", "queue", "action", "terminal"}

VARIABLES
    row,        \* the journal row of each proposal
    proposals,  \* the queue in the daemon's memory
    rules,      \* the destinations that rules were made for
    saved,      \* state.json
    pc,         \* where the daemon's loop is
    reply,      \* the answer about to be written
    backlog,    \* clients that are connected, in the order they connected
    due,        \* two seconds have passed since the last scan
    call,       \* the call each client is in
    queue,      \* the cards the widget shows
    awaitingReview,
    folderProposal, \* the card for which the folder dialog is open
    spent       \* how much of the bounds is used up

storeVars  == <<row, proposals, rules, saved>>
loopVars   == <<pc, reply, backlog, due>>
widgetVars == <<queue, awaitingReview, folderProposal>>
vars == <<storeVars, loopVars, call, widgetVars, spent>>

Absent  == [status |-> "absent", revision |-> 0, target |-> NoTarget]
NoCard  == [id |-> 0, status |-> "absent", revision |-> 0, target |-> NoTarget]
Nothing == [action |-> "none", card |-> NoCard, target |-> NoTarget]
NoReply == [ok |-> FALSE, count |-> 0, cards |-> {}]
NoCall  == [phase |-> "none", request |-> Nothing, answer |-> NoReply]

(* What the client prints when call fails, and the daemon's own error. *)
Unavailable == NoReply
Refused     == NoReply

awaiting == {id \in Id : proposals[id].status = "proposed"}

(* queue_list: the newest PAGE entries that are neither ignored nor undone. *)
visible == {id \in Id : proposals[id].status \notin {"absent", "ignored", "undone"}}
queue_list ==
    {[id |-> id, status |-> proposals[id].status, revision |-> proposals[id].revision,
      target |-> proposals[id].target] :
        id \in {i \in visible : Cardinality({j \in visible : j > i}) < PAGE}}

-----------------------------------------------------------------------------
(* An answer that is too long is no answer to the client. *)
received(answer) == IF Cardinality(answer.cards) > FITS THEN Unavailable ELSE answer

(* Wrong variant: a process of the plugin waits on after its answer. *)
exited_late(c, answer) ==
    IF c = "terminal" THEN NoCall ELSE [call[c] EXCEPT !.answer = received(answer)]

(* The process of client c has ended with the answer.  The plugin gets to   *)
(* know of it in a handler of its own; the terminal only prints it.         *)
exited(c, answer) ==
    IF c = "terminal" THEN NoCall
    ELSE [phase |-> "exited", request |-> call[c].request, answer |-> received(answer)]

(***************************************************************************)
(* The client: call connects, writes the request and reads the answer until *)
(* the connection ends.  Without a daemon connect fails.                    *)
(***************************************************************************)
calling(c, request) ==
    IF pc = "down"
    THEN call' = [call EXCEPT ![c] = exited(c, Unavailable)] /\ UNCHANGED backlog
    ELSE /\ call' = [call EXCEPT ![c] = [phase |-> "sent", request |-> request,
                                         answer |-> NoReply]]
         /\ backlog' = Append(backlog, c)

running(c) == call[c].phase # "none"

act == spent.acts < MaxActs /\ spent' = [spent EXCEPT !.acts = @ + 1]
fault == spent.faults < MaxFaults /\ spent' = [spent EXCEPT !.faults = @ + 1]

-----------------------------------------------------------------------------
(***************************************************************************)
(* The plugin's service.  refresh: status, then the queue.                  *)
(***************************************************************************)
plain(action) == [Nothing EXCEPT !.action = action]

refresh ==
    /\ ~running("status") /\ ~running("queue") /\ ~running("action")
    /\ calling("status", plain("status"))
    /\ UNCHANGED <<storeVars, pc, reply, due, widgetVars, spent>>

(* Wrong variant: an empty queue is not fetched. *)
status_exited_if_awaiting ==
    LET answer == call["status"].answer IN
    /\ call["status"].phase = "exited"
    /\ awaitingReview' = answer.count
    /\ LET done == [call EXCEPT !["status"] = NoCall] IN
       IF answer.ok /\ answer.count > 0 /\ pc # "down"
       THEN /\ call' = [done EXCEPT !["queue"] =
                   [phase |-> "sent", request |-> plain("queue_list"), answer |-> NoReply]]
            /\ backlog' = Append(backlog, "queue")
       ELSE call' = done /\ UNCHANGED backlog
    /\ UNCHANGED <<storeVars, pc, reply, due, queue, folderProposal, spent>>

(* onExited of statusProcess: a failure counts nothing and keeps the cards. *)
status_exited ==
    LET answer == call["status"].answer
        next == [phase |-> IF pc = "down" THEN "exited" ELSE "sent",
                 request |-> plain("queue_list"),
                 answer |-> IF pc = "down" THEN Unavailable ELSE NoReply]
    IN
    /\ call["status"].phase = "exited"
    /\ awaitingReview' = IF answer.ok THEN answer.count ELSE 0
    /\ call' = [call EXCEPT !["status"] = NoCall,
                            !["queue"] = IF answer.ok THEN next ELSE @]
    /\ backlog' = IF answer.ok /\ pc # "down" THEN Append(backlog, "queue") ELSE backlog
    /\ UNCHANGED <<storeVars, pc, reply, due, queue, folderProposal, spent>>

(* onExited of queueProcess: a failure keeps the cards. *)
queue_exited ==
    LET answer == call["queue"].answer IN
    /\ call["queue"].phase = "exited"
    /\ queue' = IF answer.ok THEN answer.cards ELSE queue
    /\ call' = [call EXCEPT !["queue"] = NoCall]
    /\ UNCHANGED <<storeVars, loopVars, awaitingReview, folderProposal, spent>>

action_exited ==
    /\ call["action"].phase = "exited"
    /\ call' = [call EXCEPT !["action"] = NoCall]
    /\ UNCHANGED <<storeVars, loopVars, queue, awaitingReview, folderProposal, spent>>

(* run: one action at a time, whatever else is running. *)
run(request) == act /\ ~running("action") /\ calling("action", request)

-----------------------------------------------------------------------------
(* The widget: the buttons of a card send the card's revision. *)
offered(card) ==
    CASE card.status = "proposed" ->
            {"proposal_ignore"} \cup
            (IF card.target = NoTarget THEN {} ELSE {"proposal_approve", "rule_create"})
      [] card.status = "completed" -> {"undo"}
      [] OTHER -> {}

click(card, action) ==
    /\ card \in queue /\ action \in offered(card)
    /\ run([action |-> action, card |-> card, target |-> NoTarget])
    /\ UNCHANGED <<storeVars, pc, reply, due, widgetVars>>

rename(card, target) ==
    /\ card \in queue /\ card.status = "proposed" /\ card.target # NoTarget
    /\ run([action |-> "edit", card |-> card, target |-> target])
    /\ UNCHANGED <<storeVars, pc, reply, due, widgetVars>>

(* The dialog remembers the card; the cards may change while it is open. *)
open_folder_dialog(card) ==
    /\ card \in queue /\ card.status = "proposed" /\ folderProposal = NoCard
    /\ folderProposal' = card
    /\ UNCHANGED <<storeVars, loopVars, call, queue, awaitingReview, spent>>

(* When an action is still running the choice is dropped. *)
choose_folder(target) ==
    /\ folderProposal # NoCard /\ folderProposal' = NoCard
    /\ IF running("action") THEN UNCHANGED <<call, backlog, spent>>
       ELSE run([action |-> "edit", card |-> folderProposal,
                 target |-> target])
    /\ UNCHANGED <<storeVars, pc, reply, due, queue, awaitingReview>>

-----------------------------------------------------------------------------
(* The terminal: reads as often as it likes, edits what it has just read,   *)
(* sends what the daemon refuses or drops, or says nothing.                 *)
terminal_reads ==
    /\ ~running("terminal")
    /\ calling("terminal", plain("status"))
    /\ UNCHANGED <<storeVars, pc, reply, due, widgetVars, spent>>

terminal_acts ==
    /\ ~running("terminal") /\ act
    /\ \/ \E card \in queue_list, target \in Target :
             calling("terminal", [action |-> "edit", card |-> card,
                                  target |-> target])
       \/ \E action \in {"invalid", "oversized", "silent"} :
             calling("terminal", plain(action))
    /\ UNCHANGED <<storeVars, pc, reply, due, widgetVars>>

-----------------------------------------------------------------------------
(***************************************************************************)
(* The daemon's loop: one connection, then a scan if one is due.            *)
(***************************************************************************)
(* accept takes the connection that has waited longest. *)
serving == backlog[1]

(* The loop has accepted a connection, and its request is there to be read. *)
handling == pc = "accept" /\ backlog # <<>>

(* scan_once may find a new file; its own failures are in Intake. *)
scan_once ==
    \/ UNCHANGED <<row, proposals, saved, spent>>
    \/ \E id \in Id, target \in Decision :
          /\ act /\ due /\ row[id] = Absent
          /\ \A i \in Id : i < id => row[i] # Absent
          /\ row' = [row EXCEPT ![id] =
                        [status |-> "proposed", revision |-> 1, target |-> target]]
          /\ proposals' = [proposals EXCEPT ![id] = row'[id]]
          /\ saved' = proposals'

(* Wrong variant: connections are taken until there is none. *)
turn_when_idle ==
    /\ \/ pc = "handled" /\ UNCHANGED <<due, row, proposals, saved, spent>>
       \/ pc = "accept" /\ backlog = <<>> /\ due /\ due' = FALSE /\ scan_once
    /\ pc' = "accept"
    /\ UNCHANGED <<rules, reply, backlog, call, widgetVars>>

(* Nobody has connected, or the one who had has been served: a scan, if it  *)
(* is due, and the loop starts again.                                       *)
turn ==
    /\ pc = "handled" \/ (pc = "accept" /\ backlog = <<>> /\ due)
    /\ pc' = "accept" /\ due' = FALSE
    /\ scan_once
    /\ UNCHANGED <<rules, reply, backlog, call, widgetVars>>

time_passes ==
    /\ ~due /\ pc # "down" /\ due' = TRUE
    /\ UNCHANGED <<storeVars, pc, reply, backlog, call, widgetVars, spent>>

(* What was only read, or refused, is answered at once. *)
answered(response) ==
    /\ pc' = "handled"
    /\ call' = [call EXCEPT ![serving] = exited(serving, response)]
    /\ backlog' = Tail(backlog)

(* The silent client goes away at last, and the daemon reads the end. *)
hang_up ==
    /\ handling /\ call[serving].request.action = "silent"
    /\ answered(Unavailable)
    /\ UNCHANGED <<storeVars, reply, due, widgetVars, spent>>

(* Wrong variant: the connection is kept open after the error. *)
handle_oversized_kept ==
    /\ handling /\ call[serving].request.action = "oversized"
    /\ pc' = "handled" /\ backlog' = Tail(backlog)
    /\ UNCHANGED <<storeVars, reply, due, call, widgetVars, spent>>

handle_oversized ==
    /\ handling /\ call[serving].request.action = "oversized"
    /\ answered(Unavailable)
    /\ UNCHANGED <<storeVars, reply, due, widgetVars, spent>>

ok == [NoReply EXCEPT !.ok = TRUE]

dispatch_read ==
    LET request == call[serving].request IN
    /\ handling
    /\ \/ /\ request.action = "status"
          /\ answered([ok EXCEPT !.count = Cardinality(awaiting)])
       \/ request.action = "queue_list" /\ answered([ok EXCEPT !.cards = queue_list])
       \/ request.action = "invalid" /\ answered(Refused)
    /\ UNCHANGED <<storeVars, reply, due, widgetVars, spent>>

answering(response) == pc' = "answer" /\ reply' = response

(* What changes the store is saved before it is answered. *)
saving == pc' = "save" /\ UNCHANGED <<reply, backlog, due, call, widgetVars, spent>>

(* create_rule_from_proposal: any revision, whatever the card showed. *)
dispatch_rule ==
    LET request == call[serving].request IN
    /\ handling /\ request.action = "rule_create"
    /\ proposals[request.card.id].target # NoTarget
    /\ rules' = rules \cup {proposals[request.card.id].target}
    /\ saving /\ UNCHANGED <<row, proposals, saved>>

(* Wrong variant: only the queue's revision is compared. *)
current_in_queue(card, status) ==
    /\ proposals[card.id].revision = card.revision
    /\ row[card.id].status = status

(* proposal_index, and the journal's own check of revision and state. *)
current(card, status) ==
    /\ proposals[card.id].revision = card.revision
    /\ row[card.id].revision = card.revision /\ row[card.id].status = status

(* choose_destination, choose_destination_path and rename. *)
dispatch_edit ==
    LET request == call[serving].request
        card == request.card
        edited(entry) == [status |-> entry.status, target |-> request.target,
                          revision |-> row[card.id].revision + 1]
    IN
    /\ handling /\ request.action = "edit" /\ current(card, "proposed")
    /\ row' = [row EXCEPT ![card.id] = edited(row[card.id])]
    /\ proposals' = [proposals EXCEPT ![card.id] = edited(proposals[card.id])]
    /\ saving /\ UNCHANGED <<rules, saved>>

(* The journal row and the queue entry settle together. *)
settled(id, status) ==
    LET settle(entry) == [status |-> status, target |-> entry.target,
                          revision |-> row[id].revision + 1]
    IN  /\ row' = [row EXCEPT ![id] = settle(row[id])]
        /\ proposals' = [proposals EXCEPT ![id] = settle(proposals[id])]

dispatch_ignore ==
    LET request == call[serving].request IN
    /\ handling /\ request.action = "proposal_ignore"
    /\ current(request.card, "proposed")
    /\ settled(request.card.id, "ignored")
    /\ saving /\ UNCHANGED <<rules, saved>>

(* The move, or its undoing, succeeds. *)
dispatch_move ==
    LET request == call[serving].request IN
    /\ handling
    /\ \/ /\ request.action = "proposal_approve" /\ current(request.card, "proposed")
          /\ proposals[request.card.id].target # NoTarget
          /\ settled(request.card.id, "completed")
       \/ /\ request.action = "undo" /\ current(request.card, "completed")
          /\ settled(request.card.id, "undone")
    /\ saving /\ UNCHANGED <<rules, saved>>

(* It fails on the way: the row says where, and the error is all there is.  *)
(* The revision of an approval is in the queue by then, that of an undo not. *)
dispatch_move_fails ==
    LET request == call[serving].request
        id == request.card.id
        again(entry, status) == [status |-> status, target |-> entry.target,
                                 revision |-> entry.revision + 1]
    IN
    /\ handling
    /\ \/ /\ request.action = "proposal_approve" /\ current(request.card, "proposed")
          /\ proposals[id].target # NoTarget
          /\ row' = [row EXCEPT ![id] = again(row[id], "approved")]
          /\ proposals' = [proposals EXCEPT ![id] = again(proposals[id], "proposed")]
       \/ /\ request.action = "undo" /\ current(request.card, "completed")
          /\ row' = [row EXCEPT ![id] = again(row[id], "undoing")] /\ UNCHANGED proposals
    /\ answering(Refused) /\ fault
    /\ UNCHANGED <<rules, saved, backlog, due, call, widgetVars>>

(* A stale revision, a status that does not allow it, no destination. *)
dispatch_refused ==
    LET request == call[serving].request
        card == request.card
        target == proposals[card.id].target
    IN
    /\ handling
    /\ \/ request.action \in {"edit", "proposal_ignore"} /\ ~current(card, "proposed")
       \/ /\ request.action = "proposal_approve"
          /\ ~current(card, "proposed") \/ target = NoTarget
       \/ request.action = "undo" /\ ~current(card, "completed")
       \/ request.action = "rule_create" /\ target = NoTarget
    /\ answered(Refused)
    /\ UNCHANGED <<storeVars, reply, due, widgetVars, spent>>

(* state.json is written; if that fails, memory keeps what was done. *)
save ==
    /\ pc = "save"
    /\ \/ /\ saved' = proposals
          /\ answering(ok) /\ UNCHANGED spent
       \/ UNCHANGED saved /\ answering(Refused) /\ fault
    /\ UNCHANGED <<row, proposals, rules, backlog, due, call, widgetVars>>

answer ==
    /\ pc = "answer" /\ answered(reply) /\ reply' = NoReply
    /\ UNCHANGED <<storeVars, due, widgetVars, spent>>

-----------------------------------------------------------------------------
(* Every connection ends; each client sees the end of its own. *)
crash ==
    /\ pc # "down" /\ fault
    /\ pc' = "down" /\ reply' = NoReply /\ backlog' = <<>>
    /\ due' = FALSE
    /\ proposals' = saved
    /\ call' = [c \in Client |-> IF call[c].phase = "sent"
                   THEN exited(c, Unavailable)
                   ELSE call[c]]
    /\ UNCHANGED <<row, rules, saved, widgetVars>>

(* The socket is there before Service::open has recovered the journal. *)
bind ==
    /\ pc = "down" /\ pc' = "opening"
    /\ UNCHANGED <<storeVars, reply, backlog, due, call, widgetVars, spent>>

(* Recovery settles the rows that were interrupted. *)
open ==
    LET interrupted == {id \in Id : row[id].status \in {"approved", "undoing"}}
        recovered(entry, id) == [status |-> "needs_attention", target |-> entry.target,
                                 revision |-> row[id].revision + 1]
    IN
    /\ pc = "opening" /\ pc' = "accept"
    /\ row' = [id \in Id |-> IF id \in interrupted THEN recovered(row[id], id) ELSE row[id]]
    /\ proposals' = [id \in Id |-> IF id \in interrupted THEN recovered(proposals[id], id)
                                   ELSE proposals[id]]
    /\ saved' = proposals'
    /\ UNCHANGED <<rules, reply, backlog, due, call, widgetVars, spent>>

-----------------------------------------------------------------------------
(* The daemon has just been started, with one proposal from before. *)
Init ==
    /\ \E target \in StartTarget :
          row = [id \in Id |-> IF id = 1
                    THEN [status |-> "proposed", revision |-> 1, target |-> target]
                    ELSE Absent]
    /\ proposals = row /\ rules = {}
    /\ saved = proposals
    /\ pc = "opening" /\ reply = NoReply /\ backlog = <<>> /\ due = FALSE
    /\ call = [c \in Client |-> NoCall]
    /\ queue = {} /\ awaitingReview = 0
    /\ folderProposal = NoCard
    /\ spent = [acts |-> 0, faults |-> 0]

Loop ==
    \/ turn
    \/ handle_oversized \/ dispatch_read \/ dispatch_rule
    \/ dispatch_edit \/ dispatch_ignore \/ dispatch_move \/ dispatch_move_fails
    \/ dispatch_refused \/ save \/ answer \/ open

Exited == status_exited \/ queue_exited \/ action_exited

Clicks ==
    \/ \E card \in queue : \/ \E action \in offered(card) : click(card, action)
                           \/ \E target \in Target : rename(card, target)
                           \/ open_folder_dialog(card)
    \/ \E target \in Target : choose_folder(target)

Next ==
    \/ Loop \/ Exited \/ Clicks \/ refresh \/ terminal_reads \/ terminal_acts
    \/ hang_up \/ time_passes \/ crash \/ bind

(***************************************************************************)
(* The daemon runs, and is restarted (Restart=on-failure); processes end    *)
(* and the plugin's handlers run; its timer fires while nothing is running; *)
(* a silent client hangs up at last.  Nobody has to click or to read.       *)
(***************************************************************************)
Spec ==
    /\ Init /\ [][Next]_vars
    /\ WF_vars(Loop) /\ WF_vars(bind) /\ WF_vars(time_passes) /\ WF_vars(hang_up)
    /\ WF_vars(status_exited) /\ WF_vars(queue_exited)
    /\ WF_vars(action_exited) /\ WF_vars(refresh)

-----------------------------------------------------------------------------
Entry == [status : {"absent", "proposed", "approved", "completed", "undoing", "undone",
                    "ignored", "needs_attention"},
          revision : Nat, target : Target \cup {NoTarget}]

DeskTypeOK ==
    /\ row \in [Id -> Entry] /\ proposals \in [Id -> Entry]
    /\ saved \in [Id -> Entry] /\ due \in BOOLEAN
    /\ rules \subseteq Target
    /\ pc \in {"down", "opening", "accept", "handled", "save", "answer"}
    /\ pc \in {"save", "answer"} => backlog # <<>>
    /\ \A i, j \in 1..Len(backlog) : backlog[i] = backlog[j] => i = j
    /\ \A c \in Client : call[c].phase = "sent" <=>
          \E i \in 1..Len(backlog) : backlog[i] = c

(***************************************************************************)
(* What a request does is what its sender saw: whenever a request changes a *)
(* proposal's row, the row still has the destination, the revision and the  *)
(* status of the card the request was made from, although cards are fetched *)
(* while actions run, others edit, answers are lost and state.json lags     *)
(* behind the journal after a crash (run, proposal_index, the journal's     *)
(* revision check).                                                         *)
(***************************************************************************)
ActsAsShown ==
    [][\A id \in Id : (handling /\ row'[id] # row[id]) =>
          LET card == call[serving].request.card IN
          /\ card.id = id
          /\ row[id] = [status |-> card.status, revision |-> card.revision,
                        target |-> card.target]]_vars

(***************************************************************************)
(* A rule is made for the destination that the card showed when "Create     *)
(* rule" was clicked (SPEC.md:52 "Every JSON boundary is [...] revision     *)
(* checked"; create_rule_from_proposal).                                    *)
(***************************************************************************)
RuleAsShown ==
    [][\A target \in rules' \ rules : call[serving].request.card.target = target]_vars

(***************************************************************************)
(* A due scan is run, however fast clients call, and even after a client    *)
(* has connected and said nothing, provided that it hangs up (the loop of   *)
(* sortinghatd).                                                            *)
(***************************************************************************)
ScanRecurs == due ~> ~due

(***************************************************************************)
(* Every call ends: with an answer, or with the end of the connection when  *)
(* the daemon dies or drops it (accept, handle, call).                      *)
(***************************************************************************)
CallsEnd == \A c \in Client : call[c].phase = "sent" ~> call[c].phase # "sent"

(***************************************************************************)
(* The widget catches up: once nobody changes the queue any more, it shows  *)
(* the daemon's queue and its count, whatever failed before, provided that  *)
(* the list fits into an answer (refresh and the onExited handlers).        *)
(***************************************************************************)
WidgetCatchesUp ==
    <>[](Cardinality(queue_list) <= FITS =>
            queue = queue_list /\ awaitingReview = Cardinality(awaiting))
=============================================================================
