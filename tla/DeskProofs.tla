----------------------------- MODULE DeskProofs -----------------------------
(***************************************************************************)
(* A request acts on what its sender saw, for every number of proposals,    *)
(* destinations, requests, crashes and failed saves.                        *)
(***************************************************************************)
EXTENDS Desk, TLAPS

(***************************************************************************)
(* A card is honest if it is as the row is, unless the row has a newer      *)
(* revision or has been interrupted.                                        *)
(***************************************************************************)
Honest(card) ==
    /\ card.id \in Id /\ card.revision \in Nat
    /\ card.revision <= row[card.id].revision
    /\ card.revision = row[card.id].revision /\ row[card.id].status \in {"proposed", "completed"}
          => card.status = row[card.id].status /\ card.target = row[card.id].target

(* The card that an entry of the queue is shown as. *)
CardOf(id, entry) ==
    [id |-> id, status |-> entry.status, revision |-> entry.revision, target |-> entry.target]

Changing == {"edit", "proposal_ignore", "proposal_approve", "undo", "rule_create"}

(* The client is in no call, or in one with an honest card, and an answer   *)
(* that has come for it shows honest cards.                                 *)
HonestCall(it) ==
    /\ it.request.action \in Changing => Honest(it.request.card)
    /\ it.request.action = "edit" => it.request.target \in Target
    /\ \A card \in it.answer.cards : Honest(card)

StoreOK ==
    /\ row \in [Id -> Entry] /\ proposals \in [Id -> Entry] /\ saved \in [Id -> Entry]
    /\ \A id \in Id : Honest(CardOf(id, proposals[id])) /\ Honest(CardOf(id, saved[id]))

CallsOK ==
    /\ DOMAIN call = Client /\ backlog \in Seq(Client) /\ reply.cards = {}
    /\ \A c \in Client : HonestCall(call[c])

WidgetOK ==
    /\ \A card \in queue : Honest(card)
    /\ folderProposal = NoCard \/ Honest(folderProposal)

(* Whoever is to be answered is still connected. *)
AnsweringOK == pc \in {"save", "answer"} => backlog # <<>>

DeskInv == StoreOK /\ CallsOK /\ WidgetOK /\ AnsweringOK

-----------------------------------------------------------------------------
(* No step takes a revision back, and a row that changes gets a new one. *)
RowsGrow ==
    \A id \in Id : /\ row'[id].revision \in Nat /\ row[id].revision \in Nat
                   /\ row'[id] = row[id] \/ row[id].revision < row'[id].revision

(* The card is honest about the row after the step. *)
StillHonest(card) ==
    /\ card.id \in Id /\ card.revision \in Nat
    /\ card.revision <= row'[card.id].revision
    /\ card.revision = row'[card.id].revision /\ row'[card.id].status \in {"proposed", "completed"}
          => card.status = row'[card.id].status /\ card.target = row'[card.id].target

(* An honest card stays honest: a row only changes to a newer revision. *)
LEMMA HonestStays ==
  ASSUME RowsGrow, NEW card, Honest(card)
  PROVE  StillHonest(card)
  BY DEF RowsGrow, Honest, StillHonest

(* What any step does to the store, to the calls and to the widget. *)
StoreStep ==
    /\ row' \in [Id -> Entry] /\ proposals' \in [Id -> Entry] /\ saved' \in [Id -> Entry]
    /\ RowsGrow
    /\ \A id \in Id : \/ proposals'[id] = proposals[id] \/ proposals'[id] = saved[id]
                      \/ StillHonest(CardOf(id, proposals'[id]))
    /\ \A id \in Id : \/ saved'[id] = saved[id] \/ saved'[id] = proposals[id]
                      \/ saved'[id] = proposals'[id]

GoodCall(it) ==
    \/ \E c \in Client : /\ it.request = call[c].request \/ it.request.action \notin Changing
                         /\ it.answer = call[c].answer \/ it.answer.cards = {}
    \/ HonestCall(it)

CallStep ==
    /\ DOMAIN call' = Client /\ backlog' \in Seq(Client) /\ reply'.cards = {}
    /\ \A c \in Client : GoodCall(call'[c])

WidgetStep ==
    /\ \A card \in queue' : Honest(card)
    /\ folderProposal' = NoCard \/ Honest(folderProposal')

(* Such a step preserves the invariant. *)
LEMMA DeskStepOK ==
  ASSUME DeskInv, StoreStep, CallStep, WidgetStep
  PROVE  StoreOK' /\ CallsOK' /\ WidgetOK'
<1>1. \A card : Honest(card) => StillHonest(card)
  BY HonestStays DEF StoreStep
<1>2. \A id \in Id : /\ Honest(CardOf(id, proposals[id]))
                     /\ Honest(CardOf(id, saved[id]))
  BY DEF DeskInv, StoreOK
<1>3. \A id \in Id : StillHonest(CardOf(id, proposals'[id]))
  BY <1>1, <1>2 DEF StoreStep
<1>4. \A id \in Id : StillHonest(CardOf(id, saved'[id]))
  BY <1>1, <1>2, <1>3 DEF StoreStep
<1>5. StoreOK'
  BY <1>3, <1>4 DEF StoreStep, StoreOK, Honest, StillHonest
<1>6. ASSUME NEW c \in Client
      PROVE  /\ call'[c].request.action \in Changing => StillHonest(call'[c].request.card)
             /\ call'[c].request.action = "edit" => call'[c].request.target \in Target
             /\ \A card \in call'[c].answer.cards : StillHonest(card)
  <2>1. \A d \in Client : HonestCall(call[d])
    BY DEF DeskInv, CallsOK
  <2>2. GoodCall(call'[c])
    BY DEF CallStep
  <2> QED
    BY <1>1, <2>1, <2>2 DEF GoodCall, HonestCall, Changing
<1>7. CallsOK'
  BY <1>6 DEF CallStep, CallsOK, HonestCall, Honest, StillHonest
<1>8. WidgetOK'
  <2>1. \A card \in queue' : StillHonest(card)
    BY <1>1 DEF WidgetStep
  <2>2. folderProposal' = NoCard \/ StillHonest(folderProposal')
    BY <1>1 DEF WidgetStep
  <2> QED
    BY <2>1, <2>2 DEF WidgetOK, Honest, StillHonest
<1> QED
  BY <1>5, <1>7, <1>8

-----------------------------------------------------------------------------
(* The store: most steps leave it alone. *)
LEMMA StoreKept ==
  ASSUME StoreOK, UNCHANGED <<row, proposals>>, saved' = saved \/ saved' = proposals
  PROVE  StoreStep
<1>1. \A id \in Id : row[id].revision \in Nat
  BY DEF StoreOK, Entry
<1> QED
  BY <1>1 DEF StoreOK, StoreStep, RowsGrow

(* Every change of a proposal writes an entry one revision after the one it replaces. *)
LEMMA RevisedEntry ==
  ASSUME NEW old \in Entry, NEW target \in Target \cup {NoTarget},
         NEW status \in {"proposed", "approved", "completed", "undoing", "undone", "ignored"},
         NEW e, e = [status |-> status, target |-> target, revision |-> old.revision + 1]
  PROVE  /\ e \in Entry /\ e.status = status
         /\ e.revision = old.revision + 1 /\ old.revision < e.revision
<1>1. old.revision \in Nat
  BY DEF Entry
<1>2. old.revision + 1 \in Nat /\ old.revision < old.revision + 1
  BY <1>1
<1>3. e.status = status /\ e.revision = old.revision + 1
  OBVIOUS
<1>4. e \in Entry
  BY <1>2 DEF Entry
<1> QED
  BY <1>2, <1>3, <1>4

(* One entry changes in the journal and in the queue, to a new revision. *)
LEMMA EntryChanged ==
  ASSUME StoreOK, NEW id \in Id, NEW r \in Entry, NEW p \in Entry,
         row' = [row EXCEPT ![id] = r], proposals' = [proposals EXCEPT ![id] = p],
         row[id].revision < r.revision, p.revision = r.revision,
         r.status \in {"proposed", "completed"} => p.status = r.status /\ p.target = r.target,
         saved' = saved \/ saved' = proposals'
  PROVE  StoreStep
<1>1. /\ row \in [Id -> Entry] /\ proposals \in [Id -> Entry] /\ saved \in [Id -> Entry]
      /\ r.revision \in Nat /\ \A i \in Id : row[i].revision \in Nat
  BY DEF StoreOK, Entry
<1>2. /\ row' \in [Id -> Entry] /\ proposals' \in [Id -> Entry] /\ saved' \in [Id -> Entry]
      /\ row'[id] = r /\ proposals'[id] = p
      /\ \A i \in Id : i # id => row'[i] = row[i] /\ proposals'[i] = proposals[i]
  BY <1>1
<1>3. RowsGrow
  BY <1>1, <1>2 DEF RowsGrow
<1>4. StillHonest(CardOf(id, proposals'[id]))
  BY <1>1, <1>2 DEF StillHonest, CardOf
<1> QED
  BY <1>2, <1>3, <1>4 DEF StoreStep

(* Whoever is served has sent an honest card, if its request changes things. *)
LEMMA ServedHonest ==
  ASSUME CallsOK, handling, call[serving].request.action \in Changing
  PROVE  /\ Honest(call[serving].request.card)
         /\ call[serving].request.action = "edit" => call[serving].request.target \in Target
<1>1. serving \in Client
  BY DEF CallsOK, handling, serving
<1> QED
  BY <1>1 DEF CallsOK, HonestCall

(* A card that passes the checks is as the row and as the queue entry. *)
LEMMA CurrentIsShown ==
  ASSUME StoreOK, NEW card, Honest(card), NEW status \in {"proposed", "completed"},
         current(card, status)
  PROVE  /\ card.id \in Id /\ row[card.id] \in Entry
         /\ row[card.id] = [status |-> card.status, revision |-> card.revision,
                            target |-> card.target]
         /\ proposals[card.id] = row[card.id] /\ row[card.id].status = status
<1>1. card.id \in Id /\ row[card.id] \in Entry /\ proposals[card.id] \in Entry
      /\ Honest(CardOf(card.id, proposals[card.id]))
  BY DEF Honest, StoreOK
<1>2. card.status = row[card.id].status /\ card.target = row[card.id].target
      /\ card.revision = row[card.id].revision /\ row[card.id].status = status
  BY DEF Honest, current
<1>3. proposals[card.id].revision = row[card.id].revision
  BY DEF current
<1>4. proposals[card.id].status = row[card.id].status
      /\ proposals[card.id].target = row[card.id].target
  BY <1>1, <1>2, <1>3 DEF Honest, CardOf
<1>5. ASSUME NEW e \in Entry
      PROVE  e = [status |-> e.status, revision |-> e.revision, target |-> e.target]
  BY DEF Entry
<1> QED
  BY <1>1, <1>2, <1>3, <1>4, <1>5

(* Requests that change an entry. *)
LEMMA DispatchStoreStep ==
  ASSUME StoreOK, CallsOK,
         dispatch_edit \/ dispatch_ignore \/ dispatch_move \/ dispatch_move_fails
  PROVE  StoreStep
<1> DEFINE request == call[serving].request
           card == request.card
           id == card.id
<1>0. row \in [Id -> Entry] /\ proposals \in [Id -> Entry]
  BY DEF StoreOK
<1>1. ASSUME NEW status \in {"proposed", "completed"}, current(card, status), Honest(card),
             NEW e \in Entry, e.revision = row[id].revision + 1,
             row' = [row EXCEPT ![id] = e], proposals' = [proposals EXCEPT ![id] = e],
             UNCHANGED saved
      PROVE  StoreStep
  <2>1. id \in Id /\ row[id] \in Entry
    BY <1>1, CurrentIsShown
  <2>2. row[id].revision < e.revision
    <3>1. row[id].revision \in Nat
      BY <2>1 DEF Entry
    <3>2. e.revision = row[id].revision + 1
      BY <1>1
    <3> HIDE DEF id
    <3> QED
      BY <3>1, <3>2
  <2> HIDE DEF id
  <2> QED
    BY <1>1, <2>1, <2>2, EntryChanged
<1>2. CASE dispatch_edit
  <2>1. /\ handling /\ request.action = "edit" /\ current(card, "proposed") /\ UNCHANGED saved
    BY <1>2 DEF dispatch_edit
  <2>2. Honest(card) /\ request.target \in Target
    BY <2>1, ServedHonest DEF Changing
  <2>3. id \in Id /\ row[id] \in Entry /\ proposals[id] = row[id]
    BY <2>1, <2>2, CurrentIsShown
  <2> DEFINE e == [status |-> row[id].status, target |-> request.target,
                   revision |-> row[id].revision + 1]
  <2>4. row' = [row EXCEPT ![id] = e] /\ proposals' = [proposals EXCEPT ![id] = e]
    BY <1>2, <2>3 DEF dispatch_edit
  <2>5. e.revision = row[id].revision + 1 /\ e \in Entry
    <3>1. row[id].status = "proposed"
      BY <2>1, <2>2, <2>3, CurrentIsShown
    <3> QED
      BY <2>2, <2>3, <3>1, RevisedEntry
  <2> HIDE DEF e, card, id
  <2> QED
    BY <1>1, <2>1, <2>2, <2>4, <2>5 DEF card, id
<1>3. ASSUME NEW old \in {"proposed", "completed"}, NEW new \in {"ignored", "completed", "undone"},
             request.action \in Changing, handling, current(card, old), settled(id, new),
             UNCHANGED saved
      PROVE  StoreStep
  <2>2. Honest(card)
    BY <1>3, ServedHonest
  <2>3. id \in Id /\ row[id] \in Entry /\ proposals[id] = row[id]
    BY <1>3, <2>2, CurrentIsShown
  <2> DEFINE e == [status |-> new, target |-> row[id].target,
                   revision |-> row[id].revision + 1]
  <2>4. row' = [row EXCEPT ![id] = e] /\ proposals' = [proposals EXCEPT ![id] = e]
    BY <1>3, <2>3 DEF settled
  <2>5. e.revision = row[id].revision + 1 /\ e \in Entry
    <3>1. row[id].target \in Target \cup {NoTarget}
      BY <2>3 DEF Entry
    <3>2. new \in {"proposed", "approved", "completed", "undoing", "undone", "ignored"}
      BY <1>3
    <3> QED
      BY <2>3, <3>1, <3>2, RevisedEntry
  <2> HIDE DEF e, card, id
  <2> QED
    BY <1>1, <1>3, <2>2, <2>4, <2>5 DEF card, id
<1>4. CASE dispatch_ignore
  <2>1. /\ handling /\ request.action = "proposal_ignore" /\ current(card, "proposed")
        /\ settled(id, "ignored") /\ UNCHANGED saved
    BY <1>4 DEF dispatch_ignore
  <2> QED
    BY <1>3, <2>1 DEF Changing
<1>5. CASE dispatch_move
  <2>1. handling /\ UNCHANGED saved
    BY <1>5 DEF dispatch_move
  <2>2. \/ /\ request.action = "proposal_approve" /\ current(card, "proposed")
           /\ settled(id, "completed")
        \/ /\ request.action = "undo" /\ current(card, "completed")
           /\ settled(id, "undone")
    BY <1>5 DEF dispatch_move
  <2>3. CASE request.action = "proposal_approve"
    BY <1>3, <2>1, <2>2, <2>3 DEF Changing
  <2>4. CASE request.action = "undo"
    BY <1>3, <2>1, <2>2, <2>4 DEF Changing
  <2> QED
    BY <2>2, <2>3, <2>4
<1>6. CASE dispatch_move_fails
  <2>0. UNCHANGED saved /\ handling
    BY <1>6 DEF dispatch_move_fails
  <2> DEFINE again(status) == [status |-> status, target |-> row[id].target,
                               revision |-> row[id].revision + 1]
  <2>1. ASSUME request.action = "proposal_approve", current(card, "proposed"),
               row' = [row EXCEPT ![id] = again("approved")],
               proposals' = [proposals EXCEPT ![id] =
                   [status |-> "proposed", target |-> proposals[id].target,
                    revision |-> proposals[id].revision + 1]]
        PROVE  StoreStep
    <3>1. Honest(card)
      BY <2>0, <2>1, ServedHonest DEF Changing
    <3>2. id \in Id /\ row[id] \in Entry /\ proposals[id] = row[id]
      BY <2>1, <3>1, CurrentIsShown
    <3>3. proposals' = [proposals EXCEPT ![id] = again("proposed")]
      BY <2>1, <3>2
    <3>4. /\ again("approved") \in Entry /\ again("proposed") \in Entry
          /\ again("approved").revision = again("proposed").revision
          /\ again("approved").status = "approved"
          /\ row[id].revision < again("approved").revision
      <4>1. row[id].target \in Target \cup {NoTarget}
        BY <3>2 DEF Entry
      <4> DEFINE approved == again("approved")
                 proposed == again("proposed")
      <4>2. /\ approved = [status |-> "approved", target |-> row[id].target,
                           revision |-> row[id].revision + 1]
            /\ proposed = [status |-> "proposed", target |-> row[id].target,
                           revision |-> row[id].revision + 1]
        OBVIOUS
      <4> HIDE DEF approved, proposed, id
      <4>3. /\ approved \in Entry /\ approved.status = "approved"
            /\ approved.revision = row[id].revision + 1
            /\ row[id].revision < approved.revision
        BY <3>2, <4>1, <4>2, RevisedEntry
      <4>4. proposed \in Entry /\ proposed.revision = row[id].revision + 1
        BY <3>2, <4>1, <4>2, RevisedEntry
      <4> QED
        BY <4>3, <4>4 DEF approved, proposed
    <3> HIDE DEF again, id
    <3> QED
      BY <2>0, <2>1, <3>2, <3>3, <3>4, EntryChanged
  <2>2. ASSUME request.action = "undo", current(card, "completed"), UNCHANGED proposals,
               row' = [row EXCEPT ![id] = again("undoing")]
        PROVE  StoreStep
    <3>1. Honest(card)
      BY <2>0, <2>2, ServedHonest DEF Changing
    <3>2. id \in Id /\ row[id] \in Entry
      BY <2>2, <3>1, CurrentIsShown
    <3>4. /\ again("undoing") \in Entry /\ row[id].revision < again("undoing").revision
          /\ again("undoing").revision \in Nat
      <4>1. row[id].target \in Target \cup {NoTarget}
        BY <3>2 DEF Entry
      <4>2. again("undoing") \in Entry /\ row[id].revision < again("undoing").revision
        BY <3>2, <4>1, RevisedEntry
      <4> QED
        BY <4>2 DEF Entry
    <3> HIDE DEF again, id
    <3>5. row' \in [Id -> Entry] /\ \A i \in Id : row[i].revision \in Nat
      BY <1>0, <2>2, <3>2, <3>4 DEF Entry
    <3>6. RowsGrow
      BY <1>0, <2>2, <3>2, <3>4, <3>5 DEF RowsGrow
    <3>7. /\ proposals' \in [Id -> Entry] /\ saved' \in [Id -> Entry]
          /\ proposals' = proposals /\ saved' = saved
      BY <2>0, <2>2 DEF StoreOK
    <3> QED
      BY <3>5, <3>6, <3>7 DEF StoreStep
  <2>3. \/ /\ request.action = "proposal_approve" /\ current(card, "proposed")
           /\ row' = [row EXCEPT ![id] = again("approved")]
           /\ proposals' = [proposals EXCEPT ![id] =
                   [status |-> "proposed", target |-> proposals[id].target,
                    revision |-> proposals[id].revision + 1]]
        \/ /\ request.action = "undo" /\ current(card, "completed") /\ UNCHANGED proposals
           /\ row' = [row EXCEPT ![id] = again("undoing")]
    BY <1>6 DEF dispatch_move_fails
  <2> HIDE DEF request, card, id, again
  <2> QED
    BY <2>1, <2>2, <2>3
<1> QED
  BY <1>2, <1>4, <1>5, <1>6

(* The other steps: only a scan, a save, a crash and recovery touch it. *)
LEMMA NextStoreStep ==
  ASSUME DeskInv, [Next]_vars
  PROVE  StoreStep
<1>0. /\ StoreOK /\ CallsOK /\ row \in [Id -> Entry] /\ proposals \in [Id -> Entry]
      /\ saved \in [Id -> Entry] /\ \A id \in Id : row[id].revision \in Nat
  BY DEF DeskInv, StoreOK, Entry
<1>1. CASE turn
  <2>1. CASE UNCHANGED <<row, proposals, saved>>
    BY <1>0, <2>1, StoreKept
  <2>2. ASSUME NEW id \in Id, NEW target \in Decision, row[id] = Absent,
               row' = [row EXCEPT ![id] =
                          [status |-> "proposed", revision |-> 1, target |-> target]],
               proposals' = [proposals EXCEPT ![id] = row'[id]], saved' = proposals'
        PROVE  StoreStep
    <3> DEFINE e == [status |-> "proposed", revision |-> 1, target |-> target]
    <3>0. target \in Target \cup {NoTarget} /\ row[id].revision = 0
      BY <2>2, DeskAssumption DEF Absent
    <3>1. e \in Entry /\ e.revision = 1 /\ row[id].revision < e.revision
      BY <3>0 DEF Entry
    <3> HIDE DEF e
    <3>2. row' = [row EXCEPT ![id] = e]
      BY <2>2 DEF e
    <3>3. proposals' = [proposals EXCEPT ![id] = e]
      BY <1>0, <2>2, <3>2
    <3> QED
      BY <1>0, <2>2, <3>1, <3>2, <3>3, EntryChanged
  <2> QED
    BY <1>1, <2>1, <2>2 DEF turn, scan_once
<1>2. CASE dispatch_edit \/ dispatch_ignore \/ dispatch_move \/ dispatch_move_fails
  BY <1>0, <1>2, DispatchStoreStep
<1>3. CASE dispatch_rule \/ save
  BY <1>0, <1>3, StoreKept DEF dispatch_rule, save
<1>4. CASE open
  <2> DEFINE recovered(entry, id) == [status |-> "needs_attention", target |-> entry.target,
                                      revision |-> row[id].revision + 1]
             interrupted == {id \in Id : row[id].status \in {"approved", "undoing"}}
  <2>1. /\ row' = [id \in Id |-> IF id \in interrupted THEN recovered(row[id], id) ELSE row[id]]
        /\ proposals' = [id \in Id |-> IF id \in interrupted THEN recovered(proposals[id], id)
                                       ELSE proposals[id]]
        /\ saved' = proposals'
    BY <1>4 DEF open
  <2>2. \A id \in Id : \A e \in Entry : recovered(e, id) \in Entry
    BY <1>0 DEF Entry
  <2>3. \A id \in Id : \A e \in Entry : /\ recovered(e, id).revision = row[id].revision + 1
                                        /\ recovered(e, id).status = "needs_attention"
    OBVIOUS
  <2> HIDE DEF recovered, interrupted
  <2>4. row' \in [Id -> Entry] /\ proposals' \in [Id -> Entry] /\ saved' \in [Id -> Entry]
    BY <1>0, <2>1, <2>2
  <2>5. RowsGrow
    BY <1>0, <2>1, <2>3 DEF RowsGrow
  <2>6. ASSUME NEW id \in Id
        PROVE  proposals'[id] = proposals[id] \/ StillHonest(CardOf(id, proposals'[id]))
    <3>1. CASE id \in interrupted
      <4>1. /\ row'[id] = recovered(row[id], id) /\ proposals'[id] = recovered(proposals[id], id)
            /\ row[id] \in Entry /\ proposals[id] \in Entry
        BY <1>0, <2>1, <3>1
      <4>2. /\ row'[id].revision = row[id].revision + 1 /\ row'[id].status = "needs_attention"
            /\ proposals'[id].revision = row[id].revision + 1
        BY <4>1, <2>3
      <4> QED
        BY <1>0, <4>2 DEF StillHonest, CardOf
    <3>2. CASE id \notin interrupted
      BY <2>1, <3>2
    <3> QED
      BY <3>1, <3>2
  <2> QED
    BY <2>1, <2>4, <2>5, <2>6 DEF StoreStep
<1>5. CASE crash
  BY <1>0, <1>5 DEF crash, StoreStep, RowsGrow
<1>6. CASE UNCHANGED storeVars
  BY <1>0, <1>6, StoreKept DEF storeVars
<1>7. CASE Loop
  BY <1>7, <1>1, <1>2, <1>3, <1>4, <1>6 DEF Loop, handle_oversized, dispatch_read,
                                            dispatch_refused, answer
<1>8. CASE Exited \/ Clicks \/ refresh
  BY <1>8, <1>6 DEF Exited, status_exited, queue_exited, action_exited, Clicks, click, rename,
                    open_folder_dialog, choose_folder, refresh
<1>9. CASE terminal_reads \/ terminal_acts \/ hang_up \/ time_passes \/ bind \/ UNCHANGED vars
  BY <1>9, <1>6 DEF terminal_reads, terminal_acts, hang_up, time_passes, bind, vars
<1> QED
  BY <1>5, <1>7, <1>8, <1>9 DEF Next

-----------------------------------------------------------------------------
(* The widget: its cards come from an answer or from the dialog. *)
LEMMA NextWidgetStep ==
  ASSUME DeskInv, [Next]_vars
  PROVE  WidgetStep
<1>1. CASE UNCHANGED <<queue, folderProposal>>
  BY <1>1 DEF DeskInv, WidgetOK, WidgetStep
<1>2. CASE queue_exited
  <2>1. \A card \in call["queue"].answer.cards : Honest(card)
    BY DEF DeskInv, CallsOK, HonestCall, Client
  <2> QED
    BY <1>2, <2>1 DEF queue_exited, DeskInv, WidgetOK, WidgetStep
<1>3. ASSUME NEW card \in queue, open_folder_dialog(card)
      PROVE  WidgetStep
  BY <1>3 DEF open_folder_dialog, DeskInv, WidgetOK, WidgetStep
<1>4. ASSUME NEW target \in Target, choose_folder(target)
      PROVE  WidgetStep
  BY <1>4 DEF choose_folder, DeskInv, WidgetOK, WidgetStep
<1>5. CASE Loop
  BY <1>1, <1>5 DEF Loop, turn, handle_oversized, dispatch_read, dispatch_rule, dispatch_edit,
                    dispatch_ignore, dispatch_move, dispatch_move_fails, dispatch_refused, save,
                    answer, open, saving, widgetVars
<1>6. CASE Exited \/ Clicks \/ refresh
  BY <1>1, <1>2, <1>3, <1>4, <1>6 DEF Exited, status_exited, action_exited, Clicks, click,
                                      rename, refresh, widgetVars
<1>7. CASE terminal_reads \/ terminal_acts \/ hang_up \/ time_passes \/ crash \/ bind
           \/ UNCHANGED vars
  BY <1>1, <1>7 DEF terminal_reads, terminal_acts, hang_up, time_passes, crash, bind, vars,
                    widgetVars
<1> QED
  BY <1>5, <1>6, <1>7 DEF Next

-----------------------------------------------------------------------------
(* The calls. *)
LEMMA CallsKept ==
  ASSUME CallsOK, UNCHANGED <<call, backlog>>, reply'.cards = {}
  PROVE  CallStep
  BY DEF CallsOK, CallStep, GoodCall

(* One client's call changes. *)
LEMMA CallChanged ==
  ASSUME CallsOK, NEW c \in Client, NEW it, GoodCall(it), call' = [call EXCEPT ![c] = it],
         backlog' \in Seq(Client), reply'.cards = {}
  PROVE  CallStep
<1>1. \A d \in Client : GoodCall(call[d])
  BY DEF CallsOK, GoodCall
<1>2. DOMAIN call' = Client /\ \A d \in Client : call'[d] = call[d] \/ call'[d] = it
  BY DEF CallsOK
<1> QED
  BY <1>1, <1>2 DEF CallStep

(* A process that has ended without cards. *)
LEMMA ExitedGood ==
  ASSUME CallsOK, NEW c \in Client, NEW response, \A card \in response.cards : Honest(card)
  PROVE  GoodCall(exited(c, response))
<1>1. NoCall.request.action = "none" /\ NoCall.answer.cards = {}
  BY DEF NoCall, Nothing, NoReply
<1>2. GoodCall(NoCall)
  BY <1>1 DEF GoodCall, HonestCall, Changing
<1>3. \A card \in received(response).cards : Honest(card)
  BY DEF received, Unavailable, NoReply
<1>4. GoodCall([phase |-> "exited", request |-> call[c].request, answer |-> received(response)])
  BY <1>3 DEF GoodCall, HonestCall, CallsOK
<1> QED
  BY <1>2, <1>4 DEF exited

(* A call with an honest card. *)
LEMMA CallingStep ==
  ASSUME CallsOK, NEW c \in Client, NEW request, calling(c, request), UNCHANGED reply,
         request.action \in Changing => Honest(request.card),
         request.action = "edit" => request.target \in Target
  PROVE  CallStep
<1>1. backlog' \in Seq(Client) /\ reply'.cards = {}
  BY DEF CallsOK, calling
<1>2. CASE pc = "down"
  <2>1. GoodCall(exited(c, Unavailable))
    BY ExitedGood DEF Unavailable, NoReply
  <2> QED
    BY <1>1, <1>2, <2>1, CallChanged DEF calling
<1>3. CASE pc # "down"
  <2> DEFINE it == [phase |-> "sent", request |-> request, answer |-> NoReply]
  <2>1. HonestCall(it)
    BY DEF HonestCall, NoReply
  <2>2. call' = [call EXCEPT ![c] = it] /\ GoodCall(it)
    BY <1>3, <2>1 DEF calling, GoodCall
  <2> HIDE DEF it
  <2> QED
    BY <1>1, <2>2, CallChanged
<1> QED
  BY <1>2, <1>3

(* An answer to the client that is served. *)
LEMMA AnsweredStep ==
  ASSUME CallsOK, NEW response, \A card \in response.cards : Honest(card),
         answered(response), backlog # <<>>, reply'.cards = {}
  PROVE  CallStep
<1>1. serving \in Client /\ backlog' \in Seq(Client)
  BY DEF CallsOK, answered, serving
<1>2. GoodCall(exited(serving, response))
  BY <1>1, ExitedGood
<1> QED
  BY <1>1, <1>2, CallChanged DEF answered

(* Cards that are listed are honest. *)
LEMMA ListedHonest ==
  ASSUME StoreOK
  PROVE  \A card \in queue_list : Honest(card)
<1>1. \A card \in queue_list : \E id \in Id : card = CardOf(id, proposals[id])
  BY DEF queue_list, visible, CardOf
<1> QED
  BY <1>1 DEF StoreOK

(* Every step leaves honest cards in the calls and in their answers. *)
LEMMA NextCallStep ==
  ASSUME DeskInv, [Next]_vars
  PROVE  CallStep
<1>0. CallsOK /\ StoreOK /\ WidgetOK
  BY DEF DeskInv
<1>1. /\ NoReply.cards = {} /\ ok.cards = {} /\ Refused.cards = {} /\ Unavailable.cards = {}
      /\ \A n : [ok EXCEPT !.count = n].cards = {}
      /\ \A S : [ok EXCEPT !.cards = S].cards = S
  BY DEF NoReply, ok, Refused, Unavailable
<1>2. CASE UNCHANGED <<call, backlog>> /\ (UNCHANGED reply \/ reply' = ok \/ reply' = Refused)
  BY <1>0, <1>1, <1>2, CallsKept DEF CallsOK
<1>3. ASSUME NEW response, answered(response), \A card \in response.cards : Honest(card),
             backlog # <<>>, UNCHANGED reply \/ reply' = NoReply
      PROVE  CallStep
  BY <1>0, <1>1, <1>3, AnsweredStep DEF CallsOK
<1>4. ASSUME NEW action \in {"status", "invalid", "oversized", "silent"}, UNCHANGED reply,
             NEW c \in Client, calling(c, plain(action))
      PROVE  CallStep
  <2>1. plain(action).action \notin Changing
    BY DEF plain, Nothing, Changing
  <2> QED
    BY <1>0, <1>4, <2>1, CallingStep DEF Changing
<1>5. ASSUME NEW card, Honest(card), NEW action \in Changing, NEW c \in Client, NEW target,
             calling(c, [action |-> action, card |-> card, target |-> target]),
             action = "edit" => target \in Target, UNCHANGED reply
      PROVE  CallStep
  BY <1>0, <1>5, CallingStep
<1>6. CASE dispatch_rule \/ dispatch_edit \/ dispatch_ignore \/ dispatch_move
  BY <1>2, <1>6 DEF dispatch_rule, dispatch_edit, dispatch_ignore, dispatch_move, saving
<1>7. CASE turn \/ dispatch_move_fails \/ save \/ open
  BY <1>2, <1>7 DEF turn, dispatch_move_fails, save, open, answering
<1>8. CASE dispatch_read
  <2>1. handling /\ UNCHANGED reply
    BY <1>8 DEF dispatch_read
  <2> QED
    BY <1>0, <1>1, <1>3, <1>8, <2>1, ListedHonest DEF dispatch_read, handling
<1>9. CASE handle_oversized \/ dispatch_refused \/ hang_up
  BY <1>1, <1>3, <1>9 DEF handle_oversized, dispatch_refused, hang_up, handling
<1>10. CASE answer
  <2>1. backlog # <<>>
    BY <1>10 DEF answer, DeskInv, AnsweringOK
  <2> QED
    BY <1>0, <1>3, <1>10, <2>1 DEF answer, CallsOK
<1>11. CASE Loop
  BY <1>11, <1>6, <1>7, <1>8, <1>9, <1>10 DEF Loop
<1>12. ASSUME NEW c \in Client, call' = [call EXCEPT ![c] = NoCall], UNCHANGED <<backlog, reply>>
       PROVE  CallStep
  <2>1. GoodCall(NoCall)
    BY <1>1 DEF GoodCall, HonestCall, NoCall, Nothing, Changing
  <2> QED
    BY <1>0, <1>12, <2>1, CallChanged DEF CallsOK
<1>13. CASE status_exited
  <2> DEFINE next == [phase |-> IF pc = "down" THEN "exited" ELSE "sent",
                      request |-> plain("queue_list"),
                      answer |-> IF pc = "down" THEN Unavailable ELSE NoReply]
  <2>1. next.answer.cards = {} /\ next.request.action = "queue_list"
    BY <1>1 DEF plain, Nothing
  <2>2. GoodCall(next) /\ GoodCall(NoCall)
    <3> HIDE DEF next
    <3> QED
      BY <1>1, <2>1 DEF GoodCall, HonestCall, NoCall, Nothing, Changing
  <2>3. /\ call' = [call EXCEPT !["status"] = NoCall,
                                !["queue"] = IF call["status"].answer.ok THEN next ELSE @]
        /\ backlog' = backlog \/ backlog' = Append(backlog, "queue")
        /\ reply' = reply
    BY <1>13 DEF status_exited
  <2> HIDE DEF next
  <2>4. DOMAIN call' = Client /\ \A c \in Client : call'[c] \in {call[c], NoCall, next}
    BY <1>0, <2>3 DEF CallsOK, Client
  <2>5. backlog' \in Seq(Client) /\ reply'.cards = {}
    BY <1>0, <2>3 DEF CallsOK, Client
  <2>6. \A c \in Client : GoodCall(call[c])
    BY <1>0 DEF CallsOK, GoodCall
  <2> QED
    BY <2>2, <2>4, <2>5, <2>6 DEF CallStep
<1>14. CASE queue_exited \/ action_exited
  BY <1>12, <1>14 DEF queue_exited, action_exited, loopVars, Client
<1>15. CASE Clicks
  <2>0. "action" \in Client /\ \A card \in queue : Honest(card)
    BY <1>0 DEF Client, WidgetOK
  <2>1. ASSUME NEW card \in queue, NEW action \in offered(card), click(card, action)
        PROVE  CallStep
    <3>1. action \in Changing /\ action # "edit"
      <4>1. action \in {"proposal_ignore", "proposal_approve", "rule_create", "undo"}
        BY <2>1 DEF offered
      <4> QED
        BY <4>1 DEF Changing
    <3> QED
      BY <1>5, <2>0, <2>1, <3>1 DEF click, run
  <2>2. ASSUME NEW card \in queue, NEW target \in Target, rename(card, target)
        PROVE  CallStep
    BY <1>5, <2>0, <2>2 DEF rename, run, Changing
  <2>3. ASSUME NEW card \in queue, open_folder_dialog(card)
        PROVE  CallStep
    BY <1>2, <2>3 DEF open_folder_dialog, loopVars
  <2>4. ASSUME NEW target \in Target, choose_folder(target)
        PROVE  CallStep
    <3>1. Honest(folderProposal) /\ UNCHANGED reply
      BY <1>0, <2>4 DEF choose_folder, WidgetOK
    <3> QED
      BY <1>2, <1>5, <2>0, <2>4, <3>1 DEF choose_folder, run, Changing
  <2> QED
    BY <1>15, <2>1, <2>2, <2>3, <2>4 DEF Clicks
<1>16. CASE refresh \/ terminal_reads
  BY <1>4, <1>16 DEF refresh, terminal_reads, Client
<1>17. CASE terminal_acts
  <2>0. "terminal" \in Client /\ UNCHANGED reply /\ "edit" \in Changing
    BY <1>17 DEF terminal_acts, Client, Changing
  <2> QED
    BY <1>0, <1>4, <1>5, <1>17, <2>0, ListedHonest DEF terminal_acts
<1>18. CASE crash
  <2>1. \A c \in Client : GoodCall(call[c]) /\ GoodCall(exited(c, Unavailable))
    BY <1>0, <1>1, ExitedGood DEF CallsOK, GoodCall
  <2> QED
    BY <1>1, <1>18, <2>1 DEF crash, CallStep
<1>19. CASE time_passes \/ bind \/ UNCHANGED vars
  BY <1>2, <1>19 DEF time_passes, bind, vars, loopVars
<1> QED
  BY <1>9, <1>11, <1>13, <1>14, <1>15, <1>16, <1>17, <1>18, <1>19 DEF Next, Exited

-----------------------------------------------------------------------------
(* Every step leaves whoever is to be answered connected. *)
LEMMA AnsweringStep ==
  ASSUME DeskInv, [Next]_vars
  PROVE  AnsweringOK'
<1>1. backlog \in Seq(Client) /\ AnsweringOK
  BY DEF DeskInv, CallsOK
<1>2. ASSUME NEW c \in Client PROVE Append(backlog, c) # <<>>
  <2>1. Len(Append(backlog, c)) = Len(backlog) + 1 /\ Len(backlog) \in Nat
    BY <1>1
  <2>2. Len(<<>>) = 0
    OBVIOUS
  <2> QED
    BY <2>1, <2>2
<1>3. ASSUME NEW c \in Client, NEW request, calling(c, request), UNCHANGED pc
      PROVE  AnsweringOK'
  BY <1>1, <1>2, <1>3 DEF calling, AnsweringOK
<1>4. CASE UNCHANGED <<pc, backlog>>
  BY <1>1, <1>4 DEF AnsweringOK
<1>5. CASE pc' \notin {"save", "answer"}
  BY <1>5 DEF AnsweringOK
<1>6. CASE Loop \/ hang_up
  <2>1. CASE turn \/ open
    BY <1>5, <2>1 DEF turn, open
  <2>2. ASSUME NEW response, answered(response)
        PROVE  AnsweringOK'
    BY <1>5, <2>2 DEF answered
  <2>3. CASE handle_oversized \/ dispatch_read \/ dispatch_refused \/ answer \/ hang_up
    BY <2>2, <2>3 DEF handle_oversized, dispatch_read, dispatch_refused, answer, hang_up
  <2>4. ASSUME handling, UNCHANGED backlog
        PROVE  AnsweringOK'
    <3>1. backlog # <<>>
      BY <2>4 DEF handling
    <3>2. backlog' # <<>>
      BY <2>4, <3>1
    <3> QED
      BY <3>2 DEF AnsweringOK
  <2>5. CASE dispatch_rule \/ dispatch_edit \/ dispatch_ignore \/ dispatch_move
             \/ dispatch_move_fails
    BY <2>4, <2>5 DEF dispatch_rule, dispatch_edit, dispatch_ignore, dispatch_move,
                      dispatch_move_fails, saving
  <2>6. CASE save
    BY <1>1, <2>6 DEF save, AnsweringOK
  <2> QED
    BY <1>6, <2>1, <2>3, <2>5, <2>6 DEF Loop
<1>7. CASE Clicks
  BY <1>3, <1>4, <1>7 DEF Clicks, click, rename, open_folder_dialog, choose_folder, run, loopVars,
                          Client
<1>8. CASE Exited
  <2>1. CASE status_exited
    BY <1>1, <1>2, <2>1 DEF status_exited, AnsweringOK, Client
  <2> QED
    BY <1>4, <1>8, <2>1 DEF Exited, queue_exited, action_exited, loopVars
<1>9. CASE refresh \/ terminal_reads \/ terminal_acts
  BY <1>3, <1>9 DEF refresh, terminal_reads, terminal_acts, Client
<1>10. CASE crash \/ bind \/ time_passes \/ UNCHANGED vars
  BY <1>4, <1>5, <1>10 DEF crash, bind, time_passes, vars, loopVars
<1> QED
  BY <1>6, <1>7, <1>8, <1>9, <1>10 DEF Next

(* The desk starts with honest entries and no calls. *)
LEMMA DeskInit ==
  ASSUME Init
  PROVE  DeskInv
<1>1. PICK target \in StartTarget :
         row = [id \in Id |-> IF id = 1
                   THEN [status |-> "proposed", revision |-> 1, target |-> target]
                   ELSE Absent]
  BY DEF Init
<1>2. target \in Target \cup {NoTarget}
  BY DeskAssumption
<1>3. [status |-> "proposed", revision |-> 1, target |-> target] \in Entry /\ Absent \in Entry
  BY <1>2 DEF Entry, Absent
<1>4. row \in [Id -> Entry] /\ proposals = row /\ saved = row
  BY <1>1, <1>3 DEF Init
<1>5. \A id \in Id : Honest(CardOf(id, row[id]))
  BY <1>4 DEF Honest, CardOf, Entry
<1>6. StoreOK
  BY <1>4, <1>5 DEF StoreOK
<1>7. CallsOK
  BY DEF Init, CallsOK, HonestCall, NoCall, Nothing, NoReply, Changing
<1>8. WidgetOK /\ AnsweringOK
  BY DEF Init, WidgetOK, AnsweringOK
<1> QED
  BY <1>6, <1>7, <1>8 DEF DeskInv

(* DeskInv is an invariant. *)
LEMMA DeskInvariant == Spec => []DeskInv
<1>1. DeskInv /\ [Next]_vars => DeskInv'
  BY NextStoreStep, NextCallStep, NextWidgetStep, AnsweringStep, DeskStepOK DEF DeskInv
<1> QED
  BY <1>1, DeskInit, PTL DEF Spec

(***************************************************************************)
(* Whenever a request changes a proposal's row, the row is as the card      *)
(* showed it from which the request was made, whatever was edited, lost,    *)
(* saved or not saved, and however often the daemon crashed (run,           *)
(* proposal_index, the journal's revision check).                           *)
(***************************************************************************)
THEOREM RequestsActAsShown == Spec => ActsAsShown
<1> DEFINE Shown == \A id \in Id : (handling /\ row'[id] # row[id]) =>
                        LET card == call[serving].request.card IN
                        /\ card.id = id
                        /\ row[id] = [status |-> card.status, revision |-> card.revision,
                                      target |-> card.target]
<1>1. ASSUME DeskInv, [Next]_vars PROVE Shown
  <2> SUFFICES ASSUME NEW id \in Id, handling, row'[id] # row[id]
               PROVE  LET card == call[serving].request.card IN
                      /\ card.id = id
                      /\ row[id] = [status |-> card.status, revision |-> card.revision,
                                    target |-> card.target]
    OBVIOUS
  <2> DEFINE request == call[serving].request
             card == request.card
  <2>0. StoreOK /\ CallsOK
    BY <1>1 DEF DeskInv
  <2>1. dispatch_edit \/ dispatch_ignore \/ dispatch_move \/ dispatch_move_fails
    <3>1. CASE Loop
      BY <3>1 DEF Loop, turn, handle_oversized, dispatch_read, dispatch_rule,
                  dispatch_refused, save, answer, open, storeVars, handling
    <3>2. CASE Exited \/ Clicks \/ refresh
      BY <3>2 DEF Exited, status_exited, queue_exited, action_exited, Clicks, click, rename,
                  open_folder_dialog, choose_folder, refresh, storeVars
    <3>3. CASE terminal_reads \/ terminal_acts \/ hang_up \/ time_passes \/ bind \/ crash
               \/ UNCHANGED vars
      BY <3>3 DEF terminal_reads, terminal_acts, hang_up, time_passes, bind, crash, vars, storeVars
    <3> QED
      BY <1>1, <3>1, <3>2, <3>3 DEF Next
  <2>2. /\ request.action \in Changing
        /\ \E status \in {"proposed", "completed"} : current(card, status)
        /\ \E e : row' = [row EXCEPT ![card.id] = e]
    <3>0. ASSUME NEW i, NEW status, settled(i, status)
          PROVE  \E e : row' = [row EXCEPT ![i] = e]
      BY <3>0 DEF settled
    <3>1. CASE dispatch_edit
      BY <3>1 DEF dispatch_edit, Changing
    <3>2. CASE dispatch_ignore
      BY <3>0, <3>2 DEF dispatch_ignore, Changing
    <3>3. CASE dispatch_move
      BY <3>0, <3>3 DEF dispatch_move, Changing
    <3>4. CASE dispatch_move_fails
      BY <3>4 DEF dispatch_move_fails, Changing
    <3> HIDE DEF request, card
    <3> QED
      BY <2>1, <3>1, <3>2, <3>3, <3>4
  <2>3. Honest(card)
    BY <2>0, <2>2, ServedHonest
  <2>4. row[card.id] = [status |-> card.status, revision |-> card.revision,
                        target |-> card.target]
    BY <2>0, <2>2, <2>3, CurrentIsShown
  <2>5. card.id = id
    BY <2>0, <2>2 DEF StoreOK
  <2> QED
    BY <2>4, <2>5
<1> QED
  BY <1>1, DeskInvariant, PTL DEF Spec, ActsAsShown
-----------------------------------------------------------------------------
(***************************************************************************)
(* Connections: the backlog holds each client that waits, once, and the     *)
(* plugin never asks for its queue while its status is being asked for.     *)
(***************************************************************************)
Sent(c) == call[c].phase = "sent"

ConnectedOK ==
    /\ \A i, j \in 1..Len(backlog) : backlog[i] = backlog[j] => i = j
    /\ \A c \in Client : Sent(c) <=> \E i \in 1..Len(backlog) : backlog[i] = c
    /\ running("status") => ~running("queue")

(* What any step does to the connections: nothing, one more at the end, the *)
(* first one gone, or all of them.                                          *)
ConnectionStep ==
    \/ UNCHANGED backlog /\ \A c \in Client : call'[c].phase = "sent" <=> Sent(c)
    \/ \E c \in Client :
          /\ ~Sent(c) /\ call'[c].phase = "sent" /\ backlog' = Append(backlog, c)
          /\ \A d \in Client \ {c} : call'[d].phase = "sent" <=> Sent(d)
    \/ /\ backlog # <<>> /\ call'[serving].phase # "sent" /\ backlog' = Tail(backlog)
       /\ \A d \in Client \ {serving} : call'[d].phase = "sent" <=> Sent(d)
    \/ backlog' = <<>> /\ \A c \in Client : call'[c].phase # "sent"

(* Such a step keeps a client's connection and its place in the backlog     *)
(* together.                                                                *)
LEMMA ConnectionKept ==
  ASSUME ConnectedOK, ConnectionStep, backlog \in Seq(Client)
  PROVE  /\ \A i, j \in 1..Len(backlog') : backlog'[i] = backlog'[j] => i = j
         /\ \A c \in Client :
               call'[c].phase = "sent" <=> \E i \in 1..Len(backlog') : backlog'[i] = c
<1>0. /\ Len(backlog) \in Nat /\ \A i \in 1..Len(backlog) : backlog[i] \in Client
      /\ \A i, j \in 1..Len(backlog) : backlog[i] = backlog[j] => i = j
      /\ \A c \in Client : Sent(c) <=> \E i \in 1..Len(backlog) : backlog[i] = c
  BY DEF ConnectedOK
<1>1. CASE UNCHANGED backlog /\ \A c \in Client : call'[c].phase = "sent" <=> Sent(c)
  BY <1>0, <1>1
<1>2. ASSUME NEW c \in Client, ~Sent(c), call'[c].phase = "sent", backlog' = Append(backlog, c),
             \A d \in Client \ {c} : call'[d].phase = "sent" <=> Sent(d)
      PROVE  /\ \A i, j \in 1..Len(backlog') : backlog'[i] = backlog'[j] => i = j
             /\ \A d \in Client :
                   call'[d].phase = "sent" <=> \E i \in 1..Len(backlog') : backlog'[i] = d
  <2>1. /\ Len(backlog') = Len(backlog) + 1 /\ backlog'[Len(backlog) + 1] = c
        /\ \A i \in 1..Len(backlog) : backlog'[i] = backlog[i]
    BY <1>2
  <2>2. \A i \in 1..Len(backlog) : backlog[i] # c
    BY <1>0, <1>2
  <2>3. \A i \in 1..Len(backlog') : i \in 1..Len(backlog) \/ i = Len(backlog) + 1
    BY <1>0, <2>1
  <2>4. \A i, j \in 1..Len(backlog') : backlog'[i] = backlog'[j] => i = j
    BY <1>0, <2>1, <2>2, <2>3
  <2>5. ASSUME NEW d \in Client
        PROVE  call'[d].phase = "sent" <=> \E i \in 1..Len(backlog') : backlog'[i] = d
    <3>1. CASE d = c
      <4>1. Len(backlog) + 1 \in 1..Len(backlog')
        BY <1>0, <2>1
      <4> QED
        BY <1>2, <2>1, <3>1, <4>1
    <3>2. CASE d # c
      <4>1. \A i \in 1..Len(backlog) : i \in 1..Len(backlog')
        BY <1>0, <2>1
      <4> QED
        BY <1>0, <1>2, <2>1, <2>3, <3>2, <4>1
    <3> QED
      BY <3>1, <3>2
  <2> QED
    BY <2>4, <2>5
<1>3. ASSUME backlog # <<>>, call'[serving].phase # "sent", backlog' = Tail(backlog),
             \A d \in Client \ {serving} : call'[d].phase = "sent" <=> Sent(d)
      PROVE  /\ \A i, j \in 1..Len(backlog') : backlog'[i] = backlog'[j] => i = j
             /\ \A d \in Client :
                   call'[d].phase = "sent" <=> \E i \in 1..Len(backlog') : backlog'[i] = d
  <2>1. /\ Len(backlog') = Len(backlog) - 1 /\ Len(backlog) >= 1 /\ serving = backlog[1]
        /\ \A i \in 1..Len(backlog') : backlog'[i] = backlog[i + 1]
    BY <1>3 DEF serving
  <2>2. \A i \in 1..Len(backlog') : i + 1 \in 1..Len(backlog) /\ i + 1 # 1
    BY <1>0, <2>1
  <2>3. \A i, j \in 1..Len(backlog') : backlog'[i] = backlog'[j] => i = j
    <3> SUFFICES ASSUME NEW i \in 1..Len(backlog'), NEW j \in 1..Len(backlog'),
                        backlog'[i] = backlog'[j]
                 PROVE  i = j
      OBVIOUS
    <3>1. i + 1 = j + 1 /\ i \in Int /\ j \in Int
      BY <1>0, <2>1, <2>2
    <3> QED
      BY <3>1
  <2>4. \A i \in 1..Len(backlog) : i = 1 \/ (i - 1 \in 1..Len(backlog') /\ backlog'[i - 1] = backlog[i])
    <3> SUFFICES ASSUME NEW i \in 1..Len(backlog), i # 1
                 PROVE  i - 1 \in 1..Len(backlog') /\ backlog'[i - 1] = backlog[i]
      OBVIOUS
    <3>1. i - 1 \in 1..Len(backlog') /\ (i - 1) + 1 = i
      BY <1>0, <2>1
    <3> QED
      BY <2>1, <3>1
  <2>5. \A i \in 1..Len(backlog') : backlog'[i] # serving
    <3>1. 1 \in 1..Len(backlog)
      BY <1>0, <2>1
    <3> QED
      BY <1>0, <2>1, <2>2, <3>1
  <2>6. ASSUME NEW d \in Client
        PROVE  call'[d].phase = "sent" <=> \E i \in 1..Len(backlog') : backlog'[i] = d
    <3>1. CASE d = serving
      BY <1>3, <2>5, <3>1
    <3>2. CASE d # serving
      <4>1. (\E i \in 1..Len(backlog) : backlog[i] = d) <=> \E i \in 1..Len(backlog') : backlog'[i] = d
        BY <2>1, <2>2, <2>4, <3>2
      <4> QED
        BY <1>0, <1>3, <3>2, <4>1
    <3> QED
      BY <3>1, <3>2
  <2> QED
    BY <2>3, <2>6
<1>4. CASE backlog' = <<>> /\ \A c \in Client : call'[c].phase # "sent"
  <2>1. Len(backlog') = 0 /\ 1..0 = {}
    BY <1>4
  <2> QED
    BY <1>4, <2>1
<1> QED
  BY <1>1, <1>2, <1>3, <1>4 DEF ConnectionStep

(* A process that has ended is connected no more. *)
LEMMA ExitedUnsent ==
  ASSUME NEW c, NEW response
  PROVE  exited(c, response).phase # "sent"
  BY DEF exited, NoCall

(* A call of a client that is in none. *)
LEMMA CallingConnects ==
  ASSUME CallsOK, NEW c \in Client, ~running(c), NEW request, calling(c, request)
  PROVE  /\ ConnectionStep
         /\ \A d \in Client \ {c} : call'[d] = call[d]
<1>1. \A d \in Client \ {c} : call'[d] = call[d]
  BY DEF calling, CallsOK
<1>2. CASE pc = "down"
  <2>1. call'[c] = exited(c, Unavailable) /\ UNCHANGED backlog /\ ~Sent(c)
    BY <1>2 DEF calling, CallsOK, running, Sent
  <2>2. \A d \in Client : call'[d].phase = "sent" <=> Sent(d)
    BY <1>1, <2>1, ExitedUnsent DEF Sent
  <2> QED
    BY <1>1, <2>1, <2>2 DEF ConnectionStep
<1>3. CASE pc # "down"
  BY <1>1, <1>3 DEF calling, CallsOK, running, Sent, ConnectionStep
<1> QED
  BY <1>2, <1>3

(* An answer ends the connection of the client that is served. *)
LEMMA AnsweredDisconnects ==
  ASSUME CallsOK, NEW response, answered(response), backlog # <<>>,
         Sent(serving)
  PROVE  ConnectionStep /\ \A c \in Client : running(c)' => running(c)
<1>1. serving \in Client
  BY DEF CallsOK, serving
<1>2. /\ \A d \in Client \ {serving} : call'[d] = call[d]
      /\ call'[serving] = exited(serving, response) /\ backlog' = Tail(backlog)
  BY <1>1 DEF answered, CallsOK
<1>3. call'[serving].phase # "sent"
  BY <1>2, ExitedUnsent
<1>4. \A c \in Client : running(c)' => running(c)
  BY <1>2 DEF running, Sent
<1> QED
  BY <1>2, <1>3, <1>4 DEF ConnectionStep, Sent

(* Every step does one of these, and the plugin asks one thing at a time. *)
LEMMA NextConnectionStep ==
  ASSUME DeskInv, ConnectedOK, [Next]_vars
  PROVE  ConnectionStep /\ (running("status")' => ~running("queue")')
<1>0. CallsOK /\ AnsweringOK /\ (running("status") => ~running("queue"))
  BY DEF DeskInv, ConnectedOK
<1>1. {"status", "queue", "action", "terminal"} = Client
  BY DEF Client
<1>2. CASE UNCHANGED <<call, backlog>>
  BY <1>0, <1>2 DEF ConnectionStep, Sent, running
<1>3. ASSUME NEW response, answered(response), backlog # <<>>
      PROVE  ConnectionStep /\ (running("status")' => ~running("queue")')
  <2>1. Sent(serving)
    <3>1. 1 \in 1..Len(backlog) /\ backlog[1] \in Client
      BY <1>0, <1>3 DEF CallsOK
    <3> QED
      BY <3>1 DEF ConnectedOK, serving
  <2> QED
    BY <1>0, <1>1, <1>3, <2>1, AnsweredDisconnects
<1>4. ASSUME NEW c \in {"action", "terminal"}, NEW request, ~running(c), calling(c, request)
      PROVE  ConnectionStep /\ (running("status")' => ~running("queue")')
  <2>1. ConnectionStep /\ call'["status"] = call["status"] /\ call'["queue"] = call["queue"]
    BY <1>0, <1>1, <1>4, CallingConnects
  <2> QED
    BY <1>0, <2>1 DEF running
<1>5. CASE refresh
  <2>1. ConnectionStep /\ call'["queue"] = call["queue"]
    BY <1>0, <1>1, <1>5, CallingConnects DEF refresh
  <2> QED
    BY <1>5, <2>1 DEF refresh, running
<1>6. CASE status_exited
  <2> DEFINE next == [phase |-> IF pc = "down" THEN "exited" ELSE "sent",
                      request |-> plain("queue_list"),
                      answer |-> IF pc = "down" THEN Unavailable ELSE NoReply]
  <2>1. /\ call["status"].phase = "exited"
        /\ call' = [call EXCEPT !["status"] = NoCall,
                                !["queue"] = IF call["status"].answer.ok THEN next ELSE @]
        /\ backlog' = IF call["status"].answer.ok /\ pc # "down"
                      THEN Append(backlog, "queue") ELSE backlog
    BY <1>6 DEF status_exited
  <2>2. next.phase = IF pc = "down" THEN "exited" ELSE "sent"
    OBVIOUS
  <2> HIDE DEF next
  <2>3. /\ call'["status"].phase = "none" /\ call["queue"].phase = "none"
        /\ call'["queue"] = IF call["status"].answer.ok THEN next ELSE call["queue"]
        /\ call'["action"] = call["action"] /\ call'["terminal"] = call["terminal"]
    BY <1>0, <1>1, <2>1 DEF CallsOK, NoCall, running
  <2>4. CASE call["status"].answer.ok /\ pc # "down"
    <3>1. ~Sent("queue") /\ call'["queue"].phase = "sent" /\ backlog' = Append(backlog, "queue")
      BY <2>1, <2>2, <2>3, <2>4 DEF Sent
    <3>2. \A d \in Client \ {"queue"} : call'[d].phase = "sent" <=> Sent(d)
      BY <1>1, <2>1, <2>3 DEF Sent
    <3>3. ConnectionStep
      BY <1>1, <3>1, <3>2 DEF ConnectionStep
    <3> QED
      BY <2>3, <3>3 DEF running
  <2>5. CASE ~(call["status"].answer.ok /\ pc # "down")
    <3>1. \A d \in Client : call'[d].phase = "sent" <=> Sent(d)
      BY <1>1, <2>1, <2>2, <2>3, <2>5 DEF Sent
    <3>2. ConnectionStep
      BY <2>1, <2>5, <3>1 DEF ConnectionStep
    <3> QED
      BY <2>3, <3>2 DEF running
  <2> QED
    BY <2>4, <2>5
<1>7. ASSUME NEW c \in {"queue", "action"}, call[c].phase = "exited",
             call' = [call EXCEPT ![c] = NoCall], UNCHANGED backlog
      PROVE  ConnectionStep /\ (running("status")' => ~running("queue")')
  <2>1. /\ call'[c].phase = "none" /\ \A d \in Client \ {c} : call'[d] = call[d]
    BY <1>0, <1>1, <1>7 DEF CallsOK, NoCall
  <2> QED
    BY <1>0, <1>1, <1>7, <2>1 DEF ConnectionStep, Sent, running
<1>8. CASE queue_exited \/ action_exited
  BY <1>7, <1>8 DEF queue_exited, action_exited, loopVars
<1>9. CASE Clicks
  BY <1>2, <1>4, <1>9 DEF Clicks, click, rename, open_folder_dialog, choose_folder, run, loopVars
<1>10. CASE terminal_reads \/ terminal_acts
  BY <1>4, <1>10 DEF terminal_reads, terminal_acts
<1>11. CASE crash
  <2>1. /\ backlog' = <<>>
        /\ \A c \in Client : call'[c] = IF call[c].phase = "sent" THEN exited(c, Unavailable)
                                        ELSE call[c]
    BY <1>11 DEF crash
  <2>2. \A c \in Client : call'[c].phase # "sent"
    BY <2>1, ExitedUnsent
  <2>3. \A c \in Client : running(c)' => running(c)
    BY <2>1 DEF running
  <2> QED
    BY <1>0, <1>1, <2>1, <2>2, <2>3 DEF ConnectionStep
<1>12. CASE handle_oversized \/ dispatch_read \/ dispatch_refused \/ hang_up
  BY <1>3, <1>12 DEF handle_oversized, dispatch_read, dispatch_refused, hang_up, handling
<1>13. CASE answer
  BY <1>0, <1>3, <1>13 DEF answer, AnsweringOK
<1>14. CASE dispatch_rule \/ dispatch_edit \/ dispatch_ignore \/ dispatch_move
            \/ dispatch_move_fails
  BY <1>2, <1>14 DEF dispatch_rule, dispatch_edit, dispatch_ignore, dispatch_move,
                     dispatch_move_fails, saving
<1>15. CASE turn \/ save \/ open
  BY <1>2, <1>15 DEF turn, save, open
<1>16. CASE time_passes \/ bind \/ UNCHANGED vars
  BY <1>2, <1>16 DEF time_passes, bind, vars, loopVars
<1> QED
  BY <1>5, <1>6, <1>8, <1>9, <1>10, <1>11, <1>12, <1>13, <1>14, <1>15, <1>16
  DEF Next, Loop, Exited

(* The loop is at one of its places, and rules are for destinations. *)
LoopOK ==
    /\ due \in BOOLEAN /\ rules \subseteq Target
    /\ pc \in {"down", "opening", "accept", "handled", "save", "answer"}

(* Every step leaves the loop at one of its places. *)
LEMMA LoopStep ==
  ASSUME DeskInv, LoopOK, [Next]_vars
  PROVE  LoopOK'
<1>1. due' \in BOOLEAN
  <2>1. due' = due \/ due' = TRUE \/ due' = FALSE
    <3>1. CASE Loop
      BY <3>1 DEF Loop, turn, handle_oversized, dispatch_read, dispatch_rule, dispatch_edit,
                  dispatch_ignore, dispatch_move, dispatch_move_fails, dispatch_refused, save,
                  answer, open, saving
    <3>2. CASE Exited \/ Clicks \/ refresh
      BY <3>2 DEF Exited, status_exited, queue_exited, action_exited, Clicks, click, rename,
                  open_folder_dialog, choose_folder, refresh, loopVars
    <3>3. CASE terminal_reads \/ terminal_acts \/ hang_up \/ time_passes \/ bind \/ crash
               \/ UNCHANGED vars
      BY <3>3 DEF terminal_reads, terminal_acts, hang_up, time_passes, bind, crash, vars, loopVars
    <3> QED
      BY <3>1, <3>2, <3>3 DEF Next
  <2> QED
    BY <2>1 DEF LoopOK
<1>2. rules' \subseteq Target
  <2>1. CASE dispatch_rule
    <3> DEFINE request == call[serving].request
               id == request.card.id
    <3>1. /\ request.action \in Changing /\ handling /\ proposals[id].target # NoTarget
          /\ rules' = rules \cup {proposals[id].target}
      BY <2>1 DEF dispatch_rule, Changing
    <3>2. Honest(request.card) /\ proposals \in [Id -> Entry]
      BY <3>1, ServedHonest DEF DeskInv, StoreOK
    <3>3. id \in Id
      BY <3>2 DEF Honest
    <3>4. proposals[id].target \in Target
      BY <3>1, <3>2, <3>3 DEF Entry
    <3> QED
      BY <3>1, <3>4 DEF LoopOK
  <2>2. CASE UNCHANGED rules
    BY <2>2 DEF LoopOK
  <2>3. CASE Loop /\ ~dispatch_rule
    BY <2>2, <2>3 DEF Loop, turn, handle_oversized, dispatch_read, dispatch_edit,
                  dispatch_ignore, dispatch_move, dispatch_move_fails, dispatch_refused, save,
                  answer, open, saving, storeVars
  <2>4. CASE Exited \/ Clicks \/ refresh
    BY <2>2, <2>4 DEF Exited, status_exited, queue_exited, action_exited, Clicks, click, rename,
                open_folder_dialog, choose_folder, refresh, storeVars
  <2>5. CASE terminal_reads \/ terminal_acts \/ hang_up \/ time_passes \/ bind \/ crash
             \/ UNCHANGED vars
    BY <2>2, <2>5 DEF terminal_reads, terminal_acts, hang_up, time_passes, bind, crash, vars, storeVars
  <2> QED
    BY <2>1, <2>3, <2>4, <2>5 DEF Next
<1>3. pc' \in {"down", "opening", "accept", "handled", "save", "answer"}
  <2>1. CASE Loop
    BY <2>1 DEF Loop, turn, handle_oversized, dispatch_read, dispatch_rule, dispatch_edit,
                dispatch_ignore, dispatch_move, dispatch_move_fails, dispatch_refused, save,
                answer, open, saving, answered, answering
  <2>2. CASE Exited \/ Clicks \/ refresh
    BY <2>2 DEF LoopOK, Exited, status_exited, queue_exited, action_exited, Clicks, click, rename,
                open_folder_dialog, choose_folder, refresh, loopVars
  <2>3. CASE terminal_reads \/ terminal_acts \/ hang_up \/ time_passes \/ bind \/ crash
             \/ UNCHANGED vars
    BY <2>3 DEF LoopOK, terminal_reads, terminal_acts, hang_up, answered, time_passes, bind, crash,
                vars, loopVars
  <2> QED
    BY <2>1, <2>2, <2>3 DEF Next
<1> QED
  BY <1>1, <1>2, <1>3 DEF LoopOK

(***************************************************************************)
(* The desk is well typed, and connections are never lost or doubled: a     *)
(* client waits for an answer exactly while it is in the daemon's backlog,  *)
(* and is there once, through crashes, refused and oversized requests and   *)
(* the plugin's overlapping processes (accept, handle, call, refresh).      *)
(***************************************************************************)
THEOREM DeskTyped == Spec => []DeskTypeOK
<1> DEFINE Inv == ConnectedOK /\ LoopOK
<1>1. Init => Inv
  <2> SUFFICES ASSUME Init PROVE ConnectedOK /\ LoopOK
    OBVIOUS
  <2>1. Len(backlog) = 0 /\ 1..0 = {} /\ \A c \in Client : call[c].phase = "none"
    BY DEF Init, NoCall
  <2>2. "status" \in Client
    BY DEF Client
  <2>3. ConnectedOK
    BY <2>1, <2>2 DEF ConnectedOK, Sent, running
  <2>4. due \in BOOLEAN
    BY DEF Init
  <2>5. LoopOK
    BY <2>4 DEF Init, LoopOK
  <2> QED
    BY <2>3, <2>5
<1>2. DeskInv /\ Inv /\ [Next]_vars => Inv'
  <2> SUFFICES ASSUME DeskInv, ConnectedOK, LoopOK, [Next]_vars PROVE ConnectedOK' /\ LoopOK'
    OBVIOUS
  <2>1. ConnectionStep /\ (running("status")' => ~running("queue")')
    BY NextConnectionStep
  <2>2. backlog \in Seq(Client)
    BY DEF DeskInv, CallsOK
  <2>3. ConnectedOK'
    BY <2>1, <2>2, ConnectionKept DEF ConnectedOK, Sent
  <2> QED
    BY <2>3, LoopStep
<1>3. DeskInv /\ Inv => DeskTypeOK
  <2> SUFFICES ASSUME DeskInv, ConnectedOK, LoopOK PROVE DeskTypeOK
    OBVIOUS
  <2>1. due \in BOOLEAN
    BY DEF LoopOK
  <2> QED
    BY <2>1 DEF DeskInv, StoreOK, AnsweringOK, ConnectedOK, Sent, LoopOK, DeskTypeOK
<1> HIDE DEF Inv
<1> QED
  BY <1>1, <1>2, <1>3, DeskInvariant, PTL DEF Spec
=============================================================================
