------------------------------- MODULE Intake -------------------------------
(***************************************************************************)
(* The way of a file into the review queue: the watcher finds it settled,   *)
(* the rules decide, and where they tie or abstain the metadata agent is    *)
(* asked while the daemon's only thread waits for it.  Rules, destinations  *)
(* and the agent's settings are changed by requests between two scans.      *)
(***************************************************************************)
EXTENDS Watcher, Agent, Rules

CONSTANTS
    Directory,   \* directories below a destination root
    Extension,   \* the lower-case extension of each file, or None
    Mime,        \* what sniff_mime finds in each file, or None
    SourceDir,   \* the folder of each file, relative to its root
    Priority,    \* the priorities that requests give to rules
    StartRules   \* the rules that state.json may hold at the start

ASSUME IntakeAssumption ==
    /\ Priority \subseteq Int
    /\ [root : RootId, directory : Directory \cup {"."}] \subseteq Choice
    /\ \A r \in StartRules :
          /\ r \in Seq({r[i] : i \in DOMAIN r}) /\ Len(r) <= MAX_RULES
          /\ \A i \in DOMAIN r : /\ validate_rule(r[i]) /\ r[i].priority \in Int
                                 /\ r[i].destination \in Choice

VARIABLES
    rules,
    dests,    \* the enrolled destination roots
    agentOn   \* the agent is configured and enabled

configVars == <<rules, dests, agentOn>>
vars == <<watcherVars, agentVars, configVars>>

facts_for(f) ==
    [extension |-> Extension[f], verified_mime |-> Mime[f], filename |-> f,
     source_root_id |-> RootOf[f], source_directory |-> SourceDir[f],
     completed |-> TRUE]

-----------------------------------------------------------------------------
(* Ask the agent, if it is enabled and has a destination to choose. *)
agent_or_fallback ==
    IF agentOn /\ dests # {}
    THEN spawn(dests) /\ UNCHANGED watcherVars
    ELSE /\ decided(NoChoice)
         /\ UNCHANGED <<fileVars, sample, storeVars, left, since, spent, agentVars>>

(* evaluate_rules in consider. *)
decide ==
    LET result == evaluate_rules(rules, facts_for(cur.file)) IN
    /\ pc = "decide" /\ phase = "none"
    /\ \/ result.decision = "error" /\ abort /\ UNCHANGED agentVars
       \/ /\ result.decision = "destination" /\ decided(result.destination)
          /\ UNCHANGED <<fileVars, sample, storeVars, left, since, spent, agentVars>>
       \/ result.decision \in {"tie", "abstain"} /\ agent_or_fallback
    /\ UNCHANGED configVars

(* Wrong variant: the answer is kept, for the next file to find. *)
agent_answer_kept ==
    /\ phase = "returned" /\ UNCHANGED agentVars
    /\ decided(IF outcome.destination = NoRoot THEN NoChoice
               ELSE [root |-> outcome.destination, directory |-> "."])
    /\ UNCHANGED <<fileVars, sample, storeVars, left, since, spent, configVars>>

(* The agent's answer; after an error the file is proposed without one. *)
agent_answer ==
    /\ phase = "returned" /\ forget
    /\ decided(IF outcome.destination = NoRoot THEN NoChoice
               ELSE [root |-> outcome.destination, directory |-> "."])
    /\ UNCHANGED <<fileVars, sample, storeVars, left, since, spent, configVars>>

classify == classify_steps /\ UNCHANGED <<watcherVars, configVars>>

(* Time passes for the files too while the daemon waits. *)
agent_waits == (poll_again \/ blocked) /\ elapse /\ UNCHANGED configVars

-----------------------------------------------------------------------------
(* Wrong variant: the rule is stored without having been tried. *)
create_rule_untried(i, priority) ==
    LET p == proposals[i]
        rule == [priority |-> priority,
                 predicates |-> {[kind |-> "extension", value |-> Extension[p.file]]},
                 destination |-> p.destination]
    IN  /\ pc = "idle" /\ event /\ Len(rules) < MAX_RULES
        /\ p.status # "absent" /\ p.destination # NoChoice /\ Extension[p.file] # None
        /\ rules' = Append(rules, rule)
        /\ UNCHANGED <<proposals, interrupted, orphans, paused>> /\ save
        /\ UNCHANGED <<fileVars, sample, scanVars, since, agentVars, dests, agentOn>>

(* A rule for the extension of a proposal, tried on its file first. *)
create_rule_from_proposal(i, priority) ==
    LET p == proposals[i]
        rule == [priority |-> priority,
                 predicates |-> {[kind |-> "extension", value |-> Extension[p.file]]},
                 destination |-> p.destination]
    IN  /\ pc = "idle" /\ event /\ Len(rules) < MAX_RULES
        /\ p.status # "absent" /\ p.destination # NoChoice /\ Extension[p.file] # None
        /\ evaluate_rules(<<rule>>, facts_for(p.file)) # RuleError
        /\ rules' = Append(rules, rule)
        /\ UNCHANGED <<proposals, interrupted, orphans, paused>> /\ save
        /\ UNCHANGED <<fileVars, sample, scanVars, since, agentVars, dests, agentOn>>

(* remove_root of a destination: rules that name it stay. *)
remove_destination(r) ==
    /\ pc = "idle" /\ event /\ r \in dests
    /\ dests' = dests \ {r}
    /\ UNCHANGED <<proposals, interrupted, orphans, paused>> /\ save
    /\ UNCHANGED <<fileVars, sample, scanVars, since, agentVars, rules, agentOn>>

(* configure_metadata_agent and disable_agent. *)
configure_agent(on) ==
    /\ pc = "idle" /\ event /\ agentOn' = on
    /\ UNCHANGED <<proposals, interrupted, orphans, paused>> /\ save
    /\ UNCHANGED <<fileVars, sample, scanVars, since, agentVars, rules, dests>>

(* choose_destination: a registered destination and a safe directory. *)
choose_destination(i, r, directory) ==
    /\ r \in dests /\ validate_relative_directory(directory)
    /\ redirect(i, [root |-> r, directory |-> directory])

-----------------------------------------------------------------------------
Init ==
    /\ WatcherInit /\ AgentInit
    /\ rules \in StartRules /\ dests = RootId /\ agentOn \in BOOLEAN

Configure ==
    \/ \E i \in Identity, p \in Priority : create_rule_from_proposal(i, p)
    \/ \E r \in RootId : remove_destination(r)
    \/ \E on \in BOOLEAN : configure_agent(on)

Redirect ==
    \E i \in Identity, r \in RootId, d \in Directory : choose_destination(i, r, d)

Daemon ==
    \/ Scanning /\ UNCHANGED <<agentVars, configVars>>
    \/ decide \/ agent_answer \/ classify

Time == (tick /\ UNCHANGED <<agentVars, configVars>>) \/ agent_waits

(* Requests, other programs, and the agent's own processes. *)
Environment ==
    \/ (Requests \/ Redirect \/ OtherPrograms) /\ UNCHANGED <<agentVars, configVars>>
    \/ /\ \E o \in Output, h \in BOOLEAN : child_exits(o, h)
       /\ UNCHANGED <<watcherVars, configVars>>

pipe_released == pipe_closes /\ UNCHANGED <<watcherVars, configVars>>

Crash == crash /\ forget /\ UNCHANGED configVars

Next == Configure \/ Daemon \/ Time \/ Environment \/ pipe_released \/ Crash

(***************************************************************************)
(* The loop of the daemon is never left, its clock runs, and every process  *)
(* that holds the agent's pipe ends at some time.  Nothing is assumed of    *)
(* requests, of other programs or of the agent.                             *)
(***************************************************************************)
Spec == Init /\ [][Next]_vars /\ WF_vars(Daemon) /\ WF_vars(Time) /\ WF_vars(pipe_released)

-----------------------------------------------------------------------------
IntakeTypeOK ==
    /\ WatcherTypeOK /\ AgentTypeOK
    /\ dests \subseteq RootId /\ agentOn \in BOOLEAN
    /\ Len(rules) <= MAX_RULES
    /\ phase # "none" => pc = "decide"

(* d is what every rule says that matches f and that no such rule outranks. *)
Unanimous(f, d) ==
    LET matching == {i \in DOMAIN rules : rule_matches(rules[i], facts_for(f))} IN
    \E i \in matching : \A j \in matching :
        \/ rules[j].priority < rules[i].priority
        \/ rules[j].priority = rules[i].priority /\ rules[j].destination = d

(***************************************************************************)
(* Every proposal is explained: its destination is what the top rules agree *)
(* on, whether or not an agent runs, and otherwise nothing or an enrolled   *)
(* destination that the enabled agent named (consider, agent_or_fallback,   *)
(* classify; SPEC.md:17 "may supplement only no-match/tie outcomes").       *)
(***************************************************************************)
DecisionExplained ==
    [][(pc = "create" /\ pc' = "list") =>
          LET d == proposals'[cur.identity].destination IN
          IF \E i \in DOMAIN rules : Unanimous(cur.file, rules[i].destination)
          THEN Unanimous(cur.file, d)
          ELSE d = NoChoice \/ (agentOn /\ d.root \in dests /\ d.directory = ".")]_vars

(***************************************************************************)
(* No request can store a rule that makes a later scan fail: one rule that  *)
(* does not validate, or one too many, would abort every scan at the first  *)
(* new file (create_rule_from_proposal against evaluate_rules).             *)
(***************************************************************************)
RulesUsable == \A f \in File : evaluate_rules(rules, facts_for(f)) # RuleError

(***************************************************************************)
(* A classification returns: no agent, whatever it answers or fails to      *)
(* answer, stops the daemon for good, provided that the processes it leaves *)
(* behind end (classify).                                                   *)
(***************************************************************************)
ClassifyReturns == phase # "none" ~> phase = "none"
=============================================================================
