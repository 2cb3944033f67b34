------------------------------- MODULE Rules -------------------------------
(***************************************************************************)
(* The typed rules of crates/sortinghat-core: a pure function from a list   *)
(* of rules and the facts about one file to a destination, a tie, an        *)
(* abstention or an error.                                                  *)
(***************************************************************************)
EXTENDS Integers, Sequences, FiniteSets

CONSTANTS
    MAX_RULES,      \* rules beyond which evaluation fails (1000)
    None,           \* a fact that is not known
    Lower,          \* the ASCII lower-case form of a value
    Glob,           \* the file names each valid glob pattern matches
    ValidValue,     \* extensions and MIME types that are not empty nor too long
    SafeDirectory   \* what validate_relative_directory accepts

ASSUME RulesAssumption == MAX_RULES \in Nat

(***************************************************************************)
(* A predicate has a kind and a value, a rule a priority, a set of          *)
(* predicates that must all hold, and a destination (a root and a directory *)
(* below it).                                                               *)
(***************************************************************************)
validate_relative_directory(directory) == directory \in SafeDirectory

validate_predicate(predicate) ==
    CASE predicate.kind = "filename_glob"    -> predicate.value \in DOMAIN Glob
      [] predicate.kind \in {"extension", "verified_mime"} ->
            predicate.value \in ValidValue
      [] predicate.kind = "source_directory" ->
            validate_relative_directory(predicate.value)
      [] OTHER -> TRUE

validate_rule(rule) ==
    /\ rule.predicates # {}
    /\ validate_relative_directory(rule.destination.directory)
    /\ \A predicate \in rule.predicates : validate_predicate(predicate)

predicate_matches(predicate, facts) ==
    CASE predicate.kind = "extension" ->
            facts.extension # None /\ Lower[facts.extension] = Lower[predicate.value]
      [] predicate.kind = "verified_mime" ->
            facts.verified_mime # None /\ facts.verified_mime = predicate.value
      [] predicate.kind = "filename_glob" ->
            predicate.value \in DOMAIN Glob /\ facts.filename \in Glob[predicate.value]
      [] predicate.kind = "source_root" -> facts.source_root_id = predicate.value
      [] predicate.kind = "source_directory" -> facts.source_directory = predicate.value
      [] predicate.kind = "completed" -> facts.completed

rule_matches(rule, facts) ==
    \A predicate \in rule.predicates : predicate_matches(predicate, facts)

(* The positions of the rules that match, and of those none outranks. *)
matches(rules, facts) == {i \in DOMAIN rules : rule_matches(rules[i], facts)}

(* Wrong variant: the rule listed first wins. *)
top_first(rules, facts) ==
    {i \in matches(rules, facts) : \A j \in matches(rules, facts) : i <= j}

top(rules, facts) ==
    {i \in matches(rules, facts) :
        \A j \in matches(rules, facts) : rules[j].priority <= rules[i].priority}

destinations(rules, facts) == {rules[i].destination : i \in top(rules, facts)}

Destination(d) == [decision |-> "destination", destination |-> d]
Tie            == [decision |-> "tie", destination |-> None]
Abstain        == [decision |-> "abstain", destination |-> None]
RuleError      == [decision |-> "error", destination |-> None]

evaluate_rules(rules, facts) ==
    IF Len(rules) > MAX_RULES \/ \E i \in DOMAIN rules : ~validate_rule(rules[i])
    THEN RuleError
    ELSE IF matches(rules, facts) = {} THEN Abstain
    ELSE IF Cardinality(destinations(rules, facts)) = 1
    THEN Destination(CHOOSE d \in destinations(rules, facts) : TRUE)
    ELSE Tie
=============================================================================
