---------------------------- MODULE RulesProofs ----------------------------
(***************************************************************************)
(* What the rules decide, for every list of rules and every file.           *)
(***************************************************************************)
EXTENDS Rules, FiniteSetTheorems, TLAPS

(* Rule i matches and no matching rule outranks it; every one as high says d. *)
Agreed(rules, facts, d) ==
    \E i \in matches(rules, facts) : \A j \in matches(rules, facts) :
        \/ rules[j].priority < rules[i].priority
        \/ rules[j].priority = rules[i].priority /\ rules[j].destination = d

(* Priorities are integers (i32). *)
Ranked(rules) == \A i \in DOMAIN rules : rules[i].priority \in Int

(* The highest matching rules agree exactly when they name one destination. *)
LEMMA AgreedIsSingle ==
  ASSUME NEW rules, NEW facts, NEW d, Ranked(rules)
  PROVE  Agreed(rules, facts, d) <=> destinations(rules, facts) = {d}
<1> DEFINE M == matches(rules, facts)
           T == top(rules, facts)
<1>0. \A i \in M : i \in DOMAIN rules /\ rules[i].priority \in Int
  BY DEF matches, Ranked
<1>1. T = {i \in M : \A j \in M : rules[j].priority <= rules[i].priority}
  BY DEF top
<1>2. destinations(rules, facts) = {rules[i].destination : i \in T}
  BY DEF destinations
<1>3. ASSUME Agreed(rules, facts, d)
      PROVE  destinations(rules, facts) = {d}
  <2>1. PICK i \in M : \A j \in M :
            \/ rules[j].priority < rules[i].priority
            \/ rules[j].priority = rules[i].priority /\ rules[j].destination = d
    BY <1>3 DEF Agreed
  <2>2. \A j \in M : rules[j].priority <= rules[i].priority
    BY <2>1, <1>0
  <2>3. i \in T
    BY <2>2, <1>1
  <2>4. \A j \in T : rules[j].destination = d
    <3> SUFFICES ASSUME NEW j \in T PROVE rules[j].destination = d
      OBVIOUS
    <3>1. j \in M /\ rules[i].priority <= rules[j].priority
      BY <1>1, <2>1
    <3> QED
      BY <3>1, <2>1, <1>0
  <2> HIDE DEF M, T
  <2> QED
    BY <1>2, <2>3, <2>4
<1>4. ASSUME destinations(rules, facts) = {d}
      PROVE  Agreed(rules, facts, d)
  <2>1. PICK i \in T : rules[i].destination = d
    BY <1>2, <1>4
  <2>2. i \in M /\ \A j \in M : rules[j].priority <= rules[i].priority
    BY <1>1, <2>1
  <2>3. ASSUME NEW j \in M, ~(rules[j].priority < rules[i].priority)
        PROVE  rules[j].priority = rules[i].priority /\ rules[j].destination = d
    <3>1. rules[j].priority = rules[i].priority
      BY <2>2, <2>3, <1>0
    <3>2. j \in T
      BY <3>1, <2>2, <1>1
    <3>3. rules[j].destination \in destinations(rules, facts)
      BY <3>2, <1>2
    <3> QED
      BY <3>1, <3>3, <1>4
  <2> QED
    BY <2>2, <2>3 DEF Agreed
<1> QED
  BY <1>3, <1>4

(* The destinations of a list of rules are finitely many. *)
LEMMA DestinationsFinite ==
  ASSUME NEW S, NEW rules \in Seq(S), NEW facts
  PROVE  IsFiniteSet(destinations(rules, facts))
<1> DEFINE T == top(rules, facts)
           D == destinations(rules, facts)
           f == [i \in T |-> rules[i].destination]
<1>1. Len(rules) \in Nat /\ DOMAIN rules = 1..Len(rules)
  OBVIOUS
<1>2. IsFiniteSet(DOMAIN rules)
  BY <1>1, FS_Interval
<1>3. T \subseteq DOMAIN rules
  BY DEF top, matches
<1>4. IsFiniteSet(T)
  BY <1>2, <1>3, FS_Subset
<1>5. D = {rules[i].destination : i \in T}
  BY DEF destinations
<1> HIDE DEF T, D
<1>6. f \in [T -> D]
  BY <1>5
<1>7. \A d \in D : \E i \in T : f[i] = d
  BY <1>5
<1>8. f \in Surjection(T, D)
  BY <1>6, <1>7 DEF Surjection
<1>9. IsFiniteSet(D)
  BY <1>4, <1>8, FS_Surjection
<1> QED
  BY <1>9 DEF D

(***************************************************************************)
(* A list of rules that can be used at all names a destination exactly when *)
(* the matching rules that no matching rule outranks agree on it, and       *)
(* abstains exactly when none matches (evaluate_rules; ADR 0001 "All        *)
(* highest-priority matches are considered").                               *)
(***************************************************************************)
THEOREM RulesDecide ==
  ASSUME NEW S, NEW rules \in Seq(S), NEW facts, Ranked(rules),
         evaluate_rules(rules, facts) # RuleError
  PROVE  /\ \A d : evaluate_rules(rules, facts) = Destination(d) <=> Agreed(rules, facts, d)
         /\ evaluate_rules(rules, facts) = Abstain <=> matches(rules, facts) = {}
         /\ evaluate_rules(rules, facts).decision \in {"destination", "tie", "abstain"}
         /\ evaluate_rules(rules, facts).decision = "destination" =>
               Agreed(rules, facts, evaluate_rules(rules, facts).destination)
         /\ evaluate_rules(rules, facts).decision # "destination" =>
               \A d : ~Agreed(rules, facts, d)
<1> DEFINE D == destinations(rules, facts)
           result == evaluate_rules(rules, facts)
<1>1. result = IF matches(rules, facts) = {} THEN Abstain
               ELSE IF Cardinality(D) = 1 THEN Destination(CHOOSE d \in D : TRUE) ELSE Tie
  BY DEF evaluate_rules
<1>2. IsFiniteSet(D)
  BY DestinationsFinite
<1>3. \A d : Agreed(rules, facts, d) <=> D = {d}
  BY AgreedIsSingle
<1>4. \A d : D = {d} => Cardinality(D) = 1 /\ (CHOOSE e \in D : TRUE) = d
  BY FS_Singleton
<1>5. ASSUME Cardinality(D) = 1
      PROVE  D = {CHOOSE e \in D : TRUE}
  <2>1. PICK x : D = {x}
    BY <1>2, <1>5, FS_Singleton
  <2> QED
    BY <2>1
<1>6. ASSUME matches(rules, facts) = {}
      PROVE  \A d : ~Agreed(rules, facts, d)
  BY <1>6 DEF Agreed
<1>7. CASE matches(rules, facts) = {}
  <2>1. result = Abstain
    BY <1>1, <1>7
  <2>2. \A d : Destination(d) # Abstain
    BY DEF Destination, Abstain
  <2>3. result.decision = "abstain"
    BY <2>1 DEF Abstain
  <2> QED
    BY <2>1, <2>2, <2>3, <1>6, <1>7
<1>8. CASE matches(rules, facts) # {} /\ Cardinality(D) = 1
  <2> DEFINE d0 == CHOOSE e \in D : TRUE
  <2>1. result = Destination(d0) /\ D = {d0}
    BY <1>1, <1>5, <1>8
  <2> HIDE DEF d0, D, result
  <2>2. result.decision = "destination" /\ result.destination = d0 /\ result # Abstain
    BY <2>1 DEF Destination, Abstain
  <2>3. \A d : result = Destination(d) <=> d = d0
    BY <2>1 DEF Destination
  <2>4. \A d : Agreed(rules, facts, d) <=> d = d0
    BY <2>1, <1>3
  <2> QED
    BY <2>2, <2>3, <2>4, <1>8 DEF result
<1>9. CASE matches(rules, facts) # {} /\ Cardinality(D) # 1
  <2>1. result = Tie
    BY <1>1, <1>9
  <2>2. \A d : ~Agreed(rules, facts, d)
    BY <1>3, <1>4, <1>9
  <2>3. result.decision = "tie" /\ result # Abstain /\ \A d : result # Destination(d)
    BY <2>1 DEF Tie, Abstain, Destination
  <2> QED
    BY <2>2, <2>3, <1>9
<1> QED
  BY <1>7, <1>8, <1>9

(***************************************************************************)
(* A rule that is added below a rule that matches changes nothing: neither  *)
(* a decision nor a tie (evaluate_rules, create_rule_from_proposal).        *)
(***************************************************************************)
THEOREM LowerRuleIrrelevant ==
  ASSUME NEW S, NEW rules \in Seq(S), NEW facts, NEW rule, Ranked(rules),
         rule.priority \in Int, validate_rule(rule), Len(rules) < MAX_RULES,
         NEW i \in matches(rules, facts), rule.priority < rules[i].priority
  PROVE  evaluate_rules(Append(rules, rule), facts) = evaluate_rules(rules, facts)
<1> DEFINE more == Append(rules, rule)
           n == Len(rules)
<1>1. /\ n \in Nat /\ DOMAIN rules = 1..n /\ DOMAIN more = 1..(n + 1) /\ Len(more) = n + 1
      /\ more[n + 1] = rule /\ \A j \in 1..n : more[j] = rules[j]
  <2>1. rules \in Seq(S \cup {rule}) /\ rule \in S \cup {rule}
    OBVIOUS
  <2> QED
    BY <2>1
<1> HIDE DEF more, n
<1>2. /\ i \in 1..n /\ rules[i].priority \in Int /\ i \in matches(more, facts)
      /\ more[i] = rules[i]
  BY <1>1 DEF matches, Ranked
<1>3. \A j \in 1..n : /\ j \in matches(more, facts) <=> j \in matches(rules, facts)
                      /\ rules[j].priority \in Int
  <2>1. \A j \in 1..n : rules[j].priority \in Int
    BY <1>1 DEF Ranked
  <2>2. \A j \in 1..n : j \in matches(more, facts) <=> j \in matches(rules, facts)
    BY <1>1 DEF matches
  <2> QED
    BY <2>1, <2>2
<1>4. \A j : j \in matches(more, facts) => j \in matches(rules, facts) \/ j = n + 1
  BY <1>1, <1>3 DEF matches
<1>5. \A j : j \in matches(rules, facts) => j \in 1..n
  BY <1>1 DEF matches
<1>6. top(more, facts) = top(rules, facts)
  <2>1. ASSUME NEW j \in top(more, facts) PROVE j \in top(rules, facts)
    <3>1. j \in matches(more, facts) /\ more[i].priority <= more[j].priority
      BY <1>2, <2>1 DEF top
    <3>2. j # n + 1
      BY <3>1, <1>1, <1>2
    <3>3. j \in matches(rules, facts) /\ j \in 1..n
      BY <3>1, <3>2, <1>4, <1>5
    <3>4. \A k \in matches(rules, facts) : rules[k].priority <= rules[j].priority
      BY <3>3, <1>1, <1>3, <1>5, <2>1 DEF top
    <3> QED
      BY <3>3, <3>4 DEF top
  <2>2. ASSUME NEW j \in top(rules, facts) PROVE j \in top(more, facts)
    <3>1. j \in matches(rules, facts) /\ j \in 1..n /\ rules[i].priority <= rules[j].priority
      BY <1>5, <2>2 DEF top
    <3>2. \A k \in matches(more, facts) : more[k].priority <= more[j].priority
      <4> SUFFICES ASSUME NEW k \in matches(more, facts)
                   PROVE  more[k].priority <= more[j].priority
        OBVIOUS
      <4>1. CASE k = n + 1
        <5>1. more[k].priority = rule.priority /\ more[j].priority = rules[j].priority
          BY <4>1, <3>1, <1>1
        <5>2. rules[j].priority \in Int /\ rules[i].priority \in Int
          BY <3>1, <1>2, <1>3
        <5> QED
          BY <5>1, <5>2, <3>1
      <4>2. CASE k # n + 1
        BY <4>2, <1>1, <1>4, <1>5, <3>1, <2>2 DEF top
      <4> QED
        BY <4>1, <4>2
    <3> QED
      BY <3>1, <3>2, <1>3 DEF top
  <2> QED
    BY <2>1, <2>2
<1>7. destinations(more, facts) = destinations(rules, facts)
  <2>1. \A j \in top(rules, facts) : more[j] = rules[j]
    BY <1>1, <1>5 DEF top
  <2> QED
    BY <2>1, <1>6 DEF destinations
<1>8. (\E j \in DOMAIN more : ~validate_rule(more[j]))
        <=> (\E j \in DOMAIN rules : ~validate_rule(rules[j]))
  BY <1>1
<1>9. ~(Len(more) > MAX_RULES) /\ ~(Len(rules) > MAX_RULES)
  BY <1>1, RulesAssumption DEF n
<1>10. matches(more, facts) # {} /\ matches(rules, facts) # {}
  BY <1>2
<1> QED
  BY <1>7, <1>8, <1>9, <1>10 DEF evaluate_rules, more
=============================================================================
