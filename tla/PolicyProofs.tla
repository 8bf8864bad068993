---------------------------- MODULE PolicyProofs ----------------------------
(***************************************************************************)
(* Proofs about Policy: for any documents, requests and patterns.          *)
(***************************************************************************)
EXTENDS Policy, TLAPS

USE DEF Rules

(***************************************************************************)
(* The inductive invariant: a scan has left behind only rules that the     *)
(* request does not satisfy, and a loaded policy has its patterns.         *)
(***************************************************************************)

ScanInv ==
  pc = "scan" =>
    /\ rule \in Nat \ {0}
    /\ \A k \in 1 .. Len(Rules) : k < rule => ~ SatisfiedBy(k, request)

IInv ==
  /\ policy \in Documents
  /\ pc \in {"ready", "scan"} => patterns = Compiled
  /\ ScanInv
  /\ AnswersAreFirstMatch
  /\ WellMadeNeverFails

\* A rule matches only a request that satisfies it, and fails only one that
\* does not, whatever patterns are compiled.
LEMMA RuleIsRight ==
  ASSUME NEW i
  PROVE  /\ RuleMatches(i) => SatisfiedBy(i, request)
         /\ RuleFails(i) => ~ SatisfiedBy(i, request)
<1>1. RuleMatches(i) => SatisfiedBy(i, request)
  BY DEF RuleMatches, SatisfiedBy, Holds, Value
<1>2. ASSUME NEW test, Satisfies(Value(test), test), ~ Raises(i, test)
      PROVE  Holds(i, test)
  <2>1. CASE test.op # "pattern"
    BY <1>2, <2>1 DEF Holds
  <2>2. CASE test.op = "pattern"
    <3>1. ~ Is("missing", Value(test))
      BY <1>2, <2>2 DEF Satisfies, Comparisons
    <3>2. QED  BY <1>2, <2>2, <3>1 DEF Holds, Raises
  <2>3. QED  BY <2>1, <2>2
<1>3. RuleFails(i) => ~ SatisfiedBy(i, request)
  BY <1>2 DEF RuleFails, SatisfiedBy, Value
<1>4. QED  BY <1>1, <1>3

\* No rule of a document without a mistake raises, once its patterns are
\* compiled.
LEMMA WellMadeRulesDecide ==
  ASSUME WellMade, patterns = Compiled, NEW i \in 1 .. Len(Rules)
  PROVE  ~ RuleRaises(i)
<1>1. ASSUME NEW j \in Tests(i) PROVE ~ Raises(i, Rules[i].when[j])
  <2> DEFINE test == Rules[i].when[j]
  <2>1. /\ test.op \in Operators \cup {"equals", "wildcard"}
        /\ test.op \in Comparisons => Numeric(test.value)
    BY <1>1 DEF WellMade
  <2>2. ASSUME test.op = "pattern" PROVE <<i, test.key>> \in patterns
    <3>1. j \in PatternTests(i)
      BY <1>1, <2>2 DEF PatternTests, WellMade, Tests
    <3>2. QED  BY <3>1 DEF Compiled
  <2>3. QED  BY <2>1, <2>2 DEF Raises
<1>2. Rules[i].mapping
  BY DEF WellMade
<1>3. QED  BY <1>1, <1>2 DEF RuleRaises

\* What is right depends on the policy alone.
LEMMA SamePolicy ==
  ASSUME UNCHANGED policy
  PROVE  \A r, a : IsFirstMatch(r, a)' <=> IsFirstMatch(r, a)
BY DEF IsFirstMatch, IsFirst, SatisfiedBy, Tests

\* One more answer keeps both properties, when it is right.
LEMMA GiveKeeps ==
  ASSUME IInv, pc = "scan", NEW answer, Give(answer),
         answer \notin Errors => IsFirstMatch(request, answer),
         WellMade => answer \notin Errors
  PROVE  IInv'
<1>1. /\ answers' = answers \cup {<<request, answer>>} /\ pc' = "ready"
      /\ UNCHANGED <<policy, patterns, request, rule>>
  BY DEF Give
<1>2. policy' \in Documents /\ patterns' = Compiled' /\ ScanInv'
  BY <1>1 DEF IInv, ScanInv, Compiled, PatternTests
<1>3. AnswersAreFirstMatch'
  <2>1. \A r, a : IsFirstMatch(r, a)' <=> IsFirstMatch(r, a)
    BY <1>1, SamePolicy
  <2>2. QED  BY <1>1, <2>1 DEF IInv, AnswersAreFirstMatch
<1>4. WellMadeNeverFails'
  BY <1>1 DEF IInv, WellMadeNeverFails, WellMade, Tests
<1>5. QED  BY <1>2, <1>3, <1>4 DEF IInv

\* A step that gives no answer keeps them.
LEMMA SameAnswers ==
  ASSUME IInv, UNCHANGED <<policy, answers>>
  PROVE  AnswersAreFirstMatch' /\ WellMadeNeverFails' /\ policy' \in Documents
BY SamePolicy DEF IInv, AnswersAreFirstMatch, WellMadeNeverFails, WellMade, Tests

\* A rule that the request does not satisfy is left behind.
LEMMA NextRuleKeeps ==
  ASSUME IInv, NextRule
  PROVE  IInv'
<1>1. /\ rule \in Nat \ {0} /\ rule' = rule + 1 /\ pc = "scan"
      /\ UNCHANGED <<policy, patterns, pc, request, answers>>
  BY DEF NextRule, AtRule, IInv, ScanInv
<1>2. ~ SatisfiedBy(rule, request)
  BY RuleIsRight DEF NextRule
<1>3. \A k \in 1 .. Len(Rules) : k < rule + 1 => k < rule \/ k = rule
  BY <1>1, DocumentAssumption DEF IInv
<1>4. \A k \in 1 .. Len(Rules) : k < rule' => ~ SatisfiedBy(k, request)
  BY <1>1, <1>2, <1>3 DEF IInv, ScanInv
<1>5. ScanInv'
  BY <1>1, <1>4 DEF ScanInv, SatisfiedBy, Tests
<1>6. QED
  BY <1>1, <1>5, SameAnswers DEF IInv, Compiled, PatternTests

\* The first rule that the request satisfies gives the answer.
LEMMA MatchKeeps ==
  ASSUME IInv, Match
  PROVE  IInv'
<1> DEFINE answer == ParseVerdict(Rules[rule].action, "PolicyEvaluationError")
<1>1. pc = "scan" /\ rule \in 1 .. Len(Rules) /\ Give(answer)
  BY DocumentAssumption DEF Match, AtRule, IInv, ScanInv
<1>2. IsFirst(rule, request)
  <2>1. SatisfiedBy(rule, request)
    BY RuleIsRight DEF Match
  <2>2. \A k \in 1 .. rule - 1 : k \in 1 .. Len(Rules) /\ k < rule
    BY <1>1, DocumentAssumption DEF IInv
  <2>3. QED  BY <1>1, <2>1, <2>2 DEF IsFirst, IInv, ScanInv
<1>3. answer \notin Errors => answer = Rules[rule].action
  BY DEF ParseVerdict, Errors
<1>4. WellMade => answer \notin Errors
  BY <1>1 DEF WellMade, ParseVerdict, Errors, Verdicts
<1>5. QED
  <2> HIDE DEF answer
  <2>1. QED  BY <1>1, <1>2, <1>3, <1>4, GiveKeeps DEF IsFirstMatch

\* Only a document with a mistake raises an error.
LEMMA RaiseErrorKeeps ==
  ASSUME IInv, RaiseError
  PROVE  IInv'
<1>1. /\ pc = "scan" /\ rule \in 1 .. Len(Rules)
      /\ Give("PolicyEvaluationError") /\ patterns = Compiled
  BY DocumentAssumption DEF RaiseError, AtRule, IInv, ScanInv
<1>2. ~ WellMade
  BY <1>1, WellMadeRulesDecide DEF RaiseError
<1>3. QED  BY <1>1, <1>2, GiveKeeps DEF Errors

\* The default answers when every rule was left behind.
LEMMA DefaultKeeps ==
  ASSUME IInv, Default
  PROVE  IInv'
<1> DEFINE answer == ParseVerdict(policy.default, "InvalidPolicyError")
<1>1. pc = "scan" /\ Give(answer)
  BY DEF Default
<1>2. \A k \in 1 .. Len(Rules) : k < rule
  BY <1>1, DocumentAssumption DEF Default, IInv, ScanInv
<1>3. \A k \in 1 .. Len(Rules) : ~ SatisfiedBy(k, request)
  BY <1>1, <1>2 DEF IInv, ScanInv
<1>4. answer \notin Errors => answer = policy.default
  BY DEF ParseVerdict, Errors
<1>5. WellMade => answer \notin Errors
  BY DEF WellMade, ParseVerdict, Errors, Verdicts
<1>6. QED
  <2> HIDE DEF answer
  <2>1. QED  BY <1>1, <1>3, <1>4, <1>5, GiveKeeps DEF IsFirstMatch

\* Loading, rejecting and a new request keep the invariant.
LEMMA OtherStepsKeep ==
  ASSUME IInv, Load \/ Reject \/ (\E r : Evaluate(r)) \/ UNCHANGED vars
  PROVE  IInv'
<1>1. CASE Load
  BY <1>1, SameAnswers DEF Load, IInv, ScanInv, Compiled, PatternTests
<1>2. CASE Reject
  BY <1>2, SameAnswers DEF Reject, IInv, ScanInv
<1>3. CASE \E r : Evaluate(r)
  <2>1. /\ rule' = 1 /\ patterns = Compiled
        /\ UNCHANGED <<policy, patterns, answers>>
    BY <1>3 DEF Evaluate, IInv
  <2>2. ScanInv'
    BY <2>1, DocumentAssumption DEF ScanInv, IInv
  <2>3. QED  BY <2>1, <2>2, SameAnswers DEF IInv, Compiled, PatternTests
<1>4. CASE UNCHANGED vars
  <2>1. UNCHANGED <<policy, patterns, pc, request, rule, answers>>
    BY <1>4 DEF vars
  <2>2. QED
    BY <2>1, SameAnswers
       DEF IInv, ScanInv, Compiled, PatternTests, SatisfiedBy, Tests
<1>5. QED  BY <1>1, <1>2, <1>3, <1>4

\* An engine starts with no answer and no scan under way.
LEMMA InitIInv == Init => IInv
BY DEF Init, IInv, ScanInv, AnswersAreFirstMatch, WellMadeNeverFails

\* Every step keeps the invariant.
LEMMA NextIInv == IInv /\ [Next]_vars => IInv'
BY NextRuleKeeps, MatchKeeps, RaiseErrorKeeps, DefaultKeeps, OtherStepsKeep
DEF Next, Rejected

\* The inductive invariant holds in every state of every behaviour.
THEOREM Invariant == Spec => []IInv
BY InitIInv, NextIInv, PTL DEF Spec

\* The scan of the rules answers with the first rule that the request
\* satisfies, or with the default: for every policy and request.
THEOREM FirstMatchWins == Spec => []AnswersAreFirstMatch
<1>1. IInv => AnswersAreFirstMatch
  BY DEF IInv
<1>2. QED  BY <1>1, Invariant, PTL

\* A policy without a mistake never fails on a request; every pattern its
\* rules come to is compiled.
THEOREM WellMadePoliciesAnswer == Spec => []WellMadeNeverFails
<1>1. IInv => WellMadeNeverFails
  BY DEF IInv
<1>2. QED  BY <1>1, Invariant, PTL

=============================================================================
