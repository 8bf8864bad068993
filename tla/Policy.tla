------------------------------- MODULE Policy -------------------------------
(***************************************************************************)
(* YAMLPolicyEngine (policy.py): a policy document is checked and its      *)
(* patterns are compiled once, then requests are evaluated against its     *)
(* rules in order.                                                         *)
(*                                                                         *)
(* A rule's `when` is the sequence of its tests in document order: each    *)
(* condition is one test, or one test for each of its operators.  Values   *)
(* are tagged with their type; numbers are counted in a unit of which all  *)
(* are multiples.  What a pattern or a wildcard fits is a parameter, as it *)
(* is the regular expression library's.                                    *)
(***************************************************************************)
EXTENDS Integers, Sequences

CONSTANTS
  Documents,   \* the documents an engine may be made of
  Requests,    \* the requests it may be asked about
  Fits,        \* the <<pattern, value>> that fit
  None         \* no request yet

ASSUME DocumentAssumption ==
  \A d \in Documents :
    /\ Len(d.rules) \in Nat
    /\ \A i \in 1 .. Len(d.rules) : Len(d.rules[i].when) \in Nat

VARIABLES
  policy,      \* the document
  patterns,    \* the compiled patterns, by rule index and key
  pc,          \* what the engine is doing
  request,     \* the request under evaluation
  rule,        \* the index of the rule it has come to
  answers      \* the <<request, answer>> given so far

vars == <<policy, patterns, pc, request, rule, answers>>

\* The type is "bool", "int" or "float": 1, 1.0 and True are one number, which
\* str() writes in three ways.
Number(n, type) == [number |-> n, type |-> type]
Nan == [nan |-> TRUE]
Text(t) == [text |-> t]
List(items) == [items |-> items]
Regex(t) == [regex |-> t]        \* one that compiles and is not too long
BadRegex(t) == [badRegex |-> t]
Missing == [missing |-> TRUE]

Is(tag, value) == tag \in DOMAIN value

Numeric(value) == Is("number", value) \/ Is("nan", value)

\* The == of Python.
Equal(v, w) ==
  \/ v = w /\ ~ Is("nan", v)
  \/ Is("number", v) /\ Is("number", w) /\ v.number = w.number

Comparisons == {"gt", "lt", "gte", "lte"}

Operators == Comparisons \cup {"in", "not_in", "pattern"}

Verdicts == {"allow", "deny", "escalate", "error"}

Errors == {"PolicyEvaluationError", "InvalidPolicyError"}

Rules == policy.rules

-----------------------------------------------------------------------------
(***************************************************************************)
(* Loading.                                                                *)
(***************************************************************************)

\* The tests of rule i that have a pattern; a `when` that is not a mapping is
\* passed over.
PatternTests(i) ==
  {j \in 1 .. Len(Rules[i].when) : Rules[i].mapping /\ Rules[i].when[j].op = "pattern"}

\* _validate finds nothing missing, and every pattern compiles.
Loadable ==
  /\ policy.missing = {}
  /\ \A i \in 1 .. Len(Rules) : \A j \in PatternTests(i) :
       Is("regex", Rules[i].when[j].value)

\* Mutation: the patterns are cached by their key alone, under the last rule.
CompiledByKey ==
  UNION {{<<Len(Rules), Rules[i].when[j].key>> : j \in PatternTests(i)} :
           i \in 1 .. Len(Rules)}

Compiled ==
  UNION {{<<i, Rules[i].when[j].key>> : j \in PatternTests(i)} : i \in 1 .. Len(Rules)}

-----------------------------------------------------------------------------
(***************************************************************************)
(* One test of a rule.                                                     *)
(***************************************************************************)

Resolve(key, r) ==
  IF key \in {"tool", "agent"} THEN Text(r[key])
  ELSE IF key \in DOMAIN r.arguments THEN r.arguments[key]
  ELSE IF key \in DOMAIN r.context THEN r.context[key]
  ELSE Missing

Compares(op, actual, bound) ==
  \/ op = "gt" /\ actual > bound
  \/ op = "lt" /\ actual < bound
  \/ op = "gte" /\ actual >= bound
  \/ op = "lte" /\ actual <= bound

\* What a test asks of a value; Holds adds what the engine has compiled.
Satisfies(actual, test) ==
  \/ test.op = "equals" /\ Equal(actual, test.value)
  \/ /\ test.op \in {"wildcard", "pattern"}
     /\ ~ Is("missing", actual)
     /\ <<test.value, actual>> \in Fits
  \/ /\ test.op \in Comparisons
     /\ Is("number", actual) /\ Is("number", test.value)
     /\ Compares(test.op, actual.number, test.value.number)
  \/ /\ test.op = "in" /\ Is("items", test.value)
     /\ \E item \in test.value.items : Equal(actual, item)
  \/ /\ test.op = "not_in" /\ Is("items", test.value)
     /\ \A item \in test.value.items : ~ Equal(actual, item)

Value(test) == Resolve(test.key, request)

Holds(i, test) ==
  /\ Satisfies(Value(test), test)
  /\ test.op = "pattern" => <<i, test.key>> \in patterns

\* An unknown operator, a number compared with something else, or a pattern
\* that was not compiled.
Raises(i, test) ==
  \/ test.op \notin Operators \cup {"equals", "wildcard"}
  \/ /\ test.op \in Comparisons
     /\ Numeric(Value(test)) /\ ~ Numeric(test.value)
  \/ /\ test.op = "pattern"
     /\ ~ Is("missing", Value(test)) /\ <<i, test.key>> \notin patterns

-----------------------------------------------------------------------------
(***************************************************************************)
(* A rule: its tests in order, up to the first that does not hold.         *)
(***************************************************************************)

Tests(i) == 1 .. Len(Rules[i].when)

HoldsUpTo(i, j) == \A k \in Tests(i) : k < j => Holds(i, Rules[i].when[k])

RuleMatches(i) ==
  Rules[i].mapping /\ \A j \in Tests(i) : Holds(i, Rules[i].when[j])

RuleFails(i) ==
  /\ Rules[i].mapping
  /\ \E j \in Tests(i) :
       /\ HoldsUpTo(i, j)
       /\ ~ Holds(i, Rules[i].when[j])
       /\ ~ Raises(i, Rules[i].when[j])

\* A `when` that is neither empty nor a mapping has no items.
RuleRaises(i) ==
  \/ ~ Rules[i].mapping
  \/ \E j \in Tests(i) : HoldsUpTo(i, j) /\ Raises(i, Rules[i].when[j])

\* A rule's action may be any YAML value, the default was made a text.
ParseVerdict(action, other) ==
  IF action \in Verdicts THEN action
  ELSE IF action = "not a text" THEN other ELSE "InvalidPolicyError"

-----------------------------------------------------------------------------

Init ==
  /\ policy \in Documents
  /\ patterns = {}
  /\ pc = "load"
  /\ request = None
  /\ rule = 0
  /\ answers = {}

Load ==
  /\ pc = "load"
  /\ Loadable
  /\ patterns' = Compiled
  /\ pc' = "ready"
  /\ UNCHANGED <<policy, request, rule, answers>>

Reject ==
  /\ pc = "load"
  /\ ~ Loadable
  /\ pc' = "rejected"
  /\ UNCHANGED <<policy, patterns, request, rule, answers>>

Evaluate(r) ==
  /\ pc = "ready"
  /\ request' = r
  /\ rule' = 1
  /\ pc' = "scan"
  /\ UNCHANGED <<policy, patterns, answers>>

Give(answer) ==
  /\ answers' = answers \cup {<<request, answer>>}
  /\ pc' = "ready"
  /\ UNCHANGED <<policy, patterns, request, rule>>

AtRule == pc = "scan" /\ rule <= Len(Rules)

NextRule ==
  /\ AtRule
  /\ RuleFails(rule)
  /\ rule' = rule + 1
  /\ UNCHANGED <<policy, patterns, pc, request, answers>>

Match ==
  /\ AtRule
  /\ RuleMatches(rule)
  /\ Give(ParseVerdict(Rules[rule].action, "PolicyEvaluationError"))

RaiseError ==
  /\ AtRule
  /\ RuleRaises(rule)
  /\ Give("PolicyEvaluationError")

\* Mutation: the last rule is not looked at.
DefaultBeforeLast ==
  /\ pc = "scan"
  /\ rule >= Len(Rules)
  /\ Give(ParseVerdict(policy.default, "InvalidPolicyError"))

Default ==
  /\ pc = "scan"
  /\ rule > Len(Rules)
  /\ Give(ParseVerdict(policy.default, "InvalidPolicyError"))

\* There is no engine.
Rejected == pc = "rejected" /\ UNCHANGED vars

Next ==
  \/ Load
  \/ Reject
  \/ \E r \in Requests : Evaluate(r)
  \/ NextRule
  \/ Match
  \/ RaiseError
  \/ Default
  \/ Rejected

Spec == Init /\ [][Next]_vars

-----------------------------------------------------------------------------
(***************************************************************************)
(* Properties.                                                             *)
(***************************************************************************)

SatisfiedBy(i, r) ==
  /\ Rules[i].mapping
  /\ \A j \in Tests(i) :
       Satisfies(Resolve(Rules[i].when[j].key, r), Rules[i].when[j])

IsFirst(i, r) ==
  /\ SatisfiedBy(i, r)
  /\ \A k \in 1 .. i - 1 : ~ SatisfiedBy(k, r)

IsFirstMatch(r, verdict) ==
  \/ \E i \in 1 .. Len(Rules) : IsFirst(i, r) /\ verdict = Rules[i].action
  \/ /\ \A i \in 1 .. Len(Rules) : ~ SatisfiedBy(i, r)
     /\ verdict = policy.default

\* An answer that is a verdict is the action of the first rule whose tests
\* the request satisfies, or the default when there is none, whatever was
\* compiled and however often the engine was asked (policy.py, evaluate).
AnswersAreFirstMatch ==
  \A answer \in answers :
    answer[2] \notin Errors => IsFirstMatch(answer[1], answer[2])

\* A document without a mistake of its own: known operators, numbers for
\* bounds, actions that are verdicts.
WellMade ==
  /\ policy.default \in Verdicts
  /\ \A i \in 1 .. Len(Rules) :
       /\ Rules[i].mapping /\ Rules[i].action \in Verdicts
       /\ \A j \in Tests(i) :
            LET test == Rules[i].when[j]
            IN  /\ test.op \in Operators \cup {"equals", "wildcard"}
                /\ test.op \in Comparisons => Numeric(test.value)

\* A document without a mistake never fails in evaluation: in particular
\* every pattern that a rule may come to was compiled when it was loaded
\* (policy.py, _compile_patterns).
WellMadeNeverFails ==
  WellMade => \A answer \in answers : answer[2] \notin Errors

=============================================================================
