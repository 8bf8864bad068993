--------------------------- MODULE MCCheckCommand ---------------------------
(***************************************************************************)
(* Instances of CheckCommand for TLC: the policies and requests of         *)
(* MCPolicy for the engine alone, and for the command policies of at most  *)
(* two rules over pairs of each type, repeated and malformed.              *)
(***************************************************************************)
EXTENDS CheckCommand, MCPolicy

CommandRules ==
  {Rule("escalate", <<Test("amount", "gt", Whole(1))>>),
   Rule("allow", <<Test("tool", "equals", Text("read")),
                   Test("amount", "lte", Whole(1))>>),
   Rule("deny", <<Test("env", "equals", Text("prod"))>>),
   Rule("allow", <<Test("dry", "equals", Whole(1))>>),
   Rule("deny", <<Test("amount", "pattern", Regex("1.*"))>>),
   Rule("escalate", <<Test("dry", "pattern", Regex("True"))>>),
   Rule("permit", <<Test("amount", "equals", Text("much"))>>),
   Rule("deny", <<Test("amount", "gte", Text("1"))>>),
   Rule("allow", <<Test("tool", "pattern", BadRegex("("))>>)}

CommandPolicies ==
  [missing : {{}}, default : {"deny", "allow"}, rules : BoundedSeq(CommandRules, 2)]

PairLists ==
  BoundedSeq({<<"amount", "1">>, <<"amount", "1.0">>, <<"amount", "2.5">>,
              <<"amount", "nan">>, <<"amount", "much">>, <<"dry", "True">>, <<"dry", "1">>,
              <<"dry">>}, 2)

SomeCommandLines ==
  [policy : CommandPolicies, tool : {"read", "pay"}, agent : {"agent"},
   arg : PairLists, context : {<< >>, <<<<"env", "prod">>>>, <<<<"env">>>>}]

SomeInts == [t \in {"1"} |-> 2]

SomeFloats ==
  [t \in {"1.0", "2.5", "nan"} |->
     CASE t = "1.0" -> Number(2, "float") [] t = "2.5" -> Number(5, "float") [] t = "nan" -> Nan]

AllPolicies == SomePolicies \cup CommandPolicies

=============================================================================
