------------------------------ MODULE MCPolicy ------------------------------
(***************************************************************************)
(* Instances of Policy for TLC: every policy of at most two rules out of a *)
(* set with each kind of test and each mistake that loading lets pass,     *)
(* three when they have no mistake, and requests that differ in tool and   *)
(* in the amount and how it is written.                                    *)
(***************************************************************************)
EXTENDS Policy, SequencesExt

\* The unit is one half.
Whole(n) == Number(2 * n, "int")

Test(key, op, value) == [key |-> key, op |-> op, value |-> value]

Rule(action, when) == [action |-> action, mapping |-> TRUE, when |-> when]

WellMadeRules ==
  {Rule("escalate", << >>),
   Rule("deny", <<Test("tool", "equals", Text("delete"))>>),
   Rule("deny", <<Test("tool", "pattern", Regex("del.*"))>>),
   Rule("allow", <<Test("tool", "pattern", Regex("re.*")),
                   Test("amount", "pattern", Regex("1"))>>),
   Rule("allow", <<Test("amount", "gt", Whole(1)), Test("amount", "lte", Whole(2)),
                   Test("tool", "wildcard", Text("*"))>>),
   Rule("allow", <<Test("env", "in", List({Text("dev")})),
                   Test("amount", "not_in", List({Whole(1)}))>>)}

OtherRules ==
  {Rule("permit", <<Test("amount", "lt", Whole(2))>>),
   Rule("error", <<Test("amount", "gte", Whole(2))>>),
   Rule("not a text", <<Test("amount", "equals", Missing)>>),
   Rule("allow", <<Test("amount", "gt", Text("1"))>>),
   Rule("allow", <<Test("tool", "equals", Text("read")), Test("amount", "about", Whole(1))>>),
   Rule("deny", <<Test("tool", "pattern", BadRegex("("))>>),
   [Rule("allow", << >>) EXCEPT !.mapping = FALSE]}

SomePolicies ==
  [missing : {{}}, default : {"deny", "allow", "refuse"},
   rules : BoundedSeq(WellMadeRules \cup OtherRules, 2)
             \cup TupleOf(WellMadeRules, 3)]
  \cup [missing : {{"version"}}, default : {"deny"}, rules : {<< >>}]

Request(tool, arguments, context) ==
  [tool |-> tool, agent |-> "agent", arguments |-> arguments, context |-> context]

SomeRequests ==
  {Request("read", [amount |-> Whole(1)], [env |-> Text("dev")]),
   Request("delete", [amount |-> Whole(2)], [env |-> Text("dev")]),
   Request("delete", << >>, [env |-> Text("prod"), amount |-> Number(4, "float")]),
   Request("read", [amount |-> Number(2, "float")], [env |-> Text("dev")]),
   Request("read", [env |-> Text("dev"), amount |-> Nan], << >>)}

SomeFits ==
  {<<Regex("re.*"), Text("read")>>, <<Regex("del.*"), Text("delete")>>,
   <<Regex("1"), Whole(1)>>, <<Regex("1.*"), Whole(1)>>,
   <<Regex("1.*"), Number(2, "float")>>, <<Regex("True"), Number(2, "bool")>>,
   <<Text("*"), Text("read")>>, <<Text("*"), Text("delete")>>}

=============================================================================
