----------------------------- MODULE MCCommands -----------------------------
(***************************************************************************)
(* Instances of Commands for TLC: four exported decisions whose times are  *)
(* not in the order in which they are recorded, and every query over them; *)
(* three decisions to audit; two with receipts, of which JSON changes one. *)
(***************************************************************************)
EXTENDS Commands, TLC

CONSTANTS d1, d2, d3, r1, k1, k2, i1, i2, i3, s1, s2, s3

Utc(instant) == [instant |-> instant, offset |-> 0]

Decided(id, agent, tool, verdict, instant) ==
  [id |-> id, agent |-> agent, tool |-> tool, verdict |-> verdict,
   timestamp |-> Utc(instant)]

FourDecisions ==
  {Decided(1, "a", "read", "allow", 1), Decided(2, "b", "read", "deny", 2),
   Decided(3, "a", "pay", "deny", 2), Decided(4, "a", "read", "allow", 3)}

PerCommand == "audit" :> {d1, d2, d3} @@ "export" :> FourDecisions @@ "verify" :> {d1, r1}

QueriesOf(times) ==
  [agent : {None, "", "a"}, tool : {None, "read"}, verdict : {None, "deny"},
   since : {None} \cup times, until : {None} \cup times, limit : {-1, 0, 1, 2}]

UtcQueries == QueriesOf({Utc(1), Utc(2)})

Symmetry ==
  Permutations({i1, i2}) \cup Permutations({s1, s2})

=============================================================================
