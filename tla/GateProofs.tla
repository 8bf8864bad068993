----------------------------- MODULE GateProofs -----------------------------
(***************************************************************************)
(* Proofs about Gate: for any number of calls and gates, strict or not,    *)
(* with any policy engine and every failure the module has.                *)
(***************************************************************************)
EXTENDS Gate, TLAPS, FiniteSetTheorems, SequenceTheorems

(***************************************************************************)
(* The inductive invariant: what holds of one call, from its own locals    *)
(* and its own rows of the log.                                            *)
(***************************************************************************)

Answers(c, verdict) ==
  \/ verdict = evaluated[c]
  \/ verdict = "error" /\ evaluated[c] = "raises"

Redacted(c, d) == GateOf[c] \in Redacting => d.redacted

LogInv ==
  /\ Len(log) \in Nat
  /\ log = [i \in 1 .. Len(log) |-> log[i]]
  /\ \A i \in 1 .. Len(log) :
       log[i] = NewRecord(log[i].decision, log[i].previous_hash, i, LedgerKey)

LocalsInv ==
  /\ pc \in [Calls -> Labels]
  /\ evaluated \in [Calls -> Outcomes \cup {None}]
  /\ decision \in [Calls -> AllDecisions \cup {None}]
  /\ record = [c \in Calls |-> record[c]]
  /\ receipt = [c \in Calls |-> receipt[c]]
  /\ executed \subseteq ToolCalls

RowsInv(c) ==
  /\ pc[c] \in {"start", "record"} => RecordsOf(c) = {}
  /\ \A i, j \in RecordsOf(c) : i = j
  /\ \A i \in RecordsOf(c) :
       Answers(c, log[i].decision.verdict) /\ Redacted(c, log[i].decision)
  /\ At(c, "committed") => \E i \in RecordsOf(c) : log[i].decision = decision[c]

DecisionInv(c) ==
  /\ At(c, "start") => decision[c] = None
  /\ pc[c] \in {"record", "committed", "enforce", "run", "done"} =>
       decision[c] \in AllDecisions /\ decision[c].call = c
  /\ pc[c] \in {"record", "committed"} =>
       Answers(c, decision[c].verdict) /\ Redacted(c, decision[c])
  /\ pc[c] \in {"enforce", "run"} =>
       c \in ToolCalls /\ decision[c].verdict \in {evaluated[c], "error"}
  /\ At(c, "run") => decision[c].verdict = "allow"

ResultInv(c) ==
  /\ IsStrict(c) /\ pc[c] \in {"enforce", "run", "done"} =>
       \/ record[c] = None /\ Denied(c)
       \/ /\ record[c] \in returned /\ record[c].decision = decision[c]
          /\ \E i \in RecordsOf(c) : log[i] = record[c]
  /\ record[c] # None => pc[c] \in {"enforce", "run"} \cup Ended
  /\ receipt[c] # None =>
       LET r == receipt[c].record
       IN  /\ receipt[c] = CreateReceipt(r, GateKey(GateOf[c]))
           /\ r = NewRecord(r.decision, r.previous_hash, r.sequence, LedgerKey)
           /\ Redacted(c, r.decision)

ExecutedInv(c) ==
  c \in executed =>
    /\ pc[c] \in Ended
    /\ evaluated[c] = "allow"
    /\ IsStrict(c) => \E i \in RecordsOf(c) : log[i].decision.verdict = "allow"

CallInv(c) == RowsInv(c) /\ DecisionInv(c) /\ ResultInv(c) /\ ExecutedInv(c)

IInv == LogInv /\ LocalsInv /\ \A c \in Calls : CallInv(c)

-----------------------------------------------------------------------------
(***************************************************************************)
(* The log and the calls that do not take the step.                        *)
(***************************************************************************)

\* Appending a row keeps the others where they are.
LEMMA LogAppends ==
  ASSUME LogInv, NEW row
  PROVE  /\ Len(Append(log, row)) = Len(log) + 1
         /\ Append(log, row) = [i \in 1 .. Len(log) + 1 |->
                                  IF i = Len(log) + 1 THEN row ELSE log[i]]
<1> DEFINE n == Len(log)
           U == {log[i] : i \in 1 .. n} \cup {row}
           longer == Append(log, row)
<1>1. log \in [1 .. n -> U] /\ n \in Nat
  BY DEF LogInv
<1>2. log \in Seq(U) /\ row \in U
  BY <1>1, SeqDef
<1>3. /\ longer \in Seq(U) /\ Len(longer) = n + 1
      /\ \A i \in 1 .. n : longer[i] = log[i]
      /\ longer[n + 1] = row
  BY <1>2, AppendProperties
<1>4. longer \in [1 .. n + 1 -> U]
  BY <1>3, LenProperties
<1>5. longer = [i \in 1 .. n + 1 |-> IF i = n + 1 THEN row ELSE log[i]]
  <2> HIDE DEF n, U, longer
  <2>1. QED  BY <1>1, <1>3, <1>4
<1>6. QED  BY <1>3, <1>5

\* The log gains no row, or one row of call c.
GrowsFor(c) ==
  \/ log' = log
  \/ /\ Len(log') = Len(log) + 1
     /\ \A i \in 1 .. Len(log) : log'[i] = log[i]
     /\ log'[Len(log) + 1].decision.call = c

\* A step of one call that changes its own locals only and adds at most a row
\* of its own keeps what the invariant says of another call.
LEMMA OtherCall ==
  ASSUME LogInv, NEW c \in Calls, NEW u \in Calls \ {c}, CallInv(u),
         GrowsFor(c), returned \subseteq returned', pc'[u] = pc[u],
         evaluated'[u] = evaluated[u], decision'[u] = decision[u],
         record'[u] = record[u], receipt'[u] = receipt[u],
         u \in executed' <=> u \in executed
  PROVE  CallInv(u)'
<1>1. /\ RecordsOf(u)' = RecordsOf(u)
      /\ \A i \in RecordsOf(u) : log'[i] = log[i]
  <2>1. CASE log' = log
    BY <2>1 DEF RecordsOf
  <2>2. CASE log' # log
    BY <2>2 DEF RecordsOf, GrowsFor, LogInv
  <2>3. QED  BY <2>1, <2>2
<1>2. RowsInv(u)'
  BY <1>1 DEF CallInv, RowsInv, At, Answers, Redacted
<1>3. DecisionInv(u)'
  BY DEF CallInv, DecisionInv, At, Answers, Redacted
<1>4. ResultInv(u)'
  BY <1>1 DEF CallInv, ResultInv, Denied, IsStrict, Redacted
<1>5. ExecutedInv(u)'
  BY <1>1 DEF CallInv, ExecutedInv, IsStrict
<1>6. QED  BY <1>2, <1>3, <1>4, <1>5 DEF CallInv

\* A step of call c is one that changes no other call's locals.
StepOf(c) ==
  \A u \in Calls \ {c} :
    /\ pc'[u] = pc[u] /\ evaluated'[u] = evaluated[u]
    /\ decision'[u] = decision[u] /\ record'[u] = record[u]
    /\ receipt'[u] = receipt[u] /\ (u \in executed' <=> u \in executed)

\* So it is enough to look at the call that takes the step.
LEMMA OwnCall ==
  ASSUME IInv, NEW c \in Calls, StepOf(c), GrowsFor(c),
         returned \subseteq returned', LogInv', LocalsInv', CallInv(c)'
  PROVE  IInv'
BY OtherCall DEF IInv, StepOf

-----------------------------------------------------------------------------
(***************************************************************************)
(* Every action keeps the invariant.                                       *)
(***************************************************************************)

\* A step that leaves the log as it is keeps what is said of the log.
LEMMA SameLog ==
  ASSUME LogInv, log' = log
  PROVE  LogInv' /\ \A c \in Calls : GrowsFor(c) /\ RecordsOf(c)' = RecordsOf(c)
BY DEF LogInv, GrowsFor, RecordsOf

\* Whatever a call decides is a decision.
LEMMA DecisionsOfCall ==
  \A c \in Calls, v \in Verdicts, r \in BOOLEAN : Decision(c, v, r) \in AllDecisions
BY DEF AllDecisions

\* Evaluation, in time or by its error, gives a call the decision it records.
LEMMA DecideKeeps ==
  ASSUME IInv, NEW c \in Calls, At(c, "start"),
         NEW verdict \in Verdicts, NEW outcome \in Outcomes,
         verdict = outcome \/ (verdict = "error" /\ outcome = "raises"),
         evaluated' = [evaluated EXCEPT ![c] = outcome],
         Decide(c, verdict),
         UNCHANGED <<log, returned, record, receipt, executed>>
  PROVE  IInv'
<1> DEFINE d == Decision(c, verdict, GateOf[c] \in Redacting)
<1> USE DEF At
<1>1. /\ d \in AllDecisions /\ d.call = c /\ d.verdict = verdict
      /\ Redacted(c, d)
  <2> DEFINE b == GateOf[c] \in Redacting
  <2>1. PICK r \in BOOLEAN : r <=> b
    OBVIOUS
  <2>2. d = Decision(c, verdict, r)
    BY <2>1, Zenon
  <2>3. d \in AllDecisions
    BY <2>2, DecisionsOfCall
  <2>4. d.call = c /\ d.verdict = verdict /\ d.redacted = r
    BY <2>2 DEF Decision
  <2>5. QED  BY <2>1, <2>3, <2>4 DEF Redacted
<1> HIDE DEF d
<1>2. decision' = [decision EXCEPT ![c] = d] /\ pc' = [pc EXCEPT ![c] = "record"]
  BY DEF Decide, Goto, d
<1>3. LocalsInv'
  BY <1>1, <1>2 DEF IInv, LocalsInv, Labels
<1>4. /\ pc[c] = "start" /\ pc'[c] = "record"
      /\ evaluated'[c] = outcome /\ decision'[c] = d
      /\ record'[c] = record[c] /\ receipt'[c] = receipt[c]
      /\ c \in executed' <=> c \in executed
  BY <1>2 DEF IInv, LocalsInv
<1>5. StepOf(c)
  BY <1>2 DEF StepOf, IInv, LocalsInv
<1>6. LogInv' /\ GrowsFor(c) /\ RecordsOf(c)' = RecordsOf(c)
  BY SameLog DEF IInv
<1>7. CallInv(c) /\ RecordsOf(c) = {}
  BY <1>4 DEF IInv, CallInv, RowsInv
<1>8. RowsInv(c)'
  BY <1>4, <1>6, <1>7 DEF RowsInv
<1>9. DecisionInv(c)'
  <2>1. decision'[c] \in AllDecisions /\ decision'[c].call = c
    BY <1>1, <1>4
  <2>2. Answers(c, decision[c].verdict)' /\ Redacted(c, decision[c])'
    BY <1>1, <1>4 DEF Answers, Redacted
  <2>3. QED  BY <1>4, <2>1, <2>2 DEF DecisionInv
<1>10. ResultInv(c)' /\ ExecutedInv(c)'
  BY <1>4, <1>7 DEF CallInv, ResultInv, ExecutedInv, Ended, Redacted
<1>11. QED
  BY <1>3, <1>5, <1>6, <1>8, <1>9, <1>10, OwnCall DEF CallInv

\* An answer of the policy engine is the decision to record.
LEMMA EvaluateKeeps ==
  ASSUME IInv, NEW c \in Calls, NEW verdict \in Verdicts, Evaluate(c, verdict)
  PROVE  IInv'
<1>1. verdict \in Outcomes
  BY DEF Outcomes
<1>2. QED  BY <1>1, DecideKeeps DEF Evaluate

\* A failed evaluation in a strict gate is a decision too.
LEMMA EvaluateFailsClosedKeeps ==
  ASSUME IInv, NEW c \in Calls, EvaluateFailsClosed(c)
  PROVE  IInv'
<1>1. "error" \in Verdicts /\ "raises" \in Outcomes
  BY DEF Verdicts, Outcomes
<1>2. QED  BY <1>1, DecideKeeps DEF EvaluateFailsClosed

\* A call that ends without a change of its decision, record or rows keeps
\* the invariant.
LEMMA EndingKeeps ==
  ASSUME IInv, NEW c \in Calls, NEW end \in {"refused", "raised"},
         pc[c] \in {"start", "record", "enforce"}, Goto(c, end),
         UNCHANGED <<log, returned, decision, record, receipt, executed>>,
         evaluated' = evaluated
         \/ /\ At(c, "start")
            /\ \E outcome \in Outcomes :
                 evaluated' = [evaluated EXCEPT ![c] = outcome]
  PROVE  IInv'
<1> USE DEF At, Goto
<1>1. LocalsInv'
  BY DEF IInv, LocalsInv, Labels
<1>2. /\ pc'[c] = end
      /\ pc[c] = "start" \/ evaluated'[c] = evaluated[c]
      /\ decision'[c] = decision[c]
      /\ record'[c] = record[c] /\ receipt'[c] = receipt[c]
      /\ c \in executed' <=> c \in executed
  BY DEF IInv, LocalsInv
<1>3. StepOf(c)
  BY DEF StepOf, IInv, LocalsInv
<1>4. LogInv' /\ GrowsFor(c) /\ RecordsOf(c)' = RecordsOf(c)
  BY SameLog DEF IInv
<1>5. CallInv(c) /\ (pc[c] = "start" => RecordsOf(c) = {})
  BY DEF IInv, CallInv, RowsInv
<1>6. RowsInv(c)'
  BY <1>2, <1>4, <1>5 DEF CallInv, RowsInv, Answers, Redacted
<1>7. DecisionInv(c)'
  BY <1>2 DEF DecisionInv
<1>8. ResultInv(c)' /\ ExecutedInv(c)'
  BY <1>2, <1>5 DEF CallInv, ResultInv, ExecutedInv, Ended, Redacted
<1>9. QED
  BY <1>1, <1>3, <1>4, <1>6, <1>7, <1>8, OwnCall DEF CallInv

\* A call that evaluation raises out of has decided nothing.
LEMMA EvaluateRaisesKeeps ==
  ASSUME IInv, NEW c \in Calls, EvaluateRaises(c)
  PROVE  IInv'
<1>1. \A outcome \in {"other"} \cup (IF IsStrict(c) THEN {} ELSE {"raises"}) :
        outcome \in Outcomes
  BY DEF Outcomes
<1>2. QED  BY <1>1, EndingKeeps DEF EvaluateRaises, At

\* A call that recording raises out of has no row and no result.
LEMMA RecordRaisesKeeps ==
  ASSUME IInv, NEW c \in Calls, RecordRaises(c)
  PROVE  IInv'
BY EndingKeeps DEF RecordRaises, At, local

\* A refused tool call keeps its record and runs nothing.
LEMMA RefuseKeeps ==
  ASSUME IInv, NEW c \in Calls, Refuse(c)
  PROVE  IInv'
BY EndingKeeps DEF Refuse, At, local

\* The commit gives a call the one row it had not: its decision.
LEMMA CommitKeeps ==
  ASSUME IInv, NEW c \in Calls, Commit(c)
  PROVE  IInv'
<1> DEFINE n == Len(log)
           row == Audit!NewRecord(decision[c], Audit!Tip, n + 1, LedgerKey)
<1> USE DEF At
<1>1. /\ pc[c] = "record" /\ pc' = [pc EXCEPT ![c] = "committed"]
      /\ log' = Append(log, row)
      /\ UNCHANGED <<returned, evaluated, decision, record, receipt, executed>>
  BY DEF Commit, Goto, Audit!Extend
<1>2. /\ row = NewRecord(row.decision, row.previous_hash, n + 1, LedgerKey)
      /\ row.decision = decision[c]
  BY DEF Audit!NewRecord, Audit!Signable, Audit!ComputeHash, Audit!Sign,
         NewRecord, Signable, ComputeHash, Sign
<1>3. /\ n \in Nat /\ Len(log') = n + 1
      /\ log' = [i \in 1 .. n + 1 |-> IF i = n + 1 THEN row ELSE log[i]]
  BY <1>1, LogAppends DEF IInv, LogInv
<1> HIDE DEF n, row
<1>4. CallInv(c) /\ RecordsOf(c) = {} /\ decision[c].call = c
  BY <1>1 DEF IInv, CallInv, RowsInv, DecisionInv
<1>5. LogInv'
  <2>1. log' = [i \in 1 .. Len(log') |-> log'[i]]
    BY <1>3
  <2>2. \A i \in 1 .. n + 1 : log'[i] = IF i = n + 1 THEN row ELSE log[i]
    BY <1>3
  <2>3. ASSUME NEW i \in 1 .. n + 1
        PROVE  log'[i] = NewRecord(log'[i].decision, log'[i].previous_hash, i, LedgerKey)
    BY <1>2, <2>2 DEF IInv, LogInv, n
  <2>4. QED  BY <1>3, <2>1, <2>3 DEF LogInv
<1>6. GrowsFor(c)
  BY <1>2, <1>3, <1>4 DEF GrowsFor, n
<1>7. RecordsOf(c)' = {n + 1} /\ log'[n + 1].decision = decision[c]
  BY <1>2, <1>3, <1>4 DEF RecordsOf, n
<1>8. LocalsInv' /\ StepOf(c) /\ pc'[c] = "committed"
  BY <1>1 DEF IInv, LocalsInv, Labels, StepOf
<1>9. RowsInv(c)'
  <2>1. Answers(c, decision[c].verdict)' /\ Redacted(c, decision[c])
    BY <1>1, <1>4 DEF CallInv, DecisionInv, Answers
  <2>2. QED  BY <1>1, <1>7, <1>8, <2>1 DEF RowsInv, Answers, Redacted
<1>10. DecisionInv(c)'
  BY <1>1, <1>4, <1>8 DEF CallInv, DecisionInv, Answers, Redacted
<1>11. ResultInv(c)' /\ ExecutedInv(c)'
  BY <1>1, <1>4, <1>8 DEF CallInv, ResultInv, ExecutedInv, Ended, Redacted
<1>12. QED
  BY <1>1, <1>5, <1>6, <1>8, <1>9, <1>10, <1>11, OwnCall DEF CallInv

\* check returns, or goes on to look at the verdict of a tool call.
LEMMA Finishes ==
  ASSUME LocalsInv, NEW c \in Calls, Finish(c)
  PROVE  /\ pc' \in [Calls -> Labels]
         /\ \A u \in Calls \ {c} : pc'[u] = pc[u]
         /\ (pc'[c] = "enforce" /\ c \in ToolCalls) \/ pc'[c] = "done"
BY DEF Finish, Goto, LocalsInv, Labels

\* The record that a call is given is its row, and so is its receipt's.
LEMMA RecordedKeeps ==
  ASSUME IInv, NEW c \in Calls, Recorded(c)
  PROVE  IInv'
<1> USE DEF At
<1>1. PICK i \in 1 .. Len(log) :
        /\ log[i].decision = decision[c]
        /\ returned' = returned \cup {log[i]} /\ log' = log
        /\ record' = [record EXCEPT ![c] = log[i]]
        /\ receipt' = [receipt EXCEPT ![c] =
             IF GateOf[c] \in Emitting
             THEN CreateReceipt(log[i], GateKey(GateOf[c])) ELSE None]
  BY DEF Recorded, Audit!Return
<1>2. /\ pc[c] = "committed" /\ Finish(c)
      /\ UNCHANGED <<evaluated, decision, executed>>
  BY DEF Recorded
<1>3. LocalsInv' /\ StepOf(c)
  BY <1>1, <1>2, Finishes DEF IInv, LocalsInv, StepOf
<1>4. LogInv' /\ GrowsFor(c) /\ RecordsOf(c)' = RecordsOf(c)
  BY <1>1, SameLog DEF IInv
<1>5. /\ (pc'[c] = "enforce" /\ c \in ToolCalls) \/ pc'[c] = "done"
      /\ record'[c] = log[i] /\ log[i] \in returned'
      /\ receipt'[c] = CreateReceipt(log[i], GateKey(GateOf[c])) \/ receipt'[c] = None
  BY <1>1, <1>2, Finishes DEF IInv, LocalsInv
<1>6. CallInv(c) /\ decision[c] \in AllDecisions /\ decision[c].call = c
  BY <1>2 DEF IInv, CallInv, DecisionInv
<1>7. i \in RecordsOf(c) /\ Redacted(c, log[i].decision)
  BY <1>1, <1>2, <1>6 DEF RecordsOf, CallInv, DecisionInv
<1>8. RowsInv(c)'
  BY <1>1, <1>2, <1>4, <1>5, <1>6 DEF CallInv, RowsInv, Answers, Redacted
<1>9. DecisionInv(c)'
  <2>1. decision[c].verdict \in {evaluated[c], "error"}
    BY <1>2, <1>6 DEF CallInv, DecisionInv, Answers
  <2>2. QED  BY <1>2, <1>5, <1>6, <2>1 DEF DecisionInv
<1>10. ResultInv(c)'
  <2>1. log[i] = NewRecord(log[i].decision, log[i].previous_hash, log[i].sequence, LedgerKey)
    <3>1. log[i] = NewRecord(log[i].decision, log[i].previous_hash, i, LedgerKey)
      BY DEF IInv, LogInv
    <3>2. log[i].sequence = i
      BY <3>1 DEF NewRecord
    <3>3. QED  BY <3>1, <3>2
  <2>2. receipt'[c] # None =>
          /\ receipt'[c].record = log[i]
          /\ receipt'[c] = CreateReceipt(log[i], GateKey(GateOf[c]))
    BY <1>5 DEF CreateReceipt
  <2>3. QED
    BY <1>1, <1>2, <1>4, <1>5, <1>7, <2>1, <2>2 DEF ResultInv, Redacted, Ended
<1>11. ExecutedInv(c)'
  BY <1>2, <1>6 DEF CallInv, ExecutedInv, Ended
<1>12. QED
  BY <1>1, <1>3, <1>4, <1>8, <1>9, <1>10, <1>11, OwnCall DEF CallInv

\* A strict gate's denial stands in for the record that could not be made; no
\* row exists, and the verdict of a lenient gate is the engine's.
LEMMA RecordFailsKeeps ==
  ASSUME IInv, NEW c \in Calls, RecordFails(c)
  PROVE  IInv'
<1> DEFINE d == IF IsStrict(c) THEN Decision(c, "error", FALSE) ELSE decision[c]
<1> USE DEF At
<1>1. /\ pc[c] = "record" /\ Finish(c) /\ log' = log
      /\ UNCHANGED <<returned, evaluated, record, receipt, executed>>
      /\ decision' = [decision EXCEPT ![c] = d]
  BY DEF RecordFails
<1>2. /\ CallInv(c) /\ RecordsOf(c) = {}
      /\ decision[c] \in AllDecisions /\ decision[c].call = c
  BY <1>1 DEF IInv, CallInv, RowsInv, DecisionInv
<1>3. /\ d \in AllDecisions /\ d.call = c
      /\ d.verdict \in {evaluated[c], "error"}
      /\ IsStrict(c) => d.verdict = "error"
  <2>1. CASE IsStrict(c)
    <3>1. d = Decision(c, "error", FALSE)
      BY <2>1
    <3>2. d \in AllDecisions
      <4>1. "error" \in Verdicts /\ FALSE \in BOOLEAN
        BY DEF Verdicts
      <4>2. Decision(c, "error", FALSE) \in AllDecisions
        BY <4>1, DecisionsOfCall
      <4>3. QED  BY <3>1, <4>2
    <3>3. d.call = c /\ d.verdict = "error"
      BY <3>1 DEF Decision
    <3>4. QED  BY <3>2, <3>3
  <2>2. CASE ~ IsStrict(c)
    BY <1>1, <1>2, <2>2 DEF CallInv, DecisionInv, Answers
  <2>3. QED  BY <2>1, <2>2
<1> HIDE DEF d
<1>4. LocalsInv' /\ StepOf(c) /\ decision'[c] = d
  BY <1>1, <1>3, Finishes DEF IInv, LocalsInv, StepOf
<1>5. LogInv' /\ GrowsFor(c) /\ RecordsOf(c)' = RecordsOf(c)
  BY <1>1, SameLog DEF IInv
<1>6. (pc'[c] = "enforce" /\ c \in ToolCalls) \/ pc'[c] = "done"
  BY <1>1, Finishes DEF IInv
<1>7. RowsInv(c)'
  BY <1>2, <1>5, <1>6 DEF RowsInv
<1>8. DecisionInv(c)'
  BY <1>1, <1>3, <1>4, <1>6 DEF DecisionInv
<1>9. ResultInv(c)' /\ ExecutedInv(c)'
  BY <1>1, <1>2, <1>3, <1>4, <1>6
     DEF CallInv, ResultInv, ExecutedInv, Ended, Denied, Redacted, IsStrict
<1>10. QED
  BY <1>1, <1>4, <1>5, <1>7, <1>8, <1>9, OwnCall DEF CallInv

\* Only "allow" is neither denied nor escalated.
LEMMA PassKeeps ==
  ASSUME IInv, NEW c \in Calls, Pass(c)
  PROVE  IInv'
<1> USE DEF At
<1>1. /\ pc[c] = "enforce" /\ pc' = [pc EXCEPT ![c] = "run"]
      /\ UNCHANGED <<log, returned, evaluated, decision, record, receipt, executed>>
  BY DEF Pass, Goto, local
<1>2. CallInv(c) /\ decision[c] \in AllDecisions
  BY <1>1 DEF IInv, CallInv, DecisionInv
<1>3. decision[c].verdict = "allow"
  <2>1. decision[c].verdict \in Verdicts
    BY <1>2 DEF AllDecisions, Decision
  <2>2. QED  BY <2>1 DEF Pass, Denied, Verdicts
<1>4. LocalsInv' /\ StepOf(c) /\ pc'[c] = "run"
  BY <1>1 DEF IInv, LocalsInv, StepOf, Labels
<1>5. LogInv' /\ GrowsFor(c) /\ RecordsOf(c)' = RecordsOf(c)
  BY <1>1, SameLog DEF IInv
<1>6. RowsInv(c)' /\ DecisionInv(c)'
  BY <1>1, <1>2, <1>3, <1>4, <1>5
     DEF CallInv, RowsInv, DecisionInv, Answers, Redacted
<1>7. ResultInv(c)' /\ ExecutedInv(c)'
  BY <1>1, <1>2, <1>4, <1>5
     DEF CallInv, ResultInv, ExecutedInv, Ended, Denied, Redacted, IsStrict
<1>8. QED
  BY <1>1, <1>4, <1>5, <1>6, <1>7, OwnCall DEF CallInv

\* The tool that runs was allowed by the engine, and behind a strict gate the
\* record of the allow decision is in the log.
LEMMA RunKeeps ==
  ASSUME IInv, NEW c \in Calls, Run(c)
  PROVE  IInv'
<1> USE DEF At
<1>1. /\ pc[c] = "run" /\ pc' = [pc EXCEPT ![c] = "done"]
      /\ executed' = executed \cup {c}
      /\ UNCHANGED <<log, returned, evaluated, decision, record, receipt>>
  BY DEF Run, Goto, local
<1>2. /\ CallInv(c) /\ decision[c].verdict = "allow" /\ evaluated[c] = "allow"
      /\ c \in ToolCalls
  BY <1>1 DEF IInv, CallInv, DecisionInv
<1>3. LocalsInv' /\ StepOf(c) /\ pc'[c] = "done"
  BY <1>1, <1>2 DEF IInv, LocalsInv, StepOf, Labels
<1>4. LogInv' /\ GrowsFor(c) /\ RecordsOf(c)' = RecordsOf(c)
  BY <1>1, SameLog DEF IInv
<1>5. RowsInv(c)' /\ DecisionInv(c)'
  BY <1>1, <1>2, <1>3, <1>4
     DEF CallInv, RowsInv, DecisionInv, Answers, Redacted
<1>6. ResultInv(c)'
  BY <1>1, <1>2, <1>3, <1>4
     DEF CallInv, ResultInv, Ended, Denied, Redacted, IsStrict
<1>7. IsStrict(c) => \E i \in RecordsOf(c) : log[i].decision.verdict = "allow"
  BY <1>1, <1>2 DEF CallInv, ResultInv, Denied
<1>8. ExecutedInv(c)'
  BY <1>1, <1>2, <1>3, <1>4, <1>7 DEF ExecutedInv, Ended, IsStrict
<1>9. QED
  BY <1>1, <1>3, <1>4, <1>5, <1>6, <1>8, OwnCall DEF CallInv

\* A process that stops leaves the log, and what ran before, as they are.
LEMMA StopKeeps ==
  ASSUME IInv, Stop
  PROVE  IInv'
<1> USE DEF At
<1>1. UNCHANGED <<log, returned, evaluated, decision, record, receipt, executed>>
  BY DEF Stop, local
<1>2. LocalsInv' /\ LogInv'
  BY <1>1, SameLog DEF Stop, IInv, LocalsInv, Labels
<1>3. ASSUME NEW c \in Calls PROVE CallInv(c)'
  <2>1. RecordsOf(c)' = RecordsOf(c)
    BY <1>1, <1>3, SameLog DEF IInv
  <2>2. pc'[c] = pc[c] \/ pc'[c] = "stopped"
    BY <1>3 DEF Stop
  <2>3. pc[c] \in Ended => pc'[c] = pc[c]
    BY <1>3 DEF Stop
  <2>4. CallInv(c)
    BY <1>3 DEF IInv
  <2>5. RowsInv(c)' /\ DecisionInv(c)'
    BY <1>1, <2>1, <2>2, <2>4
       DEF CallInv, RowsInv, DecisionInv, Answers, Redacted
  <2>6. ResultInv(c)' /\ ExecutedInv(c)'
    BY <1>1, <2>1, <2>2, <2>3, <2>4
       DEF CallInv, ResultInv, ExecutedInv, Ended, Denied, Redacted, IsStrict
  <2>7. QED  BY <2>5, <2>6 DEF CallInv
<1>4. QED  BY <1>2, <1>3 DEF IInv

\* A step that changes nothing keeps the invariant.
LEMMA StutterKeeps ==
  ASSUME IInv, UNCHANGED vars
  PROVE  IInv'
<1>1. UNCHANGED <<log, returned, pc, evaluated, decision, record, receipt, executed>>
  BY DEF vars
<1>2. LogInv' /\ LocalsInv'
  BY <1>1 DEF IInv, LogInv, LocalsInv
<1>3. ASSUME NEW c \in Calls PROVE CallInv(c)'
  <2>1. RecordsOf(c)' = RecordsOf(c) /\ CallInv(c)
    BY <1>1, <1>3 DEF RecordsOf, IInv
  <2>2. RowsInv(c)' /\ DecisionInv(c)' /\ ResultInv(c)' /\ ExecutedInv(c)'
    BY <1>1, <2>1
       DEF CallInv, RowsInv, DecisionInv, ResultInv, ExecutedInv, Answers,
           Redacted, Denied, IsStrict, At
  <2>3. QED  BY <2>2 DEF CallInv
<1>4. QED  BY <1>2, <1>3 DEF IInv

\* No call has started and the log is empty.
LEMMA InitIInv == Init => IInv
<1> SUFFICES ASSUME Init PROVE IInv
  OBVIOUS
<1>1. log = << >> /\ executed = {}
  BY DEF Init, Audit!Init
<1>2. LogInv /\ \A c \in Calls : RecordsOf(c) = {}
  BY <1>1 DEF LogInv, RecordsOf
<1>3. LocalsInv
  BY <1>1 DEF Init, LocalsInv, Labels
<1>4. \A c \in Calls : CallInv(c)
  BY <1>1, <1>2 DEF Init, CallInv, RowsInv, DecisionInv, ResultInv, ExecutedInv, At
<1>5. QED  BY <1>2, <1>3, <1>4 DEF IInv

\* Every step keeps the invariant: one fact per action, each proved above.
LEMMA NextIInv == IInv /\ [Next]_vars => IInv'
<1> SUFFICES ASSUME IInv, [Next]_vars PROVE IInv'
  OBVIOUS
<1>1. ASSUME NEW c \in Calls, Proceed(c) PROVE IInv'
  BY <1>1, EvaluateKeeps, EvaluateFailsClosedKeeps, EvaluateRaisesKeeps,
     CommitKeeps, RecordedKeeps, RecordFailsKeeps, RecordRaisesKeeps,
     RefuseKeeps, PassKeeps, RunKeeps DEF Proceed
<1>2. QED  BY <1>1, StopKeeps, StutterKeeps DEF Next

\* The inductive invariant holds in every state of every behaviour.
THEOREM Invariant == Spec => []IInv
BY InitIInv, NextIInv, PTL DEF Spec

-----------------------------------------------------------------------------
(***************************************************************************)
(* The properties that the invariant implies.                              *)
(***************************************************************************)

\* Type correctness of the gate.
THEOREM TypeCorrect == Spec => []TypeOK
<1>1. ASSUME IInv PROVE TypeOK
  <2>1. \A c \in Calls :
          /\ At(c, "start") => decision[c] = None
          /\ pc[c] \in {"record", "committed", "enforce", "run", "done"} => decision[c] # None
          /\ record[c] # None => pc[c] \in {"enforce", "run"} \cup Ended
    BY <1>1, NoneAssumption DEF IInv, CallInv, DecisionInv, ResultInv
  <2>2. QED  BY <1>1, <2>1 DEF IInv, LogInv, LocalsInv, TypeOK
<1>2. QED  BY <1>1, Invariant, PTL

\* No tool runs behind a strict gate without an allow decision of its own in
\* the ledger, for any number of calls, gates and failures.
THEOREM ToolsRunOnRecord == Spec => []ExecutedIsRecorded
<1>1. IInv => ExecutedIsRecorded
  BY GateAssumption DEF IInv, LocalsInv, CallInv, ExecutedInv, ExecutedIsRecorded
<1>2. QED  BY <1>1, Invariant, PTL

\* No tool runs that the policy engine did not allow.
THEOREM ToolsRunWhenAllowed == Spec => []ExecutedWasAllowed
<1>1. IInv => ExecutedWasAllowed
  BY GateAssumption DEF IInv, LocalsInv, CallInv, ExecutedInv, ExecutedWasAllowed
<1>2. QED  BY <1>1, Invariant, PTL

\* A strict gate gives a caller a denial, or a decision with its record.
THEOREM ResultsAreBacked == Spec => []ResultIsRecordedOrDenied
<1>1. IInv => ResultIsRecordedOrDenied
  BY DEF IInv, CallInv, ResultInv, ResultIsRecordedOrDenied
<1>2. QED  BY <1>1, Invariant, PTL

\* The ledger has one decision of a call at most, and it is the engine's.
THEOREM RecordsAnswer == Spec => []RecordedIsEvaluated
<1>1. ASSUME IInv, NEW c \in Calls PROVE Cardinality(RecordsOf(c)) <= 1
  <2>1. CASE RecordsOf(c) = {}
    BY <2>1, FS_EmptySet
  <2>2. CASE RecordsOf(c) # {}
    <3>1. PICK i \in RecordsOf(c) : RecordsOf(c) = {i}
      BY <1>1, <2>2 DEF IInv, CallInv, RowsInv
    <3>2. QED  BY <3>1, FS_Singleton
  <2>3. QED  BY <2>1, <2>2
<1>2. IInv => RecordedIsEvaluated
  BY <1>1 DEF IInv, CallInv, RowsInv, Answers, RecordedIsEvaluated
<1>3. QED  BY <1>2, Invariant, PTL

\* Behind a redacting gate, nothing unredacted reaches ledger or receipt.
THEOREM RedactionHolds == Spec => []NothingSensitiveKept
<1>1. IInv => NothingSensitiveKept
  BY DEF IInv, CallInv, RowsInv, ResultInv, Redacted, NothingSensitiveKept
<1>2. QED  BY <1>1, Invariant, PTL

\* A receipt comes back from its file as it was, when its decision does.
LEMMA ReceiptSurvives ==
  ASSUME Rekeyed = {}, NEW r, NEW key,
         r = NewRecord(r.decision, r.previous_hash, r.sequence, LedgerKey)
  PROVE  SaveAndLoad(CreateReceipt(r, key)) = CreateReceipt(r, key)
<1>1. SaveAndLoad(CreateReceipt(r, key)) =
        CreateReceipt([r EXCEPT !.decision = r.decision], key)
  BY DEF SaveAndLoad, CreateReceipt, Loaded
<1>2. [r EXCEPT !.decision = r.decision] = r
  BY DEF NewRecord
<1>3. QED  BY <1>1, <1>2

\* Receipts verify when every gate puts the key of the ledger it writes to in
\* them, and arguments survive JSON.
THEOREM ReceiptsVerify ==
  ASSUME \A g \in Gates : GateKey(g) = LedgerKey, Rekeyed = {}
  PROVE  Spec => []ReceiptVerifies
<1>1. ASSUME IInv, NEW c \in Calls, receipt[c] # None
      PROVE  /\ VerifyReceipt(receipt[c], GateKey(GateOf[c]))
             /\ VerifyReceipt(SaveAndLoad(receipt[c]), NoKey)
  <2> DEFINE r == receipt[c].record
  <2>1. GateOf[c] \in Gates /\ GateKey(GateOf[c]) = LedgerKey
    BY <1>1, GateAssumption
  <2>2. /\ receipt[c] = CreateReceipt(r, LedgerKey)
        /\ r = NewRecord(r.decision, r.previous_hash, r.sequence, LedgerKey)
    BY <1>1, <2>1 DEF IInv, CallInv, ResultInv
  <2>3. \A key \in {NoKey, LedgerKey} : VerifyReceipt(receipt[c], key)
    BY <2>2 DEF VerifyReceipt, CreateReceipt, NewRecord
  <2>4. SaveAndLoad(receipt[c]) = receipt[c]
    BY <2>2, ReceiptSurvives
  <2>5. QED  BY <2>1, <2>3, <2>4
<1>2. IInv => ReceiptVerifies
  BY <1>1 DEF ReceiptVerifies
<1>3. QED  BY <1>2, Invariant, PTL

=============================================================================
