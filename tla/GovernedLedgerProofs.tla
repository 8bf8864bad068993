------------------------ MODULE GovernedLedgerProofs ------------------------
(***************************************************************************)
(* Proofs about GovernedLedger: for any calls, gates, ledger objects,      *)
(* policy engine, storage faults and stops of the process.  What           *)
(* LedgerProofs proves of record carries over, for every step but Stop is  *)
(* a step of Ledger.                                                       *)
(***************************************************************************)
EXTENDS GovernedLedger, LedgerProofs

(***************************************************************************)
(* The inductive invariant: where a call stands in check and in record,    *)
(* what it holds there, and what the table says of it.                     *)
(***************************************************************************)

\* A decision of a call says what the engine answered, or ERROR if it raised.
Answers(c, d) ==
  /\ d \in Decisions
  /\ d.call = c
  /\ \/ d.verdict = evaluated[c]
     \/ d.verdict = "error" /\ evaluated[c] = "raises"

InTable(r) == \E s \in DOMAIN committed : committed[s] = r

\* A strict call has a denial and no record, or the record of its decision.
Backed(c) ==
  \/ record[c] = None /\ G!Denied(c)
  \/ /\ record[c] \in returned
     /\ InTable(record[c])
     /\ record[c].decision = decision[c]
     /\ decision[c].call = c

Permitted(c) ==
  \E s \in DOMAIN committed :
    committed[s].decision.call = c /\ committed[s].decision.verdict = "allow"

CheckInv(c) ==
  /\ pc[c] = "return" <=> place[c] = "committed"
  /\ pc[c] \notin {"idle", "return"} => place[c] = "record"
  /\ pc[c] # "idle" => call[c].decision = decision[c]
  /\ place[c] \in {"start", "record", "committed"} => record[c] = None
  /\ place[c] \in {"record", "committed"} => Answers(c, decision[c])
  /\ place[c] \in {"enforce", "run", "done"} => decision[c] \in Decisions
  /\ G!IsStrict(c) =>
       /\ place[c] \in {"enforce", "run", "done"} => Backed(c)
       /\ place[c] = "run" \/ c \in executed => Permitted(c)

ChecksInv ==
  /\ place \in [Threads -> G!Labels]
  /\ DOMAIN evaluated = Threads /\ DOMAIN decision = Threads /\ DOMAIN record = Threads
  /\ executed \subseteq Threads
  /\ \A c \in Threads : CheckInv(c)

\* A row is of a call that has committed it, and of which it is the only one.
RowsInv ==
  /\ \A s \in DOMAIN committed :
       LET c == committed[s].decision.call
       IN  /\ Answers(c, committed[s].decision)
           /\ place[c] \notin {"start", "record"}
  /\ \A s, u \in DOMAIN committed :
       committed[s].decision.call = committed[u].decision.call => s = u

GovernedInv == IInv /\ ChecksInv /\ RowsInv

-----------------------------------------------------------------------------
(***************************************************************************)
(* The steps as the ledger sees them.                                      *)
(***************************************************************************)

\* A decision made for a call is one that the ledger may be given.
LEMMA DecisionsAre ==
  ASSUME NEW c \in Threads, NEW v \in G!Verdicts, NEW r \in BOOLEAN
  PROVE  /\ G!Decision(c, v, r) \in Decisions
         /\ G!Decision(c, v, r).call = c
         /\ G!Decision(c, v, r).verdict = v
BY GovernedLedgerAssumption DEF G!AllDecisions, G!Decision

\* A decision of the ledger is of a call, with one of the four verdicts.
LEMMA DecisionsHave ==
  ASSUME NEW d \in Decisions
  PROVE  d.call \in Threads /\ d.verdict \in G!Verdicts
BY GovernedLedgerAssumption DEF G!AllDecisions, G!Decision

\* Outside of record the ledger does not change.
LEMMA AskLeavesLedger ==
  ASSUME NEW c, Ask(c)
  PROVE  UNCHANGED vars
BY DEF Ask, vars, G!Evaluate, G!EvaluateFailsClosed, G!EvaluateRaises, G!Refuse, G!Pass, G!Run

\* Every step but Stop is one of the ledger, or leaves it.
LEMMA LedgerSteps ==
  ASSUME ChecksInv, [CheckNext]_checkVars
  PROVE  [Next]_vars \/ Stop
<1>1. ASSUME NEW c \in Threads, Proceed(c) PROVE [Next]_vars
  <2>1. CASE Ask(c)
    BY <2>1, AskLeavesLedger
  <2>2. CASE CallRecord(c)
    <3>1. decision[c] \in Decisions
      BY <2>2 DEF CallRecord, G!At, ChecksInv, CheckInv, Answers
    <3>2. QED  BY <2>2, <3>1 DEF CallRecord, Next, Operate
  <2>3. CASE Store(c)
    BY <2>3 DEF Store, Next, Operate, Step
  <2>4. CASE CommitRow(c) \/ Recorded(c)
    BY <2>4 DEF CommitRow, Recorded, Next, Operate, Step
  <2>5. CASE AppendFails(c)
    BY <2>5 DEF AppendFails, Next, Operate, Fault, Step
  <2>6. CASE RecordRaises(c)
    BY <2>6 DEF RecordRaises, Next, Operate, Fault, Step
  <2>7. QED  BY <1>1, <2>1, <2>2, <2>3, <2>4, <2>5, <2>6 DEF Proceed
<1>2. ASSUME ReadTable PROVE [Next]_vars
  BY <1>2 DEF ReadTable, Next, Operate
<1>3. UNCHANGED checkVars => [Next]_vars
  BY DEF checkVars
<1>4. QED  BY <1>1, <1>2, <1>3 DEF CheckNext

\* When the process stops, every ledger object crashes at once.
LEMMA StopKeeps ==
  ASSUME IInv, Stop
  PROVE  IInv'
<1> USE DEF Stop, At, Inside, Labels
<1>1. /\ txn' = [l \in Ledgers |-> "none"] /\ view' = [l \in Ledgers |-> EmptyTable]
      /\ lock' = [l \in Ledgers |-> None]
      /\ pc' = [t \in Threads |-> "idle"]
      /\ call' = [t \in Threads |-> NoCall]
      /\ lost' = lost \cup {RecordOf(t) : t \in {u \in Threads : pc[u] = "return"}}
      /\ committed' = committed /\ returned' = returned
  OBVIOUS
<1>2. TablesInv'
  BY <1>1, EmptyIsTable DEF IInv, TablesInv
<1>3. ThreadsInv'
  BY <1>1 DEF ThreadsInv, TxnStates
<1>4. CallsInv'
  <2>1. ASSUME NEW u \in Threads PROVE CallInv(u)'
    <3>1. pc'[u] = "idle" /\ call'[u] = NoCall
      BY <1>1
    <3>2. QED  BY <3>1 DEF CallInv, NoCall, Signable
  <2>2. QED  BY <1>1, <2>1 DEF CallsInv
<1>5. TxnsInv'
  BY <1>1 DEF TxnsInv, TxnInv
<1>6. \A t \in Threads : pc[t] = "return" =>
        /\ RecordOf(t).sequence \in DOMAIN committed
        /\ committed[RecordOf(t).sequence] = RecordOf(t)
  BY DEF IInv, CallsInv, CallInv, RecordOf, NewRecord
<1>7. StoredInv'
  BY <1>1, <1>6 DEF IInv, StoredInv
<1>8. RaisedIsAbsent'
  <2>1. \A t \in Threads : pc[t] = "return" => RecordOf(t) \in lost'
    BY <1>1
  <2>2. QED  BY <1>1, <2>1 DEF IInv, RaisedIsAbsent
<1>9. QED  BY <1>2, <1>3, <1>4, <1>5, <1>7, <1>8 DEF IInv

\* The ledger's invariant and its committed rows survive every step of the
\* composition.
LEMMA LedgerStays ==
  ASSUME IInv, ChecksInv, [CheckNext]_checkVars
  PROVE  IInv' /\ IsPrefix(committed, committed') /\ returned \subseteq returned'
<1>1. CASE Stop
  BY <1>1, StopKeeps DEF Stop, IsPrefix
<1>2. CASE [Next]_vars
  <2>1. returned \subseteq returned'
    BY <1>2 DEF Next, Operate, Fault, Step, vars, Record, Acquire, GetLastHash,
         GetLastSequence, CanonicalJsonRaises, Insert, InsertViolates, InsertBusy,
         Commit, Return, Read, SelectFails, InsertFails, CommitFails, Crash
  <2>2. QED  BY <1>2, <2>1, NextIInv, CommittedGrows
<1>3. QED  BY <1>1, <1>2, LedgerSteps

-----------------------------------------------------------------------------
(***************************************************************************)
(* The steps as the calls of check see them.                               *)
(***************************************************************************)

\* A step leaves a call where it was, with what it held.
Untouched(c) ==
  /\ place'[c] = place[c] /\ pc'[c] = pc[c] /\ call'[c] = call[c]
  /\ evaluated'[c] = evaluated[c] /\ decision'[c] = decision[c] /\ record'[c] = record[c]
  /\ c \in executed' => c \in executed

\* A step of one call.
OnlyOf(c) ==
  /\ place' \in [Threads -> G!Labels]
  /\ DOMAIN evaluated' = Threads /\ DOMAIN decision' = Threads /\ DOMAIN record' = Threads
  /\ executed' \subseteq Threads
  /\ \A u \in Threads \ {c} : Untouched(u)

\* Rows are only added and returned ones stay so: what is in the table for a
\* call remains there.
LEMMA UntouchedKeeps ==
  ASSUME NEW c, CheckInv(c), Untouched(c),
         IsPrefix(committed, committed'), returned \subseteq returned'
  PROVE  CheckInv(c)'
<1>1. \A r : InTable(r) => InTable(r)'
  BY DEF InTable, IsPrefix
<1>2. Permitted(c) => Permitted(c)'
  BY DEF Permitted, IsPrefix
<1>3. Backed(c) => Backed(c)'
  BY <1>1 DEF Untouched, Backed, G!Denied
<1>4. \A d : Answers(c, d) => Answers(c, d)'
  BY DEF Answers, Untouched
<1>5. QED  BY <1>2, <1>3, <1>4 DEF CheckInv, Untouched, G!IsStrict

\* So a step of one call has only that call to look at.
LEMMA OthersStay ==
  ASSUME ChecksInv, NEW c \in Threads, OnlyOf(c), CheckInv(c)',
         IsPrefix(committed, committed'), returned \subseteq returned'
  PROVE  ChecksInv'
<1>1. ASSUME NEW u \in Threads \ {c} PROVE CheckInv(u)'
  BY UntouchedKeeps DEF ChecksInv, OnlyOf
<1>2. QED  BY <1>1 DEF ChecksInv, OnlyOf

\* A call that has committed its row keeps the engine's answer, and does not
\* go back to where it would commit another.
LEMMA RowsStay ==
  ASSUME RowsInv, committed' = committed,
         \A c \in Threads : place[c] \notin {"start", "record"} =>
           place'[c] \notin {"start", "record"} /\ evaluated'[c] = evaluated[c]
  PROVE  RowsInv'
<1>1. ASSUME NEW s \in DOMAIN committed
      PROVE  LET c == committed[s].decision.call
             IN  Answers(c, committed[s].decision)' /\ place'[c] \notin {"start", "record"}
  <2> DEFINE d == committed[s].decision
  <2>1. Answers(d.call, d) /\ place[d.call] \notin {"start", "record"}
    BY DEF RowsInv
  <2>2. d.call \in Threads
    BY <2>1, DecisionsHave DEF Answers
  <2>3. place'[d.call] \notin {"start", "record"} /\ evaluated'[d.call] = evaluated[d.call]
    BY <2>1, <2>2
  <2>4. QED  BY <2>1, <2>3 DEF Answers
<1>2. QED  BY <1>1 DEF RowsInv

\* evaluate answers, or fails and a strict gate makes it an ERROR decision.
LEMMA DecideKeeps ==
  ASSUME ChecksInv, RowsInv, NEW c \in Threads, Ask(c),
         \/ \E verdict \in G!Verdicts : G!Evaluate(c, verdict)
         \/ G!EvaluateFailsClosed(c)
  PROVE  ChecksInv' /\ RowsInv'
<1>1. PICK v \in G!Verdicts :
        /\ decision' = [decision EXCEPT ![c] = G!Decision(c, v, GateOf[c] \in Redacting)]
        /\ \E e : /\ evaluated' = [evaluated EXCEPT ![c] = e]
                  /\ \/ v = e
                     \/ v = "error" /\ e = "raises"
  BY DEF G!Evaluate, G!EvaluateFailsClosed, G!Decide, G!Verdicts
<1>2. /\ place[c] = "start"
      /\ place' = [place EXCEPT ![c] = "record"]
      /\ record' = record /\ executed' = executed
  BY DEF G!Evaluate, G!EvaluateFailsClosed, G!Decide, G!At, G!Goto
<1>3. UNCHANGED vars
  BY AskLeavesLedger
<1>4. pc[c] = "idle" /\ CheckInv(c)
  BY <1>2 DEF ChecksInv, CheckInv
<1>5. Answers(c, decision[c])'
  <2> DEFINE redacted == GateOf[c] \in Redacting
  <2>1. redacted \in BOOLEAN
    OBVIOUS
  <2>2. decision'[c] = G!Decision(c, v, redacted)
    BY <1>1 DEF ChecksInv
  <2>3. evaluated'[c] = v \/ (v = "error" /\ evaluated'[c] = "raises")
    BY <1>1 DEF ChecksInv
  <2> HIDE DEF redacted
  <2>4. QED  BY <2>1, <2>2, <2>3, DecisionsAre DEF Answers
<1>6. CheckInv(c)'
  <2>1. Permitted(c) => Permitted(c)'
    BY <1>3 DEF Permitted, vars
  <2>2. place'[c] = "record" /\ record'[c] = None /\ pc'[c] = "idle"
    BY <1>2, <1>3, <1>4 DEF ChecksInv, CheckInv, vars
  <2>3. QED  BY <1>2, <1>4, <1>5, <2>1, <2>2 DEF CheckInv, G!IsStrict
<1>7. OnlyOf(c)
  BY <1>1, <1>2, <1>3 DEF OnlyOf, Untouched, ChecksInv, G!Labels, vars
<1>8. ChecksInv'
  BY <1>3, <1>6, <1>7, OthersStay DEF vars, IsPrefix
<1>9. RowsInv'
  BY <1>1, <1>2, <1>3, RowsStay DEF ChecksInv, vars
<1>10. QED  BY <1>8, <1>9

\* An exception of evaluate that leaves check.
LEMMA EvaluateRaisesKeeps ==
  ASSUME ChecksInv, RowsInv, NEW c \in Threads, Ask(c), G!EvaluateRaises(c)
  PROVE  ChecksInv' /\ RowsInv'
<1>1. /\ place[c] = "start"
      /\ place' = [place EXCEPT ![c] = "raised"]
      /\ \E e : evaluated' = [evaluated EXCEPT ![c] = e]
      /\ decision' = decision /\ record' = record /\ executed' = executed
  BY DEF G!EvaluateRaises, G!At, G!Goto
<1>2. UNCHANGED vars
  BY AskLeavesLedger
<1>3. CheckInv(c)'
  <2>1. Permitted(c) => Permitted(c)'
    BY <1>2 DEF Permitted, vars
  <2>2. place'[c] = "raised" /\ pc'[c] = "idle" /\ CheckInv(c)
    BY <1>1, <1>2 DEF ChecksInv, CheckInv, vars
  <2>3. QED  BY <1>1, <2>1, <2>2 DEF CheckInv, G!IsStrict
<1>4. OnlyOf(c)
  BY <1>1, <1>2 DEF OnlyOf, Untouched, ChecksInv, G!Labels, vars
<1>5. ChecksInv'
  BY <1>2, <1>3, <1>4, OthersStay DEF vars, IsPrefix
<1>6. RowsInv'
  BY <1>1, <1>2, RowsStay DEF ChecksInv, vars
<1>7. QED  BY <1>5, <1>6

\* check_or_raise refuses or lets pass, and the tool runs: of a strict gate
\* only what is neither denied nor escalated, and so is in the table.
LEMMA EnforceKeeps ==
  ASSUME ChecksInv, RowsInv, NEW c \in Threads, Ask(c),
         G!Refuse(c) \/ G!Pass(c) \/ G!Run(c)
  PROVE  ChecksInv' /\ RowsInv'
<1>1. PICK label \in {"refused", "run", "done"} :
        /\ place' = [place EXCEPT ![c] = label]
        /\ place[c] \in {"enforce", "run"}
        /\ label = "run" => G!Pass(c)
        /\ label = "done" => place[c] = "run"
  BY DEF G!Refuse, G!Pass, G!Run, G!At, G!Goto
<1>2. /\ \/ executed' = executed
         \/ place[c] = "run" /\ executed' = executed \cup {c}
      /\ decision' = decision /\ record' = record /\ evaluated' = evaluated
  BY DEF G!Refuse, G!Pass, G!Run, G!At, G!local
<1>3. UNCHANGED vars
  BY AskLeavesLedger
<1>4. /\ CheckInv(c) /\ pc[c] = "idle" /\ decision[c] \in Decisions
      /\ place'[c] = label
  BY <1>1 DEF ChecksInv, CheckInv
<1>5. CheckInv(c)'
  <2>1. Permitted(c) => Permitted(c)'
    BY <1>3 DEF Permitted, vars
  <2>2. Backed(c) => Backed(c)'
    BY <1>2, <1>3 DEF Backed, InTable, G!Denied, vars
  <2>3. ASSUME G!IsStrict(c), label = "run" PROVE Permitted(c)
    <3>1. Backed(c) /\ ~ G!Denied(c) /\ decision[c].verdict # "escalate"
      BY <1>1, <1>4, <2>3 DEF CheckInv, G!Pass
    <3>2. decision[c].verdict = "allow"
      BY <1>4, <3>1, DecisionsHave DEF G!Denied, G!Verdicts
    <3>3. QED  BY <3>1, <3>2 DEF Backed, InTable, Permitted
  <2>4. pc'[c] = "idle"
    BY <1>3, <1>4 DEF vars
  <2>5. QED  BY <1>1, <1>2, <1>4, <2>1, <2>2, <2>3, <2>4 DEF CheckInv, G!IsStrict
<1>6. OnlyOf(c)
  BY <1>1, <1>2, <1>3 DEF OnlyOf, Untouched, ChecksInv, G!Labels, vars
<1>7. ChecksInv'
  BY <1>3, <1>5, <1>6, OthersStay DEF vars, IsPrefix
<1>8. RowsInv'
  BY <1>1, <1>2, <1>3, RowsStay DEF ChecksInv, vars
<1>9. QED  BY <1>7, <1>8

\* A call that leaves record: the ledger forgets it, whatever it did before.
LEMMA LeavesRecord ==
  ASSUME IInv, NEW c \in Threads, Leave(c)
  PROVE  /\ pc'[c] = "idle"
         /\ \A u \in Threads \ {c} : pc'[u] = pc[u] /\ call'[u] = call[u]
BY DEF Leave, Goto, IInv, ThreadsInv, CallsInv

\* Calling record and the statements before its commit change nothing of
\* check, nor the decision that is being recorded.
LEMMA WithinRecordKeeps ==
  ASSUME IInv, ChecksInv, RowsInv, NEW c \in Threads, CallRecord(c) \/ Store(c)
  PROVE  ChecksInv' /\ RowsInv'
<1>1. UNCHANGED gateVars /\ committed' = committed /\ returned' = returned
  BY DEF CallRecord, Store, Record, Acquire, GetLastHash, GetLastSequence, Insert
<1>2. call[c] = Signable(call[c].decision, call[c].previous_hash, call[c].sequence)
      /\ pc \in [Threads -> Labels] /\ DOMAIN call = Threads /\ CheckInv(c)
  BY DEF IInv, CallsInv, CallInv, ThreadsInv, ChecksInv
<1>3. CASE CallRecord(c)
  <2>1. /\ place[c] = "record"
        /\ pc' = [pc EXCEPT ![c] = "lock"]
        /\ call' = [call EXCEPT ![c].decision = decision[c]]
    BY <1>3 DEF CallRecord, Record, Goto, G!At
  <2>2. call'[c].decision = decision[c]
    BY <1>2, <2>1 DEF Signable
  <2>3. OnlyOf(c)
    BY <1>1, <1>2, <2>1 DEF OnlyOf, Untouched, ChecksInv, gateVars
  <2>4. CheckInv(c)'
    <3>1. Answers(c, decision[c]) => Answers(c, decision[c])'
      BY <1>1 DEF Answers, gateVars
    <3>2. Permitted(c) => Permitted(c)'
      BY <1>1 DEF Permitted
    <3>3. QED  BY <1>1, <1>2, <2>1, <2>2, <3>1, <3>2 DEF CheckInv, G!IsStrict, gateVars
  <2>5. ChecksInv'
    BY <1>1, <2>3, <2>4, OthersStay DEF IsPrefix
  <2>6. QED  BY <1>1, <2>5, RowsStay DEF gateVars
<1>4. CASE Store(c)
  <2>1. PICK label \in Labels \ {"idle", "return"} :
          /\ pc[c] \notin {"idle", "return"}
          /\ pc' = [pc EXCEPT ![c] = label]
          /\ \/ call' = call
             \/ \E h : call' = [call EXCEPT ![c].previous_hash = h]
             \/ \E n : call' = [call EXCEPT ![c].sequence = n]
    BY <1>4 DEF Store, Acquire, GetLastHash, GetLastSequence, Insert, Insertable, At, Goto, Labels
  <2>2. call'[c].decision = call[c].decision /\ pc'[c] = label
    BY <1>2, <2>1 DEF Signable
  <2>3. OnlyOf(c)
    BY <1>1, <1>2, <2>1 DEF OnlyOf, Untouched, ChecksInv, gateVars
  <2>4. CheckInv(c)'
    <3>1. Answers(c, decision[c]) => Answers(c, decision[c])'
      BY <1>1 DEF Answers, gateVars
    <3>2. Permitted(c) => Permitted(c)'
      BY <1>1 DEF Permitted
    <3>3. place[c] = "record"
      BY <1>2, <2>1 DEF CheckInv
    <3>4. QED
      BY <1>1, <1>2, <2>1, <2>2, <3>1, <3>2, <3>3 DEF CheckInv, G!IsStrict, gateVars
  <2>5. ChecksInv'
    BY <1>1, <2>3, <2>4, OthersStay DEF IsPrefix
  <2>6. QED  BY <1>1, <2>5, RowsStay DEF gateVars
<1>5. QED  BY <1>3, <1>4

\* The commit adds the row of a call that had none, with its decision.
LEMMA CommitRowKeeps ==
  ASSUME IInv, ChecksInv, RowsInv, NEW c \in Threads, CommitRow(c)
  PROVE  ChecksInv' /\ RowsInv'
<1>0. PICK n : n = call[c].sequence
  OBVIOUS
<1>1. /\ pc[c] = "commit" /\ pc' = [pc EXCEPT ![c] = "return"]
      /\ place' = [place EXCEPT ![c] = "committed"]
      /\ UNCHANGED <<call, returned, evaluated, decision, record, executed>>
  BY DEF CommitRow, Commit, At, Goto, G!Goto
<1>2. /\ IsPrefix(committed, committed')
      /\ DOMAIN committed' = DOMAIN committed \cup {n}
      /\ committed'[n] = RecordOf(c)
      /\ n \notin DOMAIN committed
  BY <1>0, CommitAddsRow DEF CommitRow
<1>3. /\ CheckInv(c) /\ pc \in [Threads -> Labels]
      /\ place[c] = "record" /\ Answers(c, decision[c])
      /\ call[c].decision = decision[c]
  BY <1>1 DEF ChecksInv, CheckInv, IInv, ThreadsInv
<1>4. committed'[n].decision = decision[c] /\ decision[c].call = c
  BY <1>2, <1>3 DEF RecordOf, NewRecord, Answers
<1>5. OnlyOf(c)
  BY <1>1, <1>3 DEF OnlyOf, Untouched, ChecksInv, G!Labels
<1>6. CheckInv(c)'
  <2>1. Permitted(c) => Permitted(c)'
    BY <1>2 DEF Permitted, IsPrefix
  <2>2. Answers(c, decision[c])'
    BY <1>1, <1>3 DEF Answers
  <2>3. place'[c] = "committed" /\ pc'[c] = "return"
    BY <1>1, <1>3 DEF ChecksInv
  <2>4. QED  BY <1>1, <1>3, <2>1, <2>2, <2>3 DEF CheckInv, G!IsStrict
<1>7. ChecksInv'
  BY <1>1, <1>2, <1>5, <1>6, OthersStay
<1>8. RowsInv'
  <2>1. ASSUME NEW s \in DOMAIN committed
        PROVE  /\ committed'[s] = committed[s]
               /\ committed[s].decision.call # c
               /\ Answers(committed[s].decision.call, committed[s].decision)'
               /\ place'[committed[s].decision.call] \notin {"start", "record"}
    <3> DEFINE d == committed[s].decision
    <3>1. Answers(d.call, d) /\ place[d.call] \notin {"start", "record"}
      BY DEF RowsInv
    <3>2. d.call # c /\ d.call \in Threads
      BY <1>3, <3>1, DecisionsHave DEF Answers
    <3>3. place'[d.call] = place[d.call]
      BY <1>1, <3>2
    <3>4. Answers(d.call, d)'
      BY <1>1, <1>2, <3>1 DEF Answers, IsPrefix
    <3>5. QED  BY <1>2, <3>1, <3>2, <3>3, <3>4 DEF IsPrefix
  <2>2. Answers(c, committed[n].decision)' /\ place'[c] = "committed"
    BY <1>1, <1>3, <1>4 DEF Answers, ChecksInv
  <2>3. \A s \in DOMAIN committed' : s # n => s \in DOMAIN committed
    BY <1>2
  <2>4. ASSUME NEW s \in DOMAIN committed'
        PROVE  /\ Answers(committed[s].decision.call, committed[s].decision)'
               /\ place'[committed'[s].decision.call] \notin {"start", "record"}
    BY <1>4, <2>1, <2>2, <2>3
  <2>5. ASSUME NEW s \in DOMAIN committed', NEW u \in DOMAIN committed',
               committed'[s].decision.call = committed'[u].decision.call
        PROVE  s = u
    <3>1. CASE s = n \/ u = n
      BY <1>4, <2>1, <2>3, <2>5, <3>1
    <3>2. CASE s # n /\ u # n
      BY <2>1, <2>3, <2>5, <3>2 DEF RowsInv
    <3>3. QED  BY <3>1, <3>2
  <2>6. QED  BY <2>4, <2>5 DEF RowsInv
<1>9. QED  BY <1>7, <1>8

\* record returns the row it committed, with the decision it was given.
LEMMA RecordedKeeps ==
  ASSUME IInv, ChecksInv, RowsInv, NEW c \in Threads, Recorded(c)
  PROVE  ChecksInv' /\ RowsInv'
<1>1. /\ pc[c] = "return"
      /\ committed' = committed
      /\ returned' = returned \cup {RecordOf(c)}
      /\ record' = [record EXCEPT ![c] = RecordOf(c)]
      /\ UNCHANGED <<evaluated, decision, executed>>
  BY DEF Recorded, Return, At
<1>2. PICK label \in {"enforce", "done"} : place' = [place EXCEPT ![c] = label]
  BY DEF Recorded, G!Finish, G!Goto
<1>3. /\ pc'[c] = "idle"
      /\ \A u \in Threads \ {c} : pc'[u] = pc[u] /\ call'[u] = call[u]
  BY LeavesRecord DEF Recorded, Return
<1>4. /\ CheckInv(c) /\ place[c] = "committed" /\ Answers(c, decision[c])
      /\ call[c].decision = decision[c]
  BY <1>1 DEF ChecksInv, CheckInv
<1>5. call[c].sequence \in DOMAIN committed /\ committed[call[c].sequence] = RecordOf(c)
  BY <1>1 DEF IInv, CallsInv, CallInv, At
<1>6. Backed(c)'
  <2>1. record'[c] = RecordOf(c) /\ decision'[c] = decision[c]
    BY <1>1 DEF ChecksInv
  <2>2. RecordOf(c).decision = decision[c] /\ decision[c].call = c
    BY <1>4 DEF RecordOf, NewRecord, Answers
  <2>3. InTable(record[c])'
    BY <1>1, <1>5, <2>1 DEF InTable
  <2>4. QED  BY <1>1, <2>1, <2>2, <2>3 DEF Backed
<1>7. CheckInv(c)'
  <2>1. Permitted(c) => Permitted(c)'
    BY <1>1 DEF Permitted
  <2>2. place'[c] = label /\ decision'[c] \in Decisions
    BY <1>1, <1>2, <1>4 DEF ChecksInv, Answers
  <2>3. QED  BY <1>1, <1>3, <1>4, <1>6, <2>1, <2>2 DEF CheckInv, G!IsStrict
<1>8. OnlyOf(c)
  BY <1>1, <1>2, <1>3 DEF OnlyOf, Untouched, ChecksInv, G!Labels
<1>9. ChecksInv'
  BY <1>1, <1>7, <1>8, OthersStay DEF IsPrefix
<1>10. RowsInv'
  BY <1>1, <1>2, <1>4, RowsStay DEF ChecksInv
<1>11. QED  BY <1>9, <1>10

\* A LedgerError leaves no row of the call: a strict gate denies.
LEMMA AppendFailsKeeps ==
  ASSUME IInv, ChecksInv, RowsInv, NEW c \in Threads, AppendFails(c)
  PROVE  ChecksInv' /\ RowsInv'
<1>1. /\ pc[c] \in {"append", "commit"}
      /\ Leave(c)
      /\ committed' = committed /\ returned' = returned
      /\ UNCHANGED <<evaluated, record, executed>>
  BY DEF AppendFails, InsertViolates, InsertBusy, InsertFails, CommitFails, Insertable, At
<1>2. PICK label \in {"enforce", "done"} : place' = [place EXCEPT ![c] = label]
  BY DEF AppendFails, G!Finish, G!Goto
<1>3. decision' = [decision EXCEPT ![c] =
        IF G!IsStrict(c) THEN G!Decision(c, "error", FALSE) ELSE @]
  BY DEF AppendFails
<1>4. /\ pc'[c] = "idle"
      /\ \A u \in Threads \ {c} : pc'[u] = pc[u] /\ call'[u] = call[u]
  BY <1>1, LeavesRecord
<1>5. /\ CheckInv(c) /\ place[c] = "record" /\ Answers(c, decision[c])
      /\ record[c] = None
  BY <1>1 DEF ChecksInv, CheckInv
<1>6. /\ decision'[c] \in Decisions
      /\ G!IsStrict(c) => decision'[c].verdict = "error"
  <2>1. decision'[c] = IF G!IsStrict(c) THEN G!Decision(c, "error", FALSE) ELSE decision[c]
    BY <1>3 DEF ChecksInv
  <2>2. "error" \in G!Verdicts /\ FALSE \in BOOLEAN
    BY DEF G!Verdicts
  <2>3. /\ G!Decision(c, "error", FALSE) \in Decisions
        /\ G!Decision(c, "error", FALSE).verdict = "error"
    BY <2>2, DecisionsAre
  <2>4. QED  BY <1>5, <2>1, <2>3 DEF Answers
<1>7. G!IsStrict(c) => Backed(c)'
  BY <1>1, <1>5, <1>6 DEF Backed, G!Denied
<1>8. CheckInv(c)'
  <2>1. Permitted(c) => Permitted(c)'
    BY <1>1 DEF Permitted
  <2>2. place'[c] = label
    BY <1>2 DEF ChecksInv
  <2>3. QED  BY <1>1, <1>4, <1>5, <1>6, <1>7, <2>1, <2>2 DEF CheckInv, G!IsStrict
<1>9. OnlyOf(c)
  BY <1>1, <1>2, <1>3, <1>4 DEF OnlyOf, Untouched, ChecksInv, G!Labels
<1>10. ChecksInv'
  BY <1>1, <1>8, <1>9, OthersStay DEF IsPrefix
<1>11. RowsInv'
  BY <1>1, <1>2, <1>5, RowsStay DEF ChecksInv
<1>12. QED  BY <1>10, <1>11

\* Any other exception leaves record and check with no row of the call.
LEMMA RecordRaisesKeeps ==
  ASSUME IInv, ChecksInv, RowsInv, NEW c \in Threads, RecordRaises(c)
  PROVE  ChecksInv' /\ RowsInv'
<1>1. /\ pc[c] \in {"hash", "sequence", "append"}
      /\ Leave(c)
      /\ committed' = committed /\ returned' = returned
      /\ UNCHANGED <<evaluated, decision, record, executed>>
      /\ place' = [place EXCEPT ![c] = "raised"]
  BY DEF RecordRaises, SelectFails, CanonicalJsonRaises, At, G!Goto
<1>2. /\ pc'[c] = "idle"
      /\ \A u \in Threads \ {c} : pc'[u] = pc[u] /\ call'[u] = call[u]
  BY <1>1, LeavesRecord
<1>3. CheckInv(c) /\ place'[c] = "raised"
  BY <1>1 DEF ChecksInv
<1>4. CheckInv(c)'
  <2>1. Permitted(c) => Permitted(c)'
    BY <1>1 DEF Permitted
  <2>2. QED  BY <1>1, <1>2, <1>3, <2>1 DEF CheckInv, G!IsStrict
<1>5. OnlyOf(c)
  BY <1>1, <1>2 DEF OnlyOf, Untouched, ChecksInv, G!Labels
<1>6. ChecksInv'
  BY <1>1, <1>4, <1>5, OthersStay DEF IsPrefix
<1>7. place[c] = "record"
  BY <1>1, <1>3 DEF CheckInv
<1>8. RowsInv'
  BY <1>1, <1>7, RowsStay DEF ChecksInv
<1>9. QED  BY <1>6, <1>8

\* A step that no call of check takes part in.
LEMMA NoCallsKeep ==
  ASSUME IInv, ChecksInv, RowsInv, ReadTable \/ UNCHANGED checkVars
  PROVE  ChecksInv' /\ RowsInv'
<1>1. UNCHANGED <<gateVars, committed, returned, pc, call>>
  BY DEF ReadTable, Read, checkVars, vars
<1>2. \A c \in Threads : CheckInv(c)'
  <2> SUFFICES ASSUME NEW c \in Threads PROVE CheckInv(c)'
    OBVIOUS
  <2>1. Untouched(c) /\ CheckInv(c)
    BY <1>1 DEF Untouched, gateVars, ChecksInv
  <2>2. QED  BY <1>1, <2>1, UntouchedKeeps DEF IsPrefix
<1>3. ChecksInv'
  BY <1>1, <1>2 DEF ChecksInv, gateVars
<1>4. RowsInv'
  BY <1>1, RowsStay DEF gateVars
<1>5. QED  BY <1>3, <1>4

\* The process stops: no call is inside record any more, and those that were
\* under way hold nothing.
LEMMA StopKeepsChecks ==
  ASSUME ChecksInv, RowsInv, Stop
  PROVE  ChecksInv' /\ RowsInv'
<1>1. /\ place' = [c \in Threads |->
                    IF place[c] \in G!Ended \cup {"start"} THEN place[c] ELSE "stopped"]
      /\ pc' = [c \in Threads |-> "idle"]
      /\ UNCHANGED <<committed, returned, evaluated, decision, record, executed>>
  BY DEF Stop, Idle
<1>2. ASSUME NEW c \in Threads PROVE CheckInv(c)'
  <2>1. Permitted(c) => Permitted(c)'
    BY <1>1 DEF Permitted
  <2>2. Backed(c) => Backed(c)'
    BY <1>1 DEF Backed, InTable, G!Denied
  <2>3. CheckInv(c) /\ pc'[c] = "idle"
    BY <1>1 DEF ChecksInv
  <2>4. \/ place'[c] = place[c] /\ place[c] \in G!Ended \cup {"start"}
        \/ place'[c] = "stopped"
    BY <1>1
  <2>5. QED  BY <1>1, <2>1, <2>2, <2>3, <2>4 DEF CheckInv, G!IsStrict, G!Ended
<1>3. place' \in [Threads -> G!Labels]
  BY <1>1 DEF ChecksInv, G!Labels
<1>4. ChecksInv'
  BY <1>1, <1>2, <1>3 DEF ChecksInv
<1>5. RowsInv'
  BY <1>1, RowsStay DEF G!Ended
<1>6. QED  BY <1>4, <1>5

\* Nobody has asked anything and the table is empty.
LEMMA InitGovernedInv == CheckInit => GovernedInv
<1> SUFFICES ASSUME CheckInit PROVE GovernedInv
  OBVIOUS
<1>1. IInv
  BY InitIInv DEF CheckInit
<1>2. /\ place = [c \in Threads |-> "start"] /\ pc = [c \in Threads |-> "idle"]
      /\ record = [c \in Threads |-> None]
      /\ DOMAIN evaluated = Threads /\ DOMAIN decision = Threads
      /\ executed = {} /\ DOMAIN committed = {}
  BY DEF CheckInit, Init, G!Init, EmptyTable
<1>3. ChecksInv
  BY <1>2 DEF ChecksInv, CheckInv, G!Labels
<1>4. QED  BY <1>1, <1>2, <1>3 DEF GovernedInv, RowsInv

\* Every step keeps the invariant: one fact per action, each proved above.
LEMMA NextGovernedInv == GovernedInv /\ [CheckNext]_checkVars => GovernedInv'
<1> SUFFICES ASSUME GovernedInv, [CheckNext]_checkVars PROVE GovernedInv'
  OBVIOUS
<1> USE DEF GovernedInv
<1>1. IInv'
  BY LedgerStays
<1>2. ASSUME NEW c \in Threads, Proceed(c) PROVE ChecksInv' /\ RowsInv'
  <2>1. CASE Ask(c)
    BY <2>1, DecideKeeps, EvaluateRaisesKeeps, EnforceKeeps DEF Ask
  <2>2. CASE CallRecord(c) \/ Store(c)
    BY <2>2, WithinRecordKeeps
  <2>3. CASE CommitRow(c)
    BY <2>3, CommitRowKeeps
  <2>4. CASE Recorded(c)
    BY <2>4, RecordedKeeps
  <2>5. CASE AppendFails(c)
    BY <2>5, AppendFailsKeeps
  <2>6. CASE RecordRaises(c)
    BY <2>6, RecordRaisesKeeps
  <2>7. QED  BY <1>2, <2>1, <2>2, <2>3, <2>4, <2>5, <2>6 DEF Proceed
<1>3. CASE ReadTable \/ UNCHANGED checkVars
  BY <1>1, <1>3, NoCallsKeep
<1>4. CASE Stop
  BY <1>1, <1>4, StopKeepsChecks
<1>5. QED  BY <1>1, <1>2, <1>3, <1>4 DEF CheckNext

\* The inductive invariant holds in every state of every behaviour, with any
\* number of ledger objects.
THEOREM GovernedInvariant == CheckSpec => []GovernedInv
<1>1. QED  BY InitGovernedInv, NextGovernedInv, PTL DEF CheckSpec

-----------------------------------------------------------------------------
(***************************************************************************)
(* What the gates promise, over ledger objects that compete.               *)
(***************************************************************************)

\* The rows of a call, as Gate counts them.
LEMMA RecordsOfCall ==
  ASSUME IInv, NEW c
  PROVE  /\ G!RecordsOf(c) = {s \in DOMAIN committed : committed[s].decision.call = c}
         /\ \E n \in Nat : DOMAIN committed = 1 .. n
<1>1. PICK n \in Nat : Numbered(committed, n)
  BY DEF IInv, TablesInv, IsTable
<1>2. DOMAIN committed = 1 .. n /\ Len(committed) = n
  BY <1>1, ChainedIsSeq DEF Numbered
<1>3. QED  BY <1>2 DEF G!RecordsOf

\* The tools that ran behind a strict gate have their allow decision in the
\* table, for any calls, gates and ledger objects that compete for it.
THEOREM ToolsRunOnCommittedRows == CheckSpec => []ExecutedIsRecorded
<1>1. GovernedInv => ExecutedIsRecorded
  <2> SUFFICES ASSUME GovernedInv, NEW c \in executed, G!IsStrict(c)
               PROVE  \E i \in G!RecordsOf(c) : committed[i].decision.verdict = "allow"
    BY DEF ExecutedIsRecorded, G!ExecutedIsRecorded
  <2>1. Permitted(c)
    BY DEF GovernedInv, ChecksInv, CheckInv
  <2>2. QED  BY <2>1, RecordsOfCall DEF GovernedInv, Permitted
<1>2. QED  BY <1>1, GovernedInvariant, PTL

\* What a strict gate gives is a denial or a stored record, for any ledger
\* objects.
THEOREM StrictResultsAreStored == CheckSpec => []ResultIsRecordedOrDenied
<1>1. GovernedInv => ResultIsRecordedOrDenied
  <2> SUFFICES ASSUME GovernedInv, NEW c \in Threads, G!IsStrict(c),
                      place[c] \in {"enforce", "run", "done"}
               PROVE  \/ record[c] = None /\ G!Denied(c)
                      \/ /\ record[c] \in returned /\ record[c].decision = decision[c]
                         /\ \E i \in G!RecordsOf(c) : committed[i] = record[c]
    BY DEF ResultIsRecordedOrDenied, G!ResultIsRecordedOrDenied
  <2>1. Backed(c)
    BY DEF GovernedInv, ChecksInv, CheckInv
  <2>2. QED  BY <2>1, RecordsOfCall DEF GovernedInv, Backed, InTable
<1>2. QED  BY <1>1, GovernedInvariant, PTL

\* Every step but a return from record and a stop leaves the calls that have
\* committed their row where they are, with what they hold, and adds no row
\* but the one of the call that commits it.
LEMMA CommittedWait ==
  ASSUME GovernedInv, NEW c \in Threads, Proceed(c), ~ Recorded(c)
  PROVE  /\ record' = record /\ lost' = lost
         /\ \A u \in Threads : place[u] = "committed" =>
              place'[u] = place[u] /\ call'[u] = call[u]
         /\ ~ CommitRow(c) => committed' = committed
<1>1. /\ CheckInv(c) /\ DOMAIN call = Threads /\ DOMAIN place = Threads
  BY DEF GovernedInv, ChecksInv, IInv, CallsInv
<1>2. CASE Ask(c)
  BY <1>1, <1>2 DEF Ask, vars, G!Evaluate, G!EvaluateFailsClosed, G!EvaluateRaises, G!Decide,
       G!Refuse, G!Pass, G!Run, G!Goto, G!At, G!local
<1>3. CASE CallRecord(c)
  BY <1>1, <1>3 DEF CallRecord, Record, gateVars, G!At
<1>4. CASE Store(c)
  <2>1. place[c] # "committed"
    BY <1>1, <1>4 DEF CheckInv, Store, Acquire, GetLastHash, GetLastSequence, Insert,
         Insertable, At
  <2>2. QED  BY <1>1, <1>4, <2>1 DEF Store, Acquire, GetLastHash, GetLastSequence, Insert, gateVars
<1>5. CASE CommitRow(c)
  <2>1. place[c] # "committed"
    BY <1>1, <1>5 DEF CheckInv, CommitRow, Commit, At
  <2>2. QED  BY <1>1, <1>5, <2>1 DEF CommitRow, Commit, G!Goto
<1>6. CASE AppendFails(c) \/ RecordRaises(c)
  <2>1. /\ pc[c] \notin {"idle", "return"} /\ Leave(c)
        /\ UNCHANGED <<committed, lost, record>>
        /\ \E label : place' = [place EXCEPT ![c] = label]
    BY <1>6 DEF AppendFails, RecordRaises, InsertViolates, InsertBusy, InsertFails, CommitFails,
         SelectFails, CanonicalJsonRaises, Insertable, At, G!Finish, G!Goto
  <2>2. place[c] # "committed"
    BY <1>1, <2>1 DEF CheckInv
  <2>3. QED  BY <1>1, <2>1, <2>2 DEF Leave
<1>7. QED  BY <1>2, <1>3, <1>4, <1>5, <1>6 DEF Proceed

\* No step takes a row away from the call that holds it.
LEMMA HeldStays ==
  ASSUME GovernedInv, RowsAreHeld, [CheckNext]_checkVars
  PROVE  RowsAreHeld'
<1> DEFINE Held(row, c) == \/ G!At(c, "committed") /\ RecordOf(c) = row
                          \/ record[c] = row
                          \/ row \in lost
<1>1. ASSUME NEW s \in DOMAIN committed
      PROVE  /\ committed[s].decision.call \in Threads
             /\ place[committed[s].decision.call] \notin {"start", "record"}
             /\ Held(committed[s], committed[s].decision.call)
  BY DecisionsHave DEF GovernedInv, RowsInv, Answers, RowsAreHeld
<1>2. DOMAIN place = Threads /\ DOMAIN record = Threads /\ \A c \in Threads : CheckInv(c)
  BY DEF GovernedInv, ChecksInv
<1>3. CASE \E c \in Threads : Proceed(c) /\ ~ Recorded(c)
  <2>1. PICK c \in Threads : Proceed(c) /\ ~ Recorded(c)
    BY <1>3
  <2>2. ASSUME NEW s \in DOMAIN committed
        PROVE  Held(committed[s], committed[s].decision.call)'
                 \/ committed'[s] # committed[s]
    BY <1>1, <2>1, CommittedWait DEF RecordOf, G!At
  <2>3. CASE committed' = committed
    BY <2>2, <2>3 DEF RowsAreHeld
  <2>4. CASE CommitRow(c)
    <3>1. PICK n : /\ IsPrefix(committed, committed')
                   /\ DOMAIN committed' = DOMAIN committed \cup {n}
                   /\ committed'[n] = RecordOf(c)
      BY <2>4, CommitAddsRow DEF CommitRow, GovernedInv
    <3>2. RecordOf(c).decision.call = c /\ RecordOf(c)' = RecordOf(c)
      <4>1. pc[c] = "commit" /\ call' = call
        BY <2>4 DEF CommitRow, Commit, At
      <4>2. call[c].decision.call = c
        BY <1>2, <4>1 DEF CheckInv, Answers
      <4>3. QED  BY <4>1, <4>2 DEF RecordOf, NewRecord
    <3>3. place'[c] = "committed"
      BY <1>2, <2>4 DEF CommitRow, G!Goto
    <3>4. Held(committed[n], committed[n].decision.call)'
      BY <3>1, <3>2, <3>3 DEF G!At
    <3>5. \A s \in DOMAIN committed : committed'[s] = committed[s]
      BY <3>1 DEF IsPrefix
    <3>6. \A s \in DOMAIN committed' : Held(committed[s], committed[s].decision.call)'
      BY <2>2, <3>1, <3>4, <3>5
    <3>7. QED  BY <3>6 DEF RowsAreHeld
  <2>5. QED  BY <2>1, <2>3, <2>4, CommittedWait
<1>4. ASSUME NEW c \in Threads, Recorded(c) PROVE RowsAreHeld'
  <2>1. /\ UNCHANGED <<committed, lost>>
        /\ record' = [record EXCEPT ![c] = RecordOf(c)]
        /\ pc[c] = "return"
        /\ \A u \in Threads \ {c} : place'[u] = place[u] /\ call'[u] = call[u]
    <3>1. \A u \in Threads \ {c} : call'[u] = call[u]
      BY <1>4, LeavesRecord DEF Recorded, Return, GovernedInv
    <3>2. QED  BY <1>2, <1>4, <3>1 DEF Recorded, Return, At, G!Finish, G!Goto
  <2>2. /\ call[c].sequence \in DOMAIN committed
        /\ committed[call[c].sequence] = RecordOf(c)
        /\ RecordOf(c).decision.call = c
    <3>1. place[c] = "committed" /\ call[c].decision.call = c
      BY <1>2, <2>1 DEF CheckInv, Answers
    <3>2. QED  BY <2>1, <3>1 DEF GovernedInv, IInv, CallsInv, CallInv, At, RecordOf, NewRecord
  <2>3. ASSUME NEW s \in DOMAIN committed
        PROVE  Held(committed[s], committed[s].decision.call)'
    <3>1. CASE committed[s].decision.call = c
      <4>1. committed[s] = RecordOf(c)
        BY <2>2, <3>1 DEF GovernedInv, RowsInv
      <4>2. QED  BY <1>2, <2>1, <3>1, <4>1
    <3>2. CASE committed[s].decision.call # c
      BY <1>1, <1>2, <2>1, <3>2 DEF RecordOf, G!At
    <3>3. QED  BY <3>1, <3>2
  <2>4. QED  BY <2>1, <2>3 DEF RowsAreHeld
<1>5. ASSUME ReadTable \/ UNCHANGED checkVars PROVE RowsAreHeld'
  <2>1. UNCHANGED <<committed, lost, record, place, call>>
    BY <1>5 DEF ReadTable, Read, gateVars, checkVars, vars
  <2>2. QED  BY <2>1 DEF RowsAreHeld, RecordOf, G!At
<1>6. ASSUME Stop PROVE RowsAreHeld'
  <2>1. /\ UNCHANGED <<committed, record>>
        /\ lost' = lost \cup {RecordOf(c) : c \in {d \in Threads : At(d, "return")}}
    BY <1>6 DEF Stop
  <2>2. ASSUME NEW s \in DOMAIN committed
        PROVE  record[committed[s].decision.call] = committed[s] \/ committed[s] \in lost'
    BY <1>1, <1>2, <2>1 DEF CheckInv, At, G!At
  <2>3. QED  BY <2>1, <2>2 DEF RowsAreHeld
<1>7. QED  BY <1>3, <1>4, <1>5, <1>6 DEF CheckNext

\* A call leaves at most one row, with the engine's answer, and holds it unless
\* the process stopped: a recording that failed leaves none, also not later,
\* for any ledger objects, their failures and the transactions these leave open.
THEOREM RowsAnswer == CheckSpec => [](RowsAreHeld /\ G!RecordedIsEvaluated)
<1>1. ASSUME GovernedInv, NEW c \in Threads
      PROVE  G!Cardinality(G!RecordsOf(c)) <= 1
  <2>1. G!Cardinality(G!RecordsOf(c)) = Cardinality(G!RecordsOf(c))
    BY DEF G!Cardinality, Cardinality
  <2>2. CASE G!RecordsOf(c) = {}
    BY <2>1, <2>2, FS_EmptySet
  <2>3. CASE G!RecordsOf(c) # {}
    <3>1. PICK s \in DOMAIN committed : G!RecordsOf(c) = {s}
      BY <1>1, <2>3, RecordsOfCall DEF GovernedInv, RowsInv
    <3>2. QED  BY <2>1, <3>1, FS_Singleton
  <2>4. QED  BY <2>2, <2>3
<1>2. ASSUME GovernedInv, NEW c \in Threads, NEW i \in G!RecordsOf(c)
      PROVE  \/ committed[i].decision.verdict = evaluated[c]
             \/ committed[i].decision.verdict = "error" /\ evaluated[c] = "raises"
  BY <1>2, RecordsOfCall DEF GovernedInv, RowsInv, Answers
<1>3. GovernedInv => G!RecordedIsEvaluated
  BY <1>1, <1>2 DEF G!RecordedIsEvaluated
<1>4. CheckInit => RowsAreHeld
  BY DEF CheckInit, Init, EmptyTable, RowsAreHeld
<1>5. GovernedInv /\ RowsAreHeld /\ [CheckNext]_checkVars => RowsAreHeld'
  BY HeldStays
<1>6. QED  BY <1>3, <1>4, <1>5, GovernedInvariant, PTL DEF CheckSpec

-----------------------------------------------------------------------------
(***************************************************************************)
(* The other promises of Gate, which do not rest on one chain either.      *)
(***************************************************************************)

\* A receipt is of a record that a ledger object made, redacted if its gate
\* redacts.
ReceiptInv(c) ==
  LET r == receipt[c].record
  IN  /\ receipt[c] = G!CreateReceipt(r, G!GateKey(GateOf[c]))
      /\ r = NewRecord(r.decision, r.previous_hash, r.sequence, LedgerKey)
      /\ GateOf[c] \in Redacting => r.decision.redacted

\* What a call holds is redacted, and lets through only what the engine did.
PromiseInv(c) ==
  /\ place[c] \in {"record", "committed"} => decision[c].redacted = (GateOf[c] \in Redacting)
  /\ place[c] = "enforce" /\ decision[c].verdict = "allow" => evaluated[c] = "allow"
  /\ place[c] = "run" => evaluated[c] = "allow"
  /\ c \in executed => evaluated[c] = "allow" /\ place[c] = "done"
  /\ receipt[c] # None => ReceiptInv(c)

PromisesInv ==
  /\ DOMAIN receipt = Threads
  /\ \A c \in Threads : PromiseInv(c)
  /\ \A s \in DOMAIN committed :
       GateOf[committed[s].decision.call] \in Redacting => committed[s].decision.redacted

\* A call that makes no step keeps what it holds.
LEMMA BystandersKeep ==
  ASSUME GovernedInv, PromisesInv, NEW c \in Threads, Proceed(c)
  PROVE  DOMAIN receipt' = Threads /\ \A u \in Threads \ {c} : PromiseInv(u)'
<1>1. /\ \/ place' = place \/ \E x : place' = [place EXCEPT ![c] = x]
      /\ \/ evaluated' = evaluated \/ \E x : evaluated' = [evaluated EXCEPT ![c] = x]
      /\ \/ decision' = decision \/ \E x : decision' = [decision EXCEPT ![c] = x]
      /\ \/ receipt' = receipt \/ \E x : receipt' = [receipt EXCEPT ![c] = x]
      /\ executed' = executed \/ executed' = executed \cup {c}
  <2>1. CASE Ask(c)
    BY <2>1 DEF Ask, G!Evaluate, G!EvaluateFailsClosed, G!EvaluateRaises, G!Decide,
         G!Refuse, G!Pass, G!Run, G!Goto, G!local
  <2>2. CASE CallRecord(c) \/ Store(c)
    BY <2>2 DEF CallRecord, Store, gateVars
  <2>3. CASE CommitRow(c) \/ Recorded(c)
    BY <2>3 DEF CommitRow, Recorded, G!Goto, G!Finish
  <2>4. CASE AppendFails(c) \/ RecordRaises(c)
    BY <2>4 DEF AppendFails, RecordRaises, G!Goto, G!Finish
  <2>5. QED  BY <2>1, <2>2, <2>3, <2>4 DEF Proceed
<1>2. /\ DOMAIN place = Threads /\ DOMAIN evaluated = Threads /\ DOMAIN decision = Threads
      /\ DOMAIN receipt = Threads
  BY DEF GovernedInv, ChecksInv, PromisesInv
<1>3. ASSUME NEW u \in Threads \ {c} PROVE PromiseInv(u)'
  <2>1. /\ place'[u] = place[u] /\ evaluated'[u] = evaluated[u]
        /\ decision'[u] = decision[u] /\ receipt'[u] = receipt[u]
        /\ u \in executed' => u \in executed
    BY <1>1, <1>2
  <2>2. PromiseInv(u)
    BY DEF PromisesInv
  <2>3. QED  BY <2>1, <2>2 DEF PromiseInv, ReceiptInv
<1>4. QED  BY <1>1, <1>2, <1>3

\* The step of a call keeps what it promises.
LEMMA ActorKeeps ==
  ASSUME GovernedInv, PromisesInv, NEW c \in Threads, Proceed(c)
  PROVE  PromiseInv(c)'
<1>1. /\ DOMAIN place = Threads /\ DOMAIN evaluated = Threads /\ DOMAIN decision = Threads
      /\ DOMAIN receipt = Threads /\ CheckInv(c) /\ PromiseInv(c)
      /\ pc \in [Threads -> Labels]
  BY DEF GovernedInv, IInv, ThreadsInv, ChecksInv, PromisesInv
<1>2. receipt'[c] = receipt[c] => (receipt'[c] # None => ReceiptInv(c)')
  BY <1>1 DEF PromiseInv, ReceiptInv
<1>3. ASSUME NEW v \in G!Verdicts, G!Evaluate(c, v) PROVE PromiseInv(c)'
  BY <1>1, <1>2, <1>3 DEF PromiseInv, G!Evaluate, G!At, G!Goto, G!Decide, G!Decision
<1>4. CASE G!EvaluateFailsClosed(c)
  BY <1>1, <1>2, <1>4 DEF PromiseInv, G!EvaluateFailsClosed, G!At, G!Goto, G!Decide, G!Decision
<1>5. CASE G!EvaluateRaises(c)
  BY <1>1, <1>2, <1>5 DEF PromiseInv, G!EvaluateRaises, G!At, G!Goto
<1>6. CASE G!Refuse(c) \/ G!Run(c)
  BY <1>1, <1>2, <1>6 DEF PromiseInv, G!Refuse, G!Run, G!At, G!Goto, G!local
<1>7. CASE G!Pass(c)
  <2>1. place[c] = "enforce" /\ decision[c] \in Decisions
    BY <1>1, <1>7 DEF G!Pass, G!At, CheckInv
  <2>2. decision[c].verdict = "allow"
    BY <1>7, <2>1, DecisionsHave DEF G!Pass, G!Denied, G!Verdicts
  <2>3. QED  BY <1>1, <1>2, <1>7, <2>1, <2>2 DEF PromiseInv, G!Pass, G!At, G!Goto, G!local
<1>8. CASE CallRecord(c) \/ Store(c)
  BY <1>1, <1>8 DEF CallRecord, Store, gateVars, PromiseInv, ReceiptInv
<1>9. CASE CommitRow(c)
  <2>1. place[c] = "record"
    BY <1>1, <1>9 DEF CommitRow, Commit, At, CheckInv
  <2>2. QED  BY <1>1, <1>2, <1>9, <2>1 DEF CommitRow, PromiseInv, G!Goto
<1>10. CASE Recorded(c)
  <2>1. /\ place[c] = "committed" /\ call[c].decision = decision[c]
        /\ Answers(c, decision[c])
    BY <1>1, <1>10 DEF Recorded, Return, At, CheckInv
  <2>2. \/ receipt'[c] = None
        \/ receipt'[c] = G!CreateReceipt(RecordOf(c), G!GateKey(GateOf[c]))
    BY <1>1, <1>10 DEF Recorded
  <2>3. KeyOf[LedgerOf[c]] = LedgerKey
    BY GovernedLedgerAssumption, LedgerAssumption
  <2>4. RecordOf(c).decision = decision[c]
        /\ RecordOf(c) = NewRecord(decision[c], RecordOf(c).previous_hash,
                                   RecordOf(c).sequence, LedgerKey)
    BY <2>1, <2>3 DEF RecordOf, NewRecord
  <2>5. receipt'[c] # None => ReceiptInv(c)'
    <3> SUFFICES ASSUME receipt'[c] = G!CreateReceipt(RecordOf(c), G!GateKey(GateOf[c]))
                 PROVE  ReceiptInv(c)'
      BY <2>2
    <3>1. receipt'[c].record = RecordOf(c)
      BY DEF G!CreateReceipt
    <3>2. GateOf[c] \in Redacting => decision[c].redacted
      BY <1>1, <2>1 DEF PromiseInv
    <3>3. QED  BY <2>4, <3>1, <3>2 DEF ReceiptInv, G!CreateReceipt, G!GateKey, NewRecord
  <2>6. /\ place'[c] \in {"enforce", "done"}
        /\ UNCHANGED <<evaluated, decision, executed>>
    BY <1>1, <1>10 DEF Recorded, G!Finish, G!Goto
  <2>7. QED  BY <1>1, <2>1, <2>5, <2>6 DEF PromiseInv, Answers
<1>11. CASE AppendFails(c)
  <2>1. place[c] = "record" /\ Answers(c, decision[c])
    BY <1>1, <1>11 DEF AppendFails, InsertViolates, InsertBusy, InsertFails, CommitFails,
         Insertable, At, CheckInv
  <2>2. /\ place'[c] \in {"enforce", "done"}
        /\ decision'[c] = decision[c] \/ decision'[c].verdict = "error"
        /\ UNCHANGED <<evaluated, receipt, executed>>
    BY <1>1, <1>11 DEF AppendFails, G!Finish, G!Goto, G!Decision
  <2>3. QED  BY <1>1, <1>2, <2>1, <2>2 DEF PromiseInv, Answers
<1>12. CASE RecordRaises(c)
  <2>1. place[c] = "record"
    BY <1>1, <1>12 DEF RecordRaises, SelectFails, CanonicalJsonRaises, At, CheckInv
  <2>2. QED  BY <1>1, <1>2, <1>12, <2>1 DEF RecordRaises, PromiseInv, G!Goto
<1>13. QED
  BY <1>3, <1>4, <1>5, <1>6, <1>7, <1>8, <1>9, <1>10, <1>11, <1>12 DEF Proceed, Ask

\* Every step keeps the promises.
LEMMA PromisesKept ==
  GovernedInv /\ PromisesInv /\ [CheckNext]_checkVars => PromisesInv'
<1> SUFFICES ASSUME GovernedInv, PromisesInv, [CheckNext]_checkVars PROVE PromisesInv'
  OBVIOUS
<1>1. ASSUME NEW c \in Threads, Proceed(c)
      PROVE  DOMAIN receipt' = Threads /\ \A u \in Threads : PromiseInv(u)'
  BY <1>1, BystandersKeep, ActorKeeps
<1>2. CASE ReadTable \/ UNCHANGED checkVars
  BY <1>2 DEF ReadTable, Read, checkVars, vars, gateVars, PromisesInv, PromiseInv, ReceiptInv
<1>3. CASE Stop
  <2>1. /\ place' = [c \in Threads |->
                      IF place[c] \in G!Ended \cup {"start"} THEN place[c] ELSE "stopped"]
        /\ UNCHANGED <<committed, evaluated, decision, receipt, executed>>
    BY <1>3 DEF Stop, Idle
  <2>2. QED  BY <2>1 DEF PromisesInv, PromiseInv, ReceiptInv, G!Ended
<1>4. ASSUME NEW c \in Threads, CommitRow(c)
      PROVE  \A s \in DOMAIN committed' :
               GateOf[committed'[s].decision.call] \in Redacting => committed'[s].decision.redacted
  <2> DEFINE n == call[c].sequence
  <2>1. /\ DOMAIN committed' = DOMAIN committed \cup {n}
        /\ committed'[n] = RecordOf(c)
        /\ \A s \in DOMAIN committed : committed'[s] = committed[s]
    BY <1>4, CommitAddsRow DEF CommitRow, GovernedInv, IsPrefix
  <2>2. place[c] = "record" /\ call[c].decision = decision[c] /\ decision[c].call = c
    BY <1>4 DEF CommitRow, Commit, At, GovernedInv, ChecksInv, CheckInv, Answers
  <2>3. RecordOf(c).decision = decision[c]
    BY <2>2 DEF RecordOf, NewRecord
  <2>4. GateOf[c] \in Redacting => decision[c].redacted
    BY <2>2 DEF PromisesInv, PromiseInv
  <2>5. QED  BY <2>1, <2>2, <2>3, <2>4 DEF PromisesInv
<1>5. ASSUME NEW c \in Threads, Proceed(c)
      PROVE  CommitRow(c) \/ committed' = committed
  BY <1>5, AskLeavesLedger
     DEF Proceed, vars, CallRecord, Record, Store, Acquire, GetLastHash, GetLastSequence,
         Insert, Recorded, Return, AppendFails, InsertViolates, InsertBusy, InsertFails,
         CommitFails, RecordRaises, SelectFails, CanonicalJsonRaises
<1>6. QED  BY <1>1, <1>2, <1>3, <1>4, <1>5 DEF CheckNext, PromisesInv

\* The promises hold in every state of every behaviour.
LEMMA PromisesStay == CheckSpec => []PromisesInv
<1>1. CheckInit => PromisesInv
  BY DEF CheckInit, Init, G!Init, EmptyTable, PromisesInv, PromiseInv
<1>2. QED  BY <1>1, PromisesKept, GovernedInvariant, PTL DEF CheckSpec

\* Behind any gate on any ledger object, a tool ran only if the engine said
\* allow, and nothing unredacted reaches the table or a receipt of a gate
\* that redacts (gate.py, check and _redact_decision).
THEOREM PermissionsAndRedactionHold ==
  CheckSpec => [](ExecutedWasAllowed /\ G!NothingSensitiveKept)
<1>1. GovernedInv /\ PromisesInv => ExecutedWasAllowed
  BY DEF ExecutedWasAllowed, G!ExecutedWasAllowed, GovernedInv, ChecksInv, PromisesInv, PromiseInv
<1>2. GovernedInv /\ PromisesInv => G!NothingSensitiveKept
  BY RecordsOfCall DEF G!NothingSensitiveKept, GovernedInv, PromisesInv, PromiseInv, ReceiptInv
<1>3. QED  BY <1>1, <1>2, PromisesStay, GovernedInvariant, PTL

\* Receipts verify, as they are and saved and loaded, whichever ledger object
\* recorded, when gates give its key and arguments survive JSON (receipt.py,
\* create_receipt and verify_receipt).
THEOREM CompetingReceiptsVerify ==
  ASSUME \A g \in Gates : G!GateKey(g) = LedgerKey, LedgerKey \in Keys, Rekeyed = {}
  PROVE  CheckSpec => []G!ReceiptVerifies
<1>1. ASSUME PromisesInv, NEW c \in Threads, receipt[c] # None
      PROVE  /\ G!VerifyReceipt(receipt[c], G!GateKey(GateOf[c]))
             /\ G!VerifyReceipt(G!SaveAndLoad(receipt[c]), NoKey)
  <2>1. PICK r : r = receipt[c].record
    OBVIOUS
  <2>2. GateOf[c] \in Gates /\ G!GateKey(GateOf[c]) = LedgerKey
    BY GovernedLedgerAssumption
  <2>3. /\ receipt[c] = G!CreateReceipt(r, LedgerKey)
        /\ r = NewRecord(r.decision, r.previous_hash, r.sequence, LedgerKey)
    BY <1>1, <2>1, <2>2 DEF PromisesInv, PromiseInv, ReceiptInv
  <2>4. G!VerifyReceipt(receipt[c], LedgerKey) /\ G!VerifyReceipt(receipt[c], NoKey)
    BY <2>3
       DEF G!VerifyReceipt, G!CreateReceipt, NewRecord, Signable, ComputeHash, Sign,
           G!Signable, G!ComputeHash, G!Sign
  <2>5. G!SaveAndLoad(receipt[c]) = receipt[c]
    <3>1. G!SaveAndLoad(receipt[c]) = G!CreateReceipt([r EXCEPT !.decision = r.decision], LedgerKey)
      BY <2>3 DEF G!SaveAndLoad, G!CreateReceipt, G!Loaded
    <3>2. [r EXCEPT !.decision = r.decision] = r
      BY <2>3 DEF NewRecord
    <3>3. QED  BY <2>3, <3>1, <3>2
  <2>6. QED  BY <2>2, <2>4, <2>5
<1>2. PromisesInv => G!ReceiptVerifies
  BY <1>1 DEF G!ReceiptVerifies
<1>3. QED  BY <1>2, PromisesStay, PTL

-----------------------------------------------------------------------------
(***************************************************************************)
(* Gates on one ledger object implement Gate.                              *)
(***************************************************************************)

\* A stop leaves no call that has read anything.
LEMMA StopChains ==
  ASSUME ChainInv, Stop
  PROVE  ChainInv'
<1>1. /\ committed' = committed
      /\ \A l \in Ledgers : txn'[l] = "none"
      /\ \A t \in Threads : pc'[t] = "idle"
  BY DEF Stop
<1>2. QED  BY <1>1 DEF ChainInv

\* The chain stays one through every step of the composition.
LEMMA CheckChains ==
  ASSUME OneObject, GovernedInv, ChainInv, [CheckNext]_checkVars
  PROVE  ChainInv'
<1>1. [Next]_vars \/ Stop
  BY LedgerSteps DEF GovernedInv
<1>2. QED  BY <1>1, StepChains, StopChains DEF GovernedInv

\* Committing the row is Gate's commit: the row is chained to the last one.
LEMMA CommitRowCommits ==
  ASSUME OneObject, GovernedInv, ChainInv, NEW c \in Threads, CommitRow(c)
  PROVE  G!Commit(c)
<1>1. Commit(c) /\ pc[c] = "commit"
  BY DEF CommitRow, Commit, At
<1>2. place[c] = "record" /\ call[c].decision = decision[c]
  BY <1>1 DEF GovernedInv, ChecksInv, CheckInv
<1>3. KeyOf[LedgerOf[c]] = LedgerKey
  BY GovernedLedgerAssumption, LedgerAssumption
<1>4. Abstract!Extend(decision[c], LedgerKey)
  <2>1. Abstract!Extend(call[c].decision, KeyOf[LedgerOf[c]])
    BY <1>1, CommitExtends DEF GovernedInv
  <2>2. QED  BY <1>2, <1>3, <2>1
<1>5. G!Audit!Extend(decision[c], LedgerKey)
  BY <1>4
     DEF Abstract!Extend, Abstract!Tip, Abstract!NewRecord, Abstract!Signable,
         Abstract!ComputeHash, Abstract!Sign,
         G!Audit!Extend, G!Audit!Tip, G!Audit!NewRecord, G!Audit!Signable,
         G!Audit!ComputeHash, G!Audit!Sign
<1>6. QED  BY <1>2, <1>5 DEF CommitRow, G!Commit, G!At

\* record returns a record of the log, of which check makes the receipt.
LEMMA RecordedReturns ==
  ASSUME GovernedInv, NEW c \in Threads, Recorded(c)
  PROVE  G!Recorded(c)
<1>1. PICK i : i = call[c].sequence
  OBVIOUS
<1>2. Return(c) /\ pc[c] = "return"
  BY DEF Recorded, Return, At
<1>3. place[c] = "committed" /\ call[c].decision = decision[c]
  BY <1>2 DEF GovernedInv, ChecksInv, CheckInv
<1>4. i \in DOMAIN committed /\ committed[i] = RecordOf(c)
  BY <1>1, <1>2 DEF GovernedInv, IInv, CallsInv, CallInv, At
<1>5. i \in 1 .. Len(committed)
  <2>1. PICK n \in Nat : Numbered(committed, n)
    BY DEF GovernedInv, IInv, TablesInv, IsTable
  <2>2. DOMAIN committed = 1 .. n /\ Len(committed) = n
    BY <2>1, ChainedIsSeq DEF Numbered
  <2>3. QED  BY <1>4, <2>2
<1>6. committed[i].decision = decision[c]
  BY <1>3, <1>4 DEF RecordOf, NewRecord
<1>7. G!Audit!Return(i)
  BY <1>2, <1>4 DEF Return, G!Audit!Return
<1>8. QED  BY <1>3, <1>4, <1>5, <1>6, <1>7 DEF Recorded, G!Recorded, G!At

\* Each step of the composition is one of Gate's, or none.
LEMMA GateSteps ==
  ASSUME OneObject, GovernedInv, ChainInv, [CheckNext]_checkVars
  PROVE  [G!Next]_(G!vars)
<1>1. ASSUME NEW c \in Threads, Proceed(c)
      PROVE  G!Proceed(c) \/ UNCHANGED G!vars
  <2>1. CASE Ask(c)
    BY <2>1 DEF Ask, G!Proceed
  <2>2. CASE CallRecord(c) \/ Store(c)
    BY <2>2 DEF CallRecord, Store, Record, Acquire, GetLastHash, GetLastSequence, Insert,
         gateVars, G!vars
  <2>3. CASE CommitRow(c)
    BY <2>3, CommitRowCommits DEF G!Proceed
  <2>4. CASE Recorded(c)
    BY <2>4, RecordedReturns DEF G!Proceed
  <2>5. ASSUME pc[c] \in {"hash", "sequence", "append", "commit"} PROVE G!At(c, "record")
    BY <2>5 DEF GovernedInv, ChecksInv, CheckInv, G!At
  <2>6. CASE AppendFails(c)
    <3>1. G!At(c, "record") /\ UNCHANGED <<committed, returned>>
      BY <2>5, <2>6 DEF AppendFails, InsertViolates, InsertBusy, InsertFails, CommitFails,
           Insertable, At
    <3>2. G!RecordFails(c)
      BY <2>6, <3>1 DEF AppendFails, G!RecordFails
    <3>3. QED  BY <3>2 DEF G!Proceed
  <2>7. CASE RecordRaises(c)
    <3>1. G!At(c, "record") /\ UNCHANGED <<committed, returned>>
      BY <2>5, <2>7 DEF RecordRaises, SelectFails, CanonicalJsonRaises, At
    <3>2. G!RecordRaises(c)
      BY <2>7, <3>1 DEF RecordRaises, G!RecordRaises, G!local
    <3>3. QED  BY <3>2 DEF G!Proceed
  <2>8. QED  BY <1>1, <2>1, <2>2, <2>3, <2>4, <2>6, <2>7 DEF Proceed
<1>2. CASE ReadTable
  BY <1>2 DEF ReadTable, Read, gateVars, G!vars
<1>3. CASE Stop
  <2>1. /\ place' = [c \in Threads |->
                      IF place[c] \in G!Ended \cup {"start"} THEN place[c] ELSE "stopped"]
        /\ UNCHANGED <<committed, returned, evaluated, decision, record, receipt, executed>>
    BY <1>3 DEF Stop, Idle
  <2>2. CASE \E c \in Threads : place[c] \notin G!Ended \cup {"start"}
    BY <2>1, <2>2 DEF G!Next, G!Stop, G!local
  <2>3. CASE \A c \in Threads : place[c] \in G!Ended \cup {"start"}
    <3>1. place' = place
      BY <2>1, <2>3 DEF GovernedInv, ChecksInv
    <3>2. QED  BY <2>1, <3>1 DEF G!vars
  <2>4. QED  BY <2>2, <2>3
<1>4. CASE UNCHANGED checkVars
  BY <1>4 DEF checkVars, vars, gateVars, G!vars
<1>5. QED  BY <1>1, <1>2, <1>3, <1>4 DEF CheckNext, G!Next

\* Gates that share one ledger object implement Gate, for any calls, faults
\* and stops: what is proved of Gate holds of them.
THEOREM GatesOnOneObjectImplementGate ==
  ASSUME OneObject
  PROVE  CheckSpec => ImplementsGate
<1>1. CheckInit => G!Init
  <2>1. Init => G!Audit!Init
    BY DEF Init, G!Audit!Init, EmptyTable
  <2>2. QED  BY <2>1 DEF CheckInit, G!Init
<1>2. CheckInit => ChainInv
  BY InitChains DEF CheckInit
<1>3. GovernedInv /\ ChainInv /\ [CheckNext]_checkVars => ChainInv'
  BY CheckChains
<1>4. GovernedInv /\ ChainInv /\ [CheckNext]_checkVars => [G!Next]_(G!vars)
  BY GateSteps
<1>5. QED
  BY <1>1, <1>2, <1>3, <1>4, GovernedInvariant, PTL DEF CheckSpec, ImplementsGate, G!Spec

=============================================================================
