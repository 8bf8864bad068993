--------------------------- MODULE GovernedLedger ---------------------------
(***************************************************************************)
(* Gates over the ledger objects themselves: PolicyGate.check with         *)
(* DecisionLedger.record inside it, step by step (gate.py, ledger.py).     *)
(*                                                                         *)
(* The threads of Ledger are here the calls of check, one decision each;   *)
(* place is where a call stands in check, pc where it stands in record.    *)
(* What Gate assumes of record is what Ledger does: which of its failures  *)
(* become LedgerError and which pass as they are, and what the process     *)
(* leaves behind when it stops in the middle.                              *)
(***************************************************************************)
EXTENDS Ledger

CONSTANTS
  ToolCalls, Gates, GateOf, Strict, Redacting, Emitting,
  LedgerKey, GivenKey, GivenPublic, GeneratedKey,
  LedgerOfGate, \* the ledger object of a gate, with LedgerKey as all of them
  NotJson       \* calls whose arguments canonical_json raises on

VARIABLES place, evaluated, decision, record, receipt, executed \* Gate's

G == INSTANCE Gate WITH Calls <- Threads, log <- committed, pc <- place

gateVars == <<place, evaluated, decision, record, receipt, executed>>
checkVars == <<vars, gateVars>>

ASSUME GovernedLedgerAssumption ==
  /\ GateOf \in [Threads -> Gates]
  /\ ToolCalls \subseteq Threads
  /\ LedgerOfGate \in [Gates -> Ledgers]
  /\ LedgerOf = [c \in Threads |-> LedgerOfGate[GateOf[c]]]
  /\ KeyOf = [l \in Ledgers |-> LedgerKey]
  /\ NoKey \notin Keys
  /\ NotJson \subseteq Threads
  /\ Decisions = G!AllDecisions
  /\ Unserializable = {d \in Decisions : d.call \in NotJson}

-----------------------------------------------------------------------------

CheckInit == Init /\ G!Init

\* What check does outside of record.
Ask(c) ==
  /\ \/ \E verdict \in G!Verdicts : G!Evaluate(c, verdict)
     \/ G!EvaluateFailsClosed(c)
     \/ G!EvaluateRaises(c)
     \/ G!Refuse(c)
     \/ G!Pass(c)
     \/ G!Run(c)
  /\ UNCHANGED <<txn, view, lock, pc, call, lost>>

CallRecord(c) ==
  /\ G!At(c, "record")
  /\ Record(c, decision[c])
  /\ UNCHANGED gateVars

Store(c) ==
  /\ \/ Acquire(c)
     \/ GetLastHash(c)
     \/ GetLastSequence(c)
     \/ Insert(c)
  /\ UNCHANGED gateVars

CommitRow(c) ==
  /\ Commit(c)
  /\ G!Goto(c, "committed")
  /\ UNCHANGED <<evaluated, decision, record, receipt, executed>>

\* Mutation: the record is read back from the end of the table.
RecordedTip(c) ==
  /\ Return(c)
  /\ record' = [record EXCEPT ![c] = committed[Len(committed)]]
  /\ receipt' = [receipt EXCEPT ![c] =
       IF GateOf[c] \in Emitting
       THEN G!CreateReceipt(committed[Len(committed)], G!GateKey(GateOf[c])) ELSE None]
  /\ G!Finish(c)
  /\ UNCHANGED <<evaluated, decision, executed>>

\* record returns: check makes the receipt and goes on.
Recorded(c) ==
  /\ Return(c)
  /\ record' = [record EXCEPT ![c] = RecordOf(c)]
  /\ receipt' = [receipt EXCEPT ![c] =
       IF GateOf[c] \in Emitting
       THEN G!CreateReceipt(RecordOf(c), G!GateKey(GateOf[c])) ELSE None]
  /\ G!Finish(c)
  /\ UNCHANGED <<evaluated, decision, executed>>

\* Mutation: the exceptions of append are not raised on as LedgerError.
AppendRaises(c) ==
  /\ InsertViolates(c) \/ InsertBusy(c) \/ InsertFails(c) \/ CommitFails(c)
  /\ G!Finish(c)
  /\ UNCHANGED <<evaluated, decision, record, receipt, executed>>

\* Whatever append raises is a LedgerError, which check catches.
AppendFails(c) ==
  /\ InsertViolates(c) \/ InsertBusy(c) \/ InsertFails(c) \/ CommitFails(c)
  /\ decision' = [decision EXCEPT ![c] =
       IF G!IsStrict(c) THEN G!Decision(c, "error", FALSE) ELSE @]
  /\ G!Finish(c)
  /\ UNCHANGED <<evaluated, record, receipt, executed>>

\* Exceptions of the SELECTs and of canonical_json leave check.
RecordRaises(c) ==
  /\ SelectFails(c) \/ CanonicalJsonRaises(c)
  /\ G!Goto(c, "raised")
  /\ UNCHANGED <<evaluated, decision, record, receipt, executed>>

\* verify_ledger or count, by anybody at any time.
ReadTable ==
  /\ \E l \in Ledgers : Read(l)
  /\ UNCHANGED gateVars

Idle == {c \in Threads : place[c] \in G!Ended \cup {"start"}}

\* The process stops, with all its gates and ledger objects: the transactions
\* that were open are gone, the rows that were committed are not.
Stop ==
  /\ Idle # Threads \/ \E l \in Ledgers : txn[l] # "none"
  /\ place' = [c \in Threads |-> IF c \in Idle THEN place[c] ELSE "stopped"]
  /\ txn' = [l \in Ledgers |-> "none"]
  /\ view' = [l \in Ledgers |-> EmptyTable]
  /\ lock' = [l \in Ledgers |-> None]
  /\ pc' = [c \in Threads |-> "idle"]
  /\ call' = [c \in Threads |-> NoCall]
  /\ lost' = lost \cup {RecordOf(c) : c \in {d \in Threads : At(d, "return")}}
  /\ UNCHANGED <<committed, returned, evaluated, decision, record, receipt, executed>>

-----------------------------------------------------------------------------

Proceed(c) ==
  \/ Ask(c) \/ CallRecord(c) \/ Store(c) \/ CommitRow(c) \/ Recorded(c)
  \/ AppendFails(c) \/ RecordRaises(c)

CheckNext ==
  \/ \E c \in Threads : Proceed(c)
  \/ ReadTable
  \/ Stop
  \/ G!Done /\ UNCHANGED checkVars

CheckSpec == CheckInit /\ [][CheckNext]_checkVars

\* A call that was started runs on; nobody has to start one, nor stop.
CheckFairSpec ==
  CheckSpec /\ \A c \in Threads : WF_checkVars(~ G!At(c, "start") /\ Proceed(c))

-----------------------------------------------------------------------------
(***************************************************************************)
(* Properties.                                                             *)
(***************************************************************************)

\* Gates that share one ledger object implement Gate: the ways in which
\* Gate lets record end are all the ways it ends, in every interleaving of
\* SQL statements, failures and stops (gate.py, check; ledger.py, record).
ImplementsGate == G!Spec

\* The tools that ran behind a strict gate have their allow decision in the
\* table, even when gates on several ledger objects compete for it and fork
\* its chain (gate.py, check).
ExecutedIsRecorded == G!ExecutedIsRecorded

\* A strict result is a denial or a stored record, whichever ledger object
\* stored it and whatever became of the others' rows (gate.py, check).
ResultIsRecordedOrDenied == G!ResultIsRecordedOrDenied

\* Behind any gate, a tool ran only if the policy engine itself said allow,
\* also when a lenient gate goes on without a record (gate.py, check).
ExecutedWasAllowed == G!ExecutedWasAllowed

\* Every row is the record that its call holds or is about to be given, or the
\* process stopped before it could be.  A call whose recording failed holds
\* none: no row of it is committed later, inside the transaction that it left
\* open, by the call of another (ledger.py, append).
RowsAreHeld ==
  \A s \in DOMAIN committed :
    LET row == committed[s]
        c   == row.decision.call
    IN  \/ G!At(c, "committed") /\ RecordOf(c) = row
        \/ record[c] = row
        \/ row \in lost

\* A call that was started ends - it returns, is refused, raises or stops with
\* the process - though it waits for the lock of a ledger object while others
\* fail in every place where they hold it (gate.py, check; ledger.py, `with
\* self._lock`).
EveryCallEnds == G!EveryCallEnds

=============================================================================
