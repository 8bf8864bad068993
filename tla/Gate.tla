-------------------------------- MODULE Gate --------------------------------
(***************************************************************************)
(* PolicyGate.check, check_or_raise and GovernedTool (gate.py, wrapper.py):*)
(* calls that ask a gate about an action, gates that share a ledger object *)
(* and differ in strictness, redaction, receipts and keys.                 *)
(*                                                                         *)
(* The ledger is the abstract AuditLog, which Ledger implements for one    *)
(* ledger object; the ways in which record fails are Ledger's: LedgerError *)
(* with no row kept, any other exception with no row kept, and a process   *)
(* that stops between the commit and the return.  The policy engine is     *)
(* pluggable: evaluate may give any verdict or raise.                      *)
(***************************************************************************)
EXTENDS Receipts, Sequences

CONSTANTS
  Calls,        \* calls of check, one for each request and decision id
  ToolCalls,    \* those made by GovernedTool.__call__, which runs the tool
  Gates,        \* PolicyGate objects
  GateOf,       \* the gate a call goes to
  Strict,       \* gates with strict=True
  Redacting,    \* gates with redact_keys
  Emitting,     \* gates with emit_receipts=True
  Keys,
  LedgerKey,    \* the private key of the shared ledger
  GivenKey,     \* the private_key argument of a gate, NoKey when omitted
  GivenPublic,  \* its public_key argument, NoKey when omitted
  GeneratedKey, \* the key that generate_keypair makes for a gate
  None

ASSUME GateAssumption ==
  /\ GateOf \in [Calls -> Gates]
  /\ ToolCalls \subseteq Calls
  /\ Strict \subseteq Gates
  /\ Keys # {} /\ NoKey \notin Keys
  /\ LedgerKey \in Keys
  /\ GivenKey \in [Gates -> Keys \cup {NoKey}]
  /\ GivenPublic \in [Gates -> Keys \cup {NoKey}]
  /\ GeneratedKey \in [Gates -> Keys]

VARIABLES
  log,         \* the ledger: records, oldest first
  returned,    \* records that the ledger returned to check
  pc,          \* where a call stands
  evaluated,   \* what the policy engine answered to a call
  decision,    \* the local variables of check: decision,
  record,      \*   record,
  receipt,     \*   receipt
  executed     \* tool calls whose function was run

vars == <<log, returned, pc, evaluated, decision, record, receipt, executed>>
local == <<evaluated, decision, record, receipt>>

Verdicts == {"allow", "deny", "escalate", "error"}

\* evaluate raises PolicyEvaluationError, or another exception:
\* InvalidPolicyError, or whatever a custom engine raises.
Outcomes == Verdicts \cup {"raises", "other"}

Labels == {"start", "record", "committed", "enforce", "run",
           "done", "refused", "raised", "stopped"}

Ended == {"done", "refused", "raised", "stopped"}

Decision(call, verdict, redacted) ==
  [call |-> call, verdict |-> verdict, redacted |-> redacted]

AllDecisions ==
  {Decision(c, v, r) : c \in Calls, v \in Verdicts, r \in BOOLEAN}

ASSUME NoneAssumption == None \notin AllDecisions

Audit == INSTANCE AuditLog WITH Decisions <- AllDecisions

IsStrict(c) == GateOf[c] \in Strict

Denied(c) == decision[c].verdict \in {"deny", "error"}

\* Mutation: the key pair of generate_keypair, whatever key was given.
GateKeyGenerated(g) == GeneratedKey[g]

\* PolicyGate.__init__: the public key a gate puts in its receipts.  A public
\* key that is given without a private one is dropped.
GateKey(g) ==
  CASE GivenKey[g] = NoKey                            -> GeneratedKey[g]
    [] GivenKey[g] # NoKey /\ GivenPublic[g] # NoKey  -> GivenPublic[g]
    [] GivenKey[g] # NoKey /\ GivenPublic[g] = NoKey  -> GivenKey[g]

-----------------------------------------------------------------------------

Init ==
  /\ Audit!Init
  /\ pc = [c \in Calls |-> "start"]
  /\ evaluated = [c \in Calls |-> None]
  /\ decision = [c \in Calls |-> None]
  /\ record = [c \in Calls |-> None]
  /\ receipt = [c \in Calls |-> None]
  /\ executed = {}

At(c, label) == pc[c] = label

Goto(c, label) == pc' = [pc EXCEPT ![c] = label]

\* check returns to its caller; check_or_raise goes on to look at the verdict.
Finish(c) == Goto(c, IF c \in ToolCalls THEN "enforce" ELSE "done")

\* The decision on its way to the ledger, redacted first if the gate redacts.
Decide(c, verdict) ==
  /\ decision' = [decision EXCEPT ![c] = Decision(c, verdict, GateOf[c] \in Redacting)]
  /\ Goto(c, "record")

-----------------------------------------------------------------------------

Evaluate(c, verdict) ==
  /\ At(c, "start")
  /\ evaluated' = [evaluated EXCEPT ![c] = verdict]
  /\ Decide(c, verdict)
  /\ UNCHANGED <<log, returned, record, receipt, executed>>

\* PolicyEvaluationError in a strict gate: an ERROR decision, recorded.
EvaluateFailsClosed(c) ==
  /\ At(c, "start")
  /\ IsStrict(c)
  /\ evaluated' = [evaluated EXCEPT ![c] = "raises"]
  /\ Decide(c, "error")
  /\ UNCHANGED <<log, returned, record, receipt, executed>>

\* Mutation: the exception is not raised on.
EvaluateRaisesNothing(c) ==
  /\ At(c, "start")
  /\ evaluated' = [evaluated EXCEPT ![c] = "raises"]
  /\ Goto(c, "record")
  /\ UNCHANGED <<log, returned, decision, record, receipt, executed>>

\* Another exception in any gate, PolicyEvaluationError in a lenient one.
EvaluateRaises(c) ==
  /\ At(c, "start")
  /\ \E outcome \in {"other"} \cup (IF IsStrict(c) THEN {} ELSE {"raises"}) :
       evaluated' = [evaluated EXCEPT ![c] = outcome]
  /\ Goto(c, "raised")
  /\ UNCHANGED <<log, returned, decision, record, receipt, executed>>

\* The row of the decision is committed; record has not returned yet.
Commit(c) ==
  /\ At(c, "record")
  /\ Audit!Extend(decision[c], LedgerKey)
  /\ Goto(c, "committed")
  /\ UNCHANGED <<evaluated, decision, record, receipt, executed>>

\* Mutation: the receipt is made of the ledger's last record.
RecordedLast(c) ==
  /\ At(c, "committed")
  /\ Audit!Return(Len(log))
  /\ record' = [record EXCEPT ![c] = log[Len(log)]]
  /\ receipt' = [receipt EXCEPT ![c] =
       IF GateOf[c] \in Emitting
       THEN CreateReceipt(log[Len(log)], GateKey(GateOf[c])) ELSE None]
  /\ Finish(c)
  /\ UNCHANGED <<evaluated, decision, executed>>

\* record returns the row's record, and check makes the receipt.
Recorded(c) ==
  /\ At(c, "committed")
  /\ \E i \in 1 .. Len(log) :
       /\ log[i].decision = decision[c]
       /\ Audit!Return(i)
       /\ record' = [record EXCEPT ![c] = log[i]]
       /\ receipt' = [receipt EXCEPT ![c] =
            IF GateOf[c] \in Emitting
            THEN CreateReceipt(log[i], GateKey(GateOf[c])) ELSE None]
  /\ Finish(c)
  /\ UNCHANGED <<evaluated, decision, executed>>

\* Mutation: a strict gate goes on without a record, as a lenient one.
RecordFailsOpen(c) ==
  /\ At(c, "record")
  /\ Finish(c)
  /\ UNCHANGED <<log, returned, local, executed>>

\* Mutation: the ERROR decision is recorded in place of the first one.
RecordFailsAgain(c) ==
  /\ At(c, "record")
  /\ IsStrict(c)
  /\ decision' = [decision EXCEPT ![c] = Decision(c, "error", FALSE)]
  /\ UNCHANGED <<log, returned, pc, evaluated, record, receipt, executed>>

\* LedgerError: a strict gate replaces the decision by an ERROR decision,
\* made of the unredacted request and recorded nowhere; a lenient one goes
\* on without a record.
RecordFails(c) ==
  /\ At(c, "record")
  /\ decision' = [decision EXCEPT ![c] =
       IF IsStrict(c) THEN Decision(c, "error", FALSE) ELSE @]
  /\ Finish(c)
  /\ UNCHANGED <<log, returned, evaluated, record, receipt, executed>>

\* Any other exception of record leaves check: canonical_json on values that
\* are not JSON, sqlite3 errors of the two SELECTs.
RecordRaises(c) ==
  /\ At(c, "record")
  /\ Goto(c, "raised")
  /\ UNCHANGED <<log, returned, local, executed>>

\* check_or_raise raises PolicyDeniedError or PolicyEscalationError.
Refuse(c) ==
  /\ At(c, "enforce")
  /\ Denied(c) \/ decision[c].verdict = "escalate"
  /\ Goto(c, "refused")
  /\ UNCHANGED <<log, returned, local, executed>>

\* Mutation: whatever is not denied passes.
PassUnlessDenied(c) ==
  /\ At(c, "enforce")
  /\ ~ Denied(c)
  /\ Goto(c, "run")
  /\ UNCHANGED <<log, returned, local, executed>>

Pass(c) ==
  /\ At(c, "enforce")
  /\ ~ Denied(c)
  /\ decision[c].verdict # "escalate"
  /\ Goto(c, "run")
  /\ UNCHANGED <<log, returned, local, executed>>

\* GovernedTool runs its function.
Run(c) ==
  /\ At(c, "run")
  /\ executed' = executed \cup {c}
  /\ Goto(c, "done")
  /\ UNCHANGED <<log, returned, local>>

\* The process stops with every call that is under way.
Stop ==
  /\ \E c \in Calls : pc[c] \notin Ended \cup {"start"}
  /\ pc' = [c \in Calls |-> IF pc[c] \in Ended \cup {"start"} THEN pc[c] ELSE "stopped"]
  /\ UNCHANGED <<log, returned, local, executed>>

-----------------------------------------------------------------------------

Proceed(c) ==
  \/ \E verdict \in Verdicts : Evaluate(c, verdict)
  \/ EvaluateFailsClosed(c)
  \/ EvaluateRaises(c)
  \/ Commit(c)
  \/ Recorded(c)
  \/ RecordFails(c)
  \/ RecordRaises(c)
  \/ Refuse(c)
  \/ Pass(c)
  \/ Run(c)

\* Calls end for good; new ones are other elements of Calls.
Done == \A c \in Calls : pc[c] \in Ended

Next ==
  \/ \E c \in Calls : Proceed(c)
  \/ Stop
  \/ Done /\ UNCHANGED vars

Spec == Init /\ [][Next]_vars

-----------------------------------------------------------------------------
(***************************************************************************)
(* Properties.                                                             *)
(***************************************************************************)

RecordsOf(c) == {i \in 1 .. Len(log) : log[i].decision.call = c}

\* Every variable has the values the code gives it, and a call has at most
\* the locals its place in check has assigned.
TypeOK ==
  /\ \A i \in 1 .. Len(log) :
       log[i] = NewRecord(log[i].decision, log[i].previous_hash, i, LedgerKey)
  /\ pc \in [Calls -> Labels]
  /\ evaluated \in [Calls -> Outcomes \cup {None}]
  /\ decision \in [Calls -> AllDecisions \cup {None}]
  /\ \A c \in Calls :
       /\ At(c, "start") => decision[c] = None
       /\ pc[c] \in {"record", "committed", "enforce", "run", "done"} => decision[c] # None
       /\ record[c] # None => pc[c] \in {"enforce", "run"} \cup Ended
  /\ executed \subseteq ToolCalls

\* A tool that ran behind a strict gate has an allow decision for that very
\* call in the ledger, whatever failed, stopped or ran at the same time
\* (gate.py, check; errors.py, LedgerError).
ExecutedIsRecorded ==
  \A c \in executed : IsStrict(c) =>
    \E i \in RecordsOf(c) : log[i].decision.verdict = "allow"

\* Behind any gate, a tool ran only if the policy engine itself said allow:
\* no failure path turns another answer into a permission (gate.py, check).
ExecutedWasAllowed == \A c \in executed : evaluated[c] = "allow"

\* What a strict gate's check gives its caller is either a denial or the
\* decision of the record that comes with it, a record of the ledger
\* (gate.py, check: "fail-closed").
ResultIsRecordedOrDenied ==
  \A c \in Calls : IsStrict(c) /\ pc[c] \in {"enforce", "run", "done"} =>
    \/ record[c] = None /\ Denied(c)
    \/ /\ record[c] \in returned /\ record[c].decision = decision[c]
       /\ \E i \in RecordsOf(c) : log[i] = record[c]

\* The ledger holds at most one decision for a call, and says of it what the
\* policy engine answered; only an evaluation error is recorded as "error" in
\* its place (gate.py, check; types.py, Decision).
RecordedIsEvaluated ==
  \A c \in Calls :
    /\ Cardinality(RecordsOf(c)) <= 1
    /\ \A i \in RecordsOf(c) :
         \/ log[i].decision.verdict = evaluated[c]
         \/ log[i].decision.verdict = "error" /\ evaluated[c] = "raises"

\* A redacting gate's sensitive values never reach the ledger or a receipt,
\* not even through the decisions made on the failure paths (gate.py,
\* _redact_decision).
NothingSensitiveKept ==
  \A c \in Calls : GateOf[c] \in Redacting =>
    /\ \A i \in RecordsOf(c) : log[i].decision.redacted
    /\ receipt[c] # None => receipt[c].record.decision.redacted

\* Every receipt that check hands out verifies, as it is and after it was
\* saved and loaded, against the gate's own public key (receipt.py,
\* create_receipt and verify_receipt; gate.py, public_key).
ReceiptVerifies ==
  \A c \in Calls : receipt[c] # None =>
    /\ VerifyReceipt(receipt[c], GateKey(GateOf[c]))
    /\ VerifyReceipt(SaveAndLoad(receipt[c]), NoKey)

\* A started call ends: it returns, is refused, raises or stops with its
\* process (gate.py, check; wrapper.py, __call__).
EveryCallEnds == \A c \in Calls : ~ At(c, "start") ~> pc[c] \in Ended

\* "Any governance infrastructure failure - policy evaluation error, ledger
\* write failure, signing failure - results in the action being denied":
\* once the policy has answered, a strict gate's check gives a decision and
\* raises nothing (README.md, Failure Model).
FailureIsDenial ==
  \A c \in Calls : IsStrict(c) /\ evaluated[c] \in Verdicts => ~ At(c, "raised")

=============================================================================
