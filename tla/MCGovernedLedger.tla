-------------------------- MODULE MCGovernedLedger --------------------------
(***************************************************************************)
(* Instances of GovernedLedger for TLC: a strict, redacting gate and a     *)
(* lenient one, on one ledger object or on one each, with a third call     *)
(* that shares the strict gate and its ledger object.                      *)
(***************************************************************************)
EXTENDS GovernedLedger, TLC

CONSTANTS c1, c2, c3, strict, lenient, l1, l2, k1, k2

BothGates == c1 :> strict @@ c2 :> lenient
ThreeCalls == BothGates @@ c3 :> strict

OneLedger == [g \in {strict, lenient} |-> l1]
TwoLedgers == strict :> l1 @@ lenient :> l2

\* What the calls record, and on which ledger object.
GateDecisions == G!AllDecisions
NotJsonDecisions == {d \in GateDecisions : d.call \in NotJson}
LedgerOfCall == [c \in Threads |-> LedgerOfGate[GateOf[c]]]
OneKey == [l \in Ledgers |-> k1]

SharedKey == [g \in {strict, lenient} |-> k1]
SharedPublic == strict :> NoKey @@ lenient :> k1
OwnKeys == [g \in {strict, lenient} |-> k2]

=============================================================================
