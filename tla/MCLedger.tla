------------------------------ MODULE MCLedger ------------------------------
(***************************************************************************)
(* Instances of Ledger for TLC: two threads on one ledger object, and two  *)
(* ledger objects, each with its own connection, on one database file.     *)
(***************************************************************************)
EXTENDS Ledger, TLC

CONSTANTS l1, l2, t1, t2, k1, d1, d2, d3

OneLedger  == [t \in {t1, t2} |-> l1]
TwoLedgers == t1 :> l1 @@ t2 :> l2

OneKey  == l1 :> k1
SameKey == [l \in {l1, l2} |-> k1]

=============================================================================
