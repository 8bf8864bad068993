------------------------------- MODULE MCGate -------------------------------
(***************************************************************************)
(* Instances of Gate for TLC: a strict, redacting gate with two calls of   *)
(* GovernedTool, and a lenient one with a call of check, on one ledger     *)
(* object.                                                                 *)
(***************************************************************************)
EXTENDS Gate, TLC

CONSTANTS c1, c2, c3, strict, lenient, k1, k2, k3

CallsToGates == c1 :> strict @@ c2 :> strict @@ c3 :> lenient

\* Both gates are given the key that the ledger signs with.
SharedKey == [g \in {strict, lenient} |-> k1]

\* One of them is given the public key too.
SharedPublic == strict :> NoKey @@ lenient :> k1

OwnKeys == strict :> k2 @@ lenient :> k3

=============================================================================
