------------------------------ MODULE MCHandler ------------------------------
(***************************************************************************)
(* Instances of Handler for TLC on the gates of MCGate: a raising handler  *)
(* with two tool runs on the strict gate, and a handler that does not raise*)
(* with one on the lenient gate.                                           *)
(***************************************************************************)
EXTENDS Handler, MCGate

CONSTANTS raising, quiet

Handling == c1 :> raising @@ c2 :> raising @@ c3 :> quiet

=============================================================================
