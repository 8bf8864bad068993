----------------------------- MODULE MCArguments -----------------------------
(***************************************************************************)
(* Instances of Arguments for TLC: a tool on a strict gate with objects of *)
(* its own; a tool on a lenient, redacting gate; and a call of check on a  *)
(* strict, redacting gate with a dictionary that other threads have, too.  *)
(* The last two share a nested object, which the tool changes.             *)
(***************************************************************************)
EXTENDS Arguments, TLC

CONSTANTS c1, c2, c3, kwargs1, kwargs2, dict, own, nested, v1, v2

Tops == c1 :> kwargs1 @@ c2 :> kwargs2 @@ c3 :> dict

Nesteds == c1 :> own @@ c2 :> nested @@ c3 :> nested

\* The kwargs of the two tools differ; the other objects may change before
\* anybody reads them.
First ==
  {h \in [Objects -> Values] :
     /\ h[kwargs1] # h[kwargs2]
     /\ \A o \in {own, dict, nested} : h[o] = h[kwargs1]}

Symmetry == Permutations({v1, v2})

=============================================================================
