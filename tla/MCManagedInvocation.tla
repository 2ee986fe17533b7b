------------------------ MODULE MCManagedInvocation -------------------------
(* An instance of ManagedInvocation: a function with two fast calls and      *)
(* patch cells, one with a fast call and assumptions, one with cells only,   *)
(* and two targets of one signature.                                         *)
EXTENDS ManagedInvocation, TLC

CONSTANTS outer, inner, counter, leaf, other

MCFastCalls ==
  (outer :> <<"word", "word">>) @@ (inner :> <<"word">>) @@ (counter :> <<>>) @@ (leaf :> <<>>) @@ (other :> <<>>)
MCSignature ==
  (outer :> "pair") @@ (inner :> "word") @@ (counter :> "word") @@ (leaf :> "word") @@ (other :> "word")

\* Both targets have the same signature, and binders are alike.
MCSymmetry == Permutations(Target) \cup Permutations(Binder)
=============================================================================
