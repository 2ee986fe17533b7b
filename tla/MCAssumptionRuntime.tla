------------------------ MODULE MCAssumptionRuntime -------------------------
(* A small instance of AssumptionRuntime: functions with both tokens, with  *)
(* one, and with none.                                                      *)
EXTENDS AssumptionRuntime, TLC

CONSTANTS tok1, tok2, both, one, plain

MCDependencies == (both :> <<tok1, tok2>>) @@ (one :> <<tok2>>) @@ (plain :> <<>>)
=============================================================================
