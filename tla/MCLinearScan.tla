---------------------------- MODULE MCLinearScan ----------------------------
(***************************************************************************)
(* LinearScan for every function of Size nodes with at most two operands   *)
(* per node, at most one call, exit or atomic access, and the first or the *)
(* last value returned.                                                    *)
(***************************************************************************)
EXTENDS LinearScan

CONSTANTS Size, Types

Node == 0..Size-1

Operands(i) == {s \in SUBSET (0..i-1) : Cardinality(s) <= 2}
MCUses == {f \in [Node -> SUBSET (0..Size-2)] : \A i \in Node : f[i] \in Operands(i)}

MCEffects ==
  {[i \in Node |-> "none"]}
  \cup {[i \in Node |-> IF i = n THEN e ELSE "none"] : n \in Node, e \in {"call", "exit", "atomic"}}

MCProgram ==
  {p \in [size : {Size}, type : [Node -> Types], effect : MCEffects, uses : MCUses,
          return_value : {0, Size-1}, vector_mode : {"kSharedWithFloat64", "kStackOnly"}] :
     IsProgram(p)}

=============================================================================
