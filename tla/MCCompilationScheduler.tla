----------------------- MODULE MCCompilationScheduler -----------------------
(***************************************************************************)
(* A small instance of CompilationScheduler for TLC: two keys, requests of *)
(* one and two bytes in three lanes.                                       *)
(***************************************************************************)
EXTENDS CompilationScheduler

CONSTANTS w1, w2, c1, c2, k1, k2

Req(k, b, p) == [key |-> k, estimated_bytes |-> b, priority |-> p]

\* Both keys, both sizes, every lane; k1 is asked for with either size.
MCRequests == {Req(k1, 2, Urgent), Req(k1, 1, Normal), Req(k2, 1, Background)}
=============================================================================
