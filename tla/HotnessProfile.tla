--------------------------- MODULE HotnessProfile ---------------------------
(***************************************************************************)
(* The hotness profile of a tiered function (HotnessProfile in             *)
(* src/jit/tiering.cpp): what TieredCode and FrontendTiering share.        *)
(* Backedge counts behave as invocation counts do and are merged with them. *)
(***************************************************************************)
EXTENDS Integers

CONSTANTS
  threshold, retry_delay,  \* TieringThresholds
  MaxInvocations           \* bound on the invocation counter

ASSUME HotnessAssumption == threshold \in Nat /\ retry_delay \in Nat /\ MaxInvocations \in Nat

VARIABLES invocations, next_invocation, compilation_claimed, optimized_active

\* HotnessProfile::Impl::hot
Hot == ~optimized_active /\ invocations >= next_invocation

\* Mutant: the delay is forgotten.
RearmNot == next_invocation' = next_invocation

\* HotnessProfile::Impl::rearm
Rearm == next_invocation' = invocations + retry_delay
=============================================================================
