-------------------------- MODULE LaneArbitration ---------------------------
(***************************************************************************)
(* Who is served next, and how long a lane can wait for its turn.  This is *)
(* the compilation scheduler reduced to the length of its three deques and *)
(* the burst counters: submissions lengthen a lane, cancellations shorten  *)
(* it, every pop_task_locked takes the head of the lane SelectLane names.  *)
(*                                                                         *)
(* skipped is a history variable: for a lane that holds work, the pops in  *)
(* a row that served another lane.                                         *)
(***************************************************************************)
EXTENDS LanePolicy, Integers

CONSTANTS MaxPending,   \* bound on the length of a lane
          MaxBurst      \* bound on the burst counters, which the code lets grow

ASSUME BoundsAssumption == MaxPending \in Nat /\ MaxBurst \in Nat

VARIABLES pending, urgent_burst, normal_burst, skipped

vars == <<pending, urgent_burst, normal_burst, skipped>>

Nonempty == {l \in Lane : pending[l] > 0}

TypeOK ==
  /\ pending \in [Lane -> Nat]
  /\ urgent_burst \in Nat
  /\ normal_burst \in Nat
  /\ skipped \in [Lane -> Nat]

Init ==
  /\ pending = [l \in Lane |-> 0]
  /\ urgent_burst = 0
  /\ normal_burst = 0
  /\ skipped = [l \in Lane |-> 0]

\* submit: push_back on the lane of the request's priority.
Enqueue(l) ==
  /\ pending[l] < MaxPending
  /\ pending' = [pending EXCEPT ![l] = @ + 1]
  /\ UNCHANGED <<urgent_burst, normal_burst, skipped>>

\* cancel of a queued task: the task leaves its lane, the bursts stay.
Remove(l) ==
  /\ pending[l] > 0
  /\ pending' = [pending EXCEPT ![l] = @ - 1]
  /\ skipped' = [skipped EXCEPT ![l] = IF pending[l] = 1 THEN 0 ELSE @]
  /\ UNCHANGED <<urgent_burst, normal_burst>>

\* shutdown(kCancel): the deques are swapped out, the bursts stay.
Clear ==
  /\ pending' = [l \in Lane |-> 0]
  /\ skipped' = [l \in Lane |-> 0]
  /\ UNCHANGED <<urgent_burst, normal_burst>>

\* pop_task_locked.
Pop ==
  /\ Nonempty # {}
  /\ urgent_burst < MaxBurst
  /\ normal_burst < MaxBurst
  /\ LET c == SelectLane(Nonempty, urgent_burst, normal_burst)
     IN  /\ pending' = [pending EXCEPT ![c.lane] = @ - 1]
         /\ urgent_burst' = c.urgent_burst
         /\ normal_burst' = c.normal_burst
         /\ skipped' = [l \in Lane |->
                          IF l \in Nonempty /\ l # c.lane THEN skipped[l] + 1 ELSE 0]

Next ==
  \/ \E l \in Lane : Enqueue(l)
  \/ \E l \in Lane : Remove(l)
  \/ Clear
  \/ Pop

Spec == Init /\ [][Next]_vars

-----------------------------------------------------------------------------
\* The documentation says that the burst limits keep sustained urgent traffic
\* from starving the lower lanes (COMPILATION_SCHEDULER.md).  How long a lane
\* that holds work really waits in pop_task_locked at worst: the background
\* lane 14 pops (twice four urgent and one normal, then four urgent), the
\* normal lane 9 (four urgent, one background, four urgent), the urgent lane 1.
WaitIsBounded ==
  /\ skipped[Background] <= 14
  /\ skipped[Normal] <= 9
  /\ skipped[Urgent] <= 1
=============================================================================
