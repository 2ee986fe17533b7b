----------------------------- MODULE LanePolicy -----------------------------
(***************************************************************************)
(* The lane choice of pop_task_locked (src/jit/compilation_scheduler.cpp). *)
(* The scheduler keeps one deque per CompilationPriority; lane 2 is urgent,*)
(* lane 1 normal and lane 0 background (priority_lane is the enum's value).*)
(* The choice depends only on which deques are nonempty and on the two     *)
(* burst counters, so it is a pure operator that the scheduler and the     *)
(* arbitration specification share.                                        *)
(***************************************************************************)
EXTENDS Naturals

kUrgentBurst == 4

kNormalBurst == 2

Background == 0
Normal == 1
Urgent == 2

\* CompilationPriority, whose values index the deques.
Lane == {Background, Normal, Urgent}

Choice(lane, urgent_burst, normal_burst) ==
  [lane |-> lane, urgent_burst |-> urgent_burst, normal_burst |-> normal_burst]

\* Mutant: serving the background lane leaves the normal burst exhausted.
SelectLaneBurstNotCleared(nonempty, urgent_burst, normal_burst) ==
  IF Urgent \in nonempty /\ (urgent_burst < kUrgentBurst \/ nonempty = {Urgent})
    THEN Choice(Urgent, urgent_burst + 1, normal_burst)
  ELSE IF Normal \in nonempty /\ (normal_burst < kNormalBurst \/ Background \notin nonempty)
    THEN Choice(Normal, 0, normal_burst + 1)
  ELSE IF Background \in nonempty
    THEN Choice(Background, 0, normal_burst)
  ELSE Choice(Urgent, 1, normal_burst)

(***************************************************************************)
(* pop_task_locked up to the choice of the lane, for a nonempty set of     *)
(* nonempty lanes, with the burst counters it leaves behind.  The branches *)
(* are tried in the source's order; the last two are there because the     *)
(* source has them (SelectLaneCases in LaneArbitrationProofs shows that    *)
(* they are never taken).                                                  *)
(***************************************************************************)
SelectLane(nonempty, urgent_burst, normal_burst) ==
  IF Urgent \in nonempty /\ (urgent_burst < kUrgentBurst \/ nonempty = {Urgent})
    THEN Choice(Urgent, urgent_burst + 1, normal_burst)
  ELSE IF Normal \in nonempty /\ (normal_burst < kNormalBurst \/ Background \notin nonempty)
    THEN Choice(Normal, 0, normal_burst + 1)
  ELSE IF Background \in nonempty
    THEN Choice(Background, 0, 0)
  ELSE IF Urgent \in nonempty
    THEN Choice(Urgent, 1, normal_burst)
  ELSE Choice(Normal, 0, 1)
=============================================================================
