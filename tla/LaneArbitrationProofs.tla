----------------------- MODULE LaneArbitrationProofs ------------------------
(***************************************************************************)
(* The starvation bounds of LaneArbitration for lanes and bursts of any    *)
(* length.  The bursts are the potential that pays for a skipped turn:     *)
(* every pop that passes over a waiting lane moves them strictly closer to *)
(* the point where that lane must be chosen.                               *)
(***************************************************************************)
EXTENDS LaneArbitration, TLAPS

Cap(n, limit) == IF n < limit THEN n ELSE limit

\* A background turn is due once both bursts are spent; each normal turn
\* renews the urgent burst, hence the weight kUrgentBurst + 1.
BackgroundPotential ==
  skipped[Background] <= 5 * Cap(normal_burst, kNormalBurst) + Cap(urgent_burst, kUrgentBurst)

\* A normal turn is due once the urgent burst is spent, unless the normal
\* burst is spent too: then one background turn comes first.
NormalPotential ==
  skipped[Normal] <= (IF normal_burst < kNormalBurst THEN 5 ELSE 0) + Cap(urgent_burst, kUrgentBurst)

\* The urgent lane is passed over only by the pop that clears its burst.
UrgentPotential == skipped[Urgent] <= (IF urgent_burst = 0 THEN 1 ELSE 0)

IInv == TypeOK /\ BackgroundPotential /\ NormalPotential /\ UrgentPotential

\* What the first three branches of pop_task_locked decide, and that between
\* them they decide every case: its fourth and fifth branch are dead code.
LEMMA SelectLaneCases ==
  ASSUME NEW S \in SUBSET Lane, S # {}, NEW ub \in Nat, NEW nb \in Nat
  PROVE  LET c == SelectLane(S, ub, nb)
         IN  \/ /\ Urgent \in S
                /\ ub < kUrgentBurst \/ S = {Urgent}
                /\ c = Choice(Urgent, ub + 1, nb)
             \/ /\ Normal \in S
                /\ Urgent \in S => ub >= kUrgentBurst
                /\ nb < kNormalBurst \/ Background \notin S
                /\ c = Choice(Normal, 0, nb + 1)
             \/ /\ Background \in S
                /\ Urgent \in S => ub >= kUrgentBurst
                /\ Normal \in S => nb >= kNormalBurst
                /\ c = Choice(Background, 0, 0)
<1>1. CASE Urgent \in S /\ (ub < kUrgentBurst \/ S = {Urgent})
  BY <1>1 DEF SelectLane
<1>2. CASE /\ ~(Urgent \in S /\ (ub < kUrgentBurst \/ S = {Urgent}))
           /\ Normal \in S /\ (nb < kNormalBurst \/ Background \notin S)
  BY <1>2 DEF SelectLane, kUrgentBurst
<1>3. CASE /\ ~(Urgent \in S /\ (ub < kUrgentBurst \/ S = {Urgent}))
           /\ ~(Normal \in S /\ (nb < kNormalBurst \/ Background \notin S))
  <2>1. Background \in S
    BY <1>3 DEF Lane, Background, Normal, Urgent
  <2>. QED  BY <1>3, <2>1 DEF SelectLane, kUrgentBurst, kNormalBurst
<1>. QED  BY <1>1, <1>2, <1>3

\* Bursts and skips start at zero.
LEMMA IInvInit == Init => IInv
BY DEF Init, IInv, TypeOK, BackgroundPotential, NormalPotential, UrgentPotential, Cap,
       Lane, Background, Normal, Urgent, kUrgentBurst, kNormalBurst

\* Every arrival, removal and pop keeps the skips within what the bursts pay for.
LEMMA IInvStep == IInv /\ [Next]_vars => IInv'
<1> SUFFICES ASSUME IInv, [Next]_vars PROVE IInv'
  OBVIOUS
<1>t. TypeOK
  BY DEF IInv
<1>1. ASSUME NEW l \in Lane, Enqueue(l) PROVE IInv'
  BY <1>1 DEF Enqueue, IInv, TypeOK, BackgroundPotential, NormalPotential, UrgentPotential
<1>2. ASSUME NEW l \in Lane, Remove(l) PROVE IInv'
  BY <1>2 DEF Remove, IInv, TypeOK, BackgroundPotential, NormalPotential, UrgentPotential, Cap,
              Lane, Background, Normal, Urgent, kUrgentBurst, kNormalBurst
<1>3. CASE Clear
  BY <1>3 DEF Clear, IInv, TypeOK, BackgroundPotential, NormalPotential, UrgentPotential, Cap,
              Lane, Background, Normal, Urgent, kUrgentBurst, kNormalBurst
<1>4. CASE Pop
  <2> DEFINE c == SelectLane(Nonempty, urgent_burst, normal_burst)
  <2>1. /\ Nonempty \in SUBSET Lane /\ Nonempty # {}
        /\ urgent_burst \in Nat /\ normal_burst \in Nat
        /\ \A l \in Nonempty : pending[l] > 0
        /\ skipped \in [Lane -> Nat] /\ pending \in [Lane -> Nat]
    BY <1>4 DEF Pop, IInv, TypeOK, Nonempty
  <2>2. /\ pending' = [pending EXCEPT ![c.lane] = @ - 1]
        /\ urgent_burst' = c.urgent_burst
        /\ normal_burst' = c.normal_burst
        /\ skipped' = [l \in Lane |->
                         IF l \in Nonempty /\ l # c.lane THEN skipped[l] + 1 ELSE 0]
    BY <1>4 DEF Pop
  <2>3. \/ /\ Urgent \in Nonempty
           /\ urgent_burst < kUrgentBurst \/ Nonempty = {Urgent}
           /\ c = Choice(Urgent, urgent_burst + 1, normal_burst)
        \/ /\ Normal \in Nonempty
           /\ Urgent \in Nonempty => urgent_burst >= kUrgentBurst
           /\ normal_burst < kNormalBurst \/ Background \notin Nonempty
           /\ c = Choice(Normal, 0, normal_burst + 1)
        \/ /\ Background \in Nonempty
           /\ Urgent \in Nonempty => urgent_burst >= kUrgentBurst
           /\ Normal \in Nonempty => normal_burst >= kNormalBurst
           /\ c = Choice(Background, 0, 0)
    BY <2>1, SelectLaneCases
  <2> HIDE DEF c
  <2>4. TypeOK'
    BY <2>1, <2>2, <2>3 DEF TypeOK, Choice, Lane
  <2>5. BackgroundPotential'
    BY <2>1, <2>2, <2>3 DEF IInv, BackgroundPotential, Cap, Choice, Lane,
       Background, Normal, Urgent, kUrgentBurst, kNormalBurst
  <2>6. NormalPotential'
    BY <2>1, <2>2, <2>3 DEF IInv, NormalPotential, Cap, Choice, Lane,
       Background, Normal, Urgent, kUrgentBurst, kNormalBurst
  <2>7. UrgentPotential'
    BY <2>1, <2>2, <2>3 DEF IInv, UrgentPotential, Cap, Choice, Lane,
       Background, Normal, Urgent, kUrgentBurst, kNormalBurst
  <2>. QED  BY <2>4, <2>5, <2>6, <2>7 DEF IInv
<1>5. CASE UNCHANGED vars
  BY <1>5 DEF vars, IInv, TypeOK, BackgroundPotential, NormalPotential, UrgentPotential
<1>. QED  BY <1>1, <1>2, <1>3, <1>4, <1>5 DEF Next

\* What the bursts pay for is within the bounds.
LEMMA IInvBounds == IInv => WaitIsBounded
BY DEF IInv, TypeOK, BackgroundPotential, NormalPotential, UrgentPotential, Cap, Lane,
       Background, Normal, Urgent, kUrgentBurst, kNormalBurst, WaitIsBounded

\* However long the lanes and whatever arrives or is cancelled, pop_task_locked
\* passes over a waiting background lane at most 14 times, a waiting normal
\* lane at most 9 times and a waiting urgent lane at most once.
THEOREM NoStarvation == Spec => []WaitIsBounded
BY IInvInit, IInvStep, IInvBounds, PTL DEF Spec
=============================================================================
