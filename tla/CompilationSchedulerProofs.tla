--------------------- MODULE CompilationSchedulerProofs ----------------------
(***************************************************************************)
(* CompilationScheduler for any workers, clients, keys, requests and       *)
(* limits: every task in one place, balanced accounts, no lost wake-up and *)
(* a shutdown that leaves nothing behind; and the scheduler implements     *)
(* LaneArbitration, so that no lane of it starves.                         *)
(*                                                                         *)
(* The parts of the invariant lean on each other: the deques are in the    *)
(* order of submission because ids are fresh, the accounts do not wrap     *)
(* because a task leaves each place once, and notify_one is enough because *)
(* the queue is counted by the workers on their way to it.                 *)
(***************************************************************************)
EXTENDS CompilationScheduler, SetSums, SequenceTheorems, TLAPS

\* Ids from next_task_id on name no task yet.
IdsAreFresh ==
  \A t \in TaskId : t >= next_task_id => state[t] = "none" /\ ~cancellation_requested[t]

\* queued_tasks is what the three deques hold.
LanesAreCounted == queued_tasks = Len(queues[0]) + Len(queues[1]) + Len(queues[2])

\* A closed scheduler stays closed: a worker leaves it only when the deques
\* are empty, and shutdown returns only when the workers have left.
StopIsOrdered ==
  /\ \A w \in Worker : wpc[w] = "exited" => ~accepting /\ queued_tasks = 0
  /\ \A w \in Worker : wpc[w] = "joining" => ~accepting
  /\ \A c \in Client : cpc[c] = "joining" => ~accepting
  /\ joined => ~accepting /\ \A w \in Worker : wpc[w] = "exited" \/ w \in detached

\* Where the tasks are.
HolderInv == IdsAreFresh /\ KeysNameLiveTasks /\ OneHolder /\ LanesAreCounted

IInv == TypeOK /\ HolderInv /\ AccountsBalance /\ NoLostWakeup /\ StopIsOrdered

-----------------------------------------------------------------------------
(* Deques.                                                                  *)

\* Ids are positive, and 0 names no task.
LEMMA TaskIdsAreNumbers == TaskId \subseteq Nat /\ NoTask \notin TaskId
BY SchedulerAssumption DEF TaskId, NoTask, SchedulerAssumption

\* What deque::erase leaves: the others, in their order.
LEMMA RemoveAtType ==
  ASSUME NEW S, NEW s \in Seq(S), NEW i \in 1..Len(s)
  PROVE  /\ RemoveAt(s, i) \in Seq(S)
         /\ Len(RemoveAt(s, i)) = Len(s) - 1
         /\ \A j \in 1..Len(s)-1 : RemoveAt(s, i)[j] = s[IF j < i THEN j ELSE j + 1]
<1> DEFINE a == SubSeq(s, 1, i - 1)
           b == SubSeq(s, i + 1, Len(s))
<1>1. a \in Seq(S) /\ Len(a) = i - 1 /\ \A j \in 1..i-1 : a[j] = s[j]
  OBVIOUS
<1>2. b \in Seq(S) /\ Len(b) = Len(s) - i /\ \A j \in 1..Len(s)-i : b[j] = s[i + j]
  OBVIOUS
<1>3. RemoveAt(s, i) = a \o b
  BY DEF RemoveAt
<1> HIDE DEF a, b
<1>4. /\ a \o b \in Seq(S) /\ Len(a \o b) = Len(a) + Len(b)
      /\ \A j \in 1..Len(a)+Len(b) : (a \o b)[j] = IF j <= Len(a) THEN a[j] ELSE b[j - Len(a)]
  BY <1>1, <1>2, ConcatProperties
<1>5. Len(a) + Len(b) = Len(s) - 1
  BY <1>1, <1>2
<1>6. ASSUME NEW j \in 1..Len(s)-1 PROVE (a \o b)[j] = s[IF j < i THEN j ELSE j + 1]
  <2>1. CASE j < i
    BY <1>1, <1>4, <1>5, <2>1
  <2>2. CASE ~(j < i)
    <3>1. (a \o b)[j] = b[j - (i - 1)]
      BY <1>1, <1>4, <1>5, <2>2
    <3>2. j - (i - 1) \in 1..Len(s)-i /\ i + (j - (i - 1)) = j + 1
      BY <2>2
    <3>3. b[j - (i - 1)] = s[j + 1]
      BY <1>2, <3>2
    <3>. QED  BY <2>2, <3>1, <3>3
  <2>. QED  BY <2>1, <2>2
<1>. QED  BY <1>3, <1>4, <1>5, <1>6

\* The task at place i of lane l leaves its deque.
Removed(l, i) ==
  /\ queues' \in [Lane -> Seq(TaskId)]
  /\ \A m \in Lane : m # l => queues'[m] = queues[m]
  /\ Len(queues'[l]) = Len(queues[l]) - 1
  /\ \A j \in 1..Len(queues[l])-1 : queues'[l][j] = queues[l][IF j < i THEN j ELSE j + 1]

\* cancel's erase takes one task out of one lane.
LEMMA RemoveAtRemoves ==
  ASSUME TypeOK, NEW l \in Lane, NEW i \in DOMAIN queues[l],
         queues' = [queues EXCEPT ![l] = RemoveAt(@, i)]
  PROVE  Removed(l, i)
<1>1. queues[l] \in Seq(TaskId) /\ i \in 1..Len(queues[l])
  BY DEF TypeOK
<1>2. queues'[l] = RemoveAt(queues[l], i) /\ queues' = [queues EXCEPT ![l] = queues'[l]]
  BY DEF TypeOK
<1>3. /\ queues'[l] \in Seq(TaskId) /\ Len(queues'[l]) = Len(queues[l]) - 1
      /\ \A j \in 1..Len(queues[l])-1 : queues'[l][j] = queues[l][IF j < i THEN j ELSE j + 1]
  BY <1>1, <1>2, RemoveAtType
<1>. QED  BY <1>2, <1>3 DEF Removed, TypeOK

\* pop_front does the same at place 1.
LEMMA PopFrontRemoves ==
  ASSUME TypeOK, NEW l \in Lane, queues[l] # <<>>, PopFront(l)
  PROVE  Removed(l, 1) /\ 1 \in DOMAIN queues[l] /\ Head(queues[l]) = queues[l][1]
<1>1. queues[l] \in Seq(TaskId) /\ Len(queues[l]) # 0 /\ Len(queues[l]) \in Nat
  BY DEF TypeOK
<1>2. queues'[l] = Tail(queues[l]) /\ queues' = [queues EXCEPT ![l] = queues'[l]]
  BY DEF TypeOK, PopFront
<1>3. /\ queues'[l] \in Seq(TaskId) /\ Len(queues'[l]) = Len(queues[l]) - 1
      /\ \A j \in 1..Len(queues[l])-1 : queues'[l][j] = queues[l][j + 1]
  BY <1>1, <1>2
<1>4. \A j \in 1..Len(queues[l])-1 : queues'[l][j] = queues[l][IF j < 1 THEN j ELSE j + 1]
  BY <1>1, <1>3
<1>5. Removed(l, 1)
  BY <1>2, <1>3, <1>4 DEF Removed, TypeOK
<1>. QED  BY <1>1, <1>5

\* The order of a deque makes its tasks distinct: the one removed is in no
\* deque any more, all the others still are.
LEMMA RemovedLeaves ==
  ASSUME TypeOK, OneHolder, LanesAreCounted, NEW l \in Lane, NEW i \in DOMAIN queues[l],
         Removed(l, i)
  PROVE  /\ \A m \in Lane : \A j \in DOMAIN queues'[m] :
              queues'[m][j] # queues[l][i] /\ \E h \in DOMAIN queues[m] : queues'[m][j] = queues[m][h]
         /\ \A m \in Lane : \A j, h \in DOMAIN queues'[m] : j < h => queues'[m][j] < queues'[m][h]
         /\ \A u \in TaskId : u # queues[l][i] /\ InQueue(u) => InQueue(u)'
         /\ Len(queues'[0]) + Len(queues'[1]) + Len(queues'[2]) = queued_tasks - 1
<1>0. /\ \A m \in Lane : /\ queues[m] \in Seq(TaskId) /\ DOMAIN queues[m] = 1..Len(queues[m])
                         /\ Len(queues[m]) \in Nat
                         /\ queues'[m] \in Seq(TaskId) /\ DOMAIN queues'[m] = 1..Len(queues'[m])
                         /\ Len(queues'[m]) \in Nat
      /\ DOMAIN queues'[l] = 1..Len(queues[l])-1
      /\ i \in 1..Len(queues[l])
  BY DEF TypeOK, Removed
<1> DEFINE t == queues[l][i]
           from(j) == IF j < i THEN j ELSE j + 1
<1>1. \A j \in DOMAIN queues'[l] : /\ from(j) \in DOMAIN queues[l] /\ from(j) # i
                                   /\ queues'[l][j] = queues[l][from(j)]
  BY <1>0 DEF Removed
<1>2. \A j, h \in DOMAIN queues[l] : j # h => queues[l][j] # queues[l][h]
  <2> SUFFICES ASSUME NEW j \in DOMAIN queues[l], NEW h \in DOMAIN queues[l], j # h
               PROVE  queues[l][j] # queues[l][h]
    OBVIOUS
  <2>1. j \in 1..Len(queues[l]) /\ h \in 1..Len(queues[l]) /\ queues[l] \in Seq(TaskId)
        /\ Len(queues[l]) \in Nat
    BY <1>0
  <2>2. queues[l][j] \in TaskId /\ queues[l][h] \in TaskId
    BY <2>1, ElementOfSeq
  <2>3. queues[l][j] \in Nat /\ queues[l][h] \in Nat
    BY <2>2, TaskIdsAreNumbers
  <2>4. j < h \/ h < j
    BY <2>1
  <2>. QED  BY <2>3, <2>4 DEF OneHolder, DequesHoldQueued
<1>3. t \in TaskId /\ request[t].priority = l
  BY <1>0 DEF OneHolder, DequesHoldQueued
<1>4. ASSUME NEW m \in Lane, NEW j \in DOMAIN queues'[m]
      PROVE  queues'[m][j] # t /\ \E h \in DOMAIN queues[m] : queues'[m][j] = queues[m][h]
  <2>1. CASE m = l
    BY <1>1, <1>2, <1>4, <2>1
  <2>2. CASE m # l
    <3>1. queues'[m] = queues[m]
      BY <2>2 DEF Removed
    <3>2. j \in DOMAIN queues[m] /\ queues'[m][j] = queues[m][j]
      BY <1>4, <3>1
    <3>3. request[queues[m][j]].priority = m
      BY <3>2 DEF OneHolder, DequesHoldQueued
    <3>. QED  BY <1>3, <2>2, <3>2, <3>3
  <2>. QED  BY <2>1, <2>2
<1>5. ASSUME NEW m \in Lane, NEW j \in DOMAIN queues'[m], NEW h \in DOMAIN queues'[m], j < h
      PROVE  queues'[m][j] < queues'[m][h]
  <2>1. CASE m = l
    <3>1. from(j) < from(h)
      BY <1>0, <1>5, <2>1
    <3>. QED  BY <1>1, <1>5, <2>1, <3>1 DEF OneHolder, DequesHoldQueued
  <2>2. CASE m # l
    BY <1>5, <2>2 DEF OneHolder, DequesHoldQueued, Removed
  <2>. QED  BY <2>1, <2>2
<1>6. ASSUME NEW u \in TaskId, u # t, InQueue(u) PROVE InQueue(u)'
  <2>1. PICK m \in Lane : \E j \in DOMAIN queues[m] : queues[m][j] = u
    BY <1>6 DEF InQueue
  <2>2. PICK j \in DOMAIN queues[m] : queues[m][j] = u
    BY <2>1
  <2>3. CASE m # l
    BY <2>2, <2>3 DEF InQueue, Removed
  <2>4. CASE m = l
    <3>1. j # i
      BY <1>6, <2>2, <2>4
    <3> DEFINE h == IF j < i THEN j ELSE j - 1
    <3>2. h \in DOMAIN queues'[l] /\ from(h) = j
      BY <1>0, <2>2, <2>4, <3>1
    <3>3. queues'[l][h] = u
      BY <1>1, <2>2, <2>4, <3>2
    <3>. QED  BY <3>2, <3>3 DEF InQueue
  <2>. QED  BY <2>3, <2>4
<1>7. Len(queues'[0]) + Len(queues'[1]) + Len(queues'[2]) = queued_tasks - 1
  <2>1. Lane = {0, 1, 2}
    BY DEF Lane, Background, Normal, Urgent
  <2>2. Len(queues[0]) \in Nat /\ Len(queues[1]) \in Nat /\ Len(queues[2]) \in Nat
    BY <1>0, <2>1
  <2>3. CASE l = 0
    <3>1. /\ queues'[1] = queues[1] /\ queues'[2] = queues[2]
          /\ Len(queues'[0]) = Len(queues[0]) - 1
      BY <2>1, <2>3 DEF Removed
    <3>. QED  BY <2>2, <3>1 DEF LanesAreCounted
  <2>4. CASE l = 1
    <3>1. /\ queues'[0] = queues[0] /\ queues'[2] = queues[2]
          /\ Len(queues'[1]) = Len(queues[1]) - 1
      BY <2>1, <2>4 DEF Removed
    <3>. QED  BY <2>2, <3>1 DEF LanesAreCounted
  <2>5. CASE l = 2
    <3>1. /\ queues'[0] = queues[0] /\ queues'[1] = queues[1]
          /\ Len(queues'[2]) = Len(queues[2]) - 1
      BY <2>1, <2>5 DEF Removed
    <3>. QED  BY <2>2, <3>1 DEF LanesAreCounted
  <2>. QED  BY <2>1, <2>3, <2>4, <2>5
<1>. QED  BY <1>4, <1>5, <1>6, <1>7

-----------------------------------------------------------------------------
(* Every task has one holder.                                               *)

\* Worker v keeps its place in or outside of a job.
BusyKept == \A v \in Worker : wpc'[v] \in Busy <=> wpc[v] \in Busy

\* Steps that touch neither tasks nor deques nor who works on what.
LEMMA HolderSame ==
  ASSUME TypeOK, HolderInv, BusyKept, next_task_id' \in Nat, next_task_id' >= next_task_id,
         UNCHANGED <<taskVars, queues, identities, queued_tasks, wtask>>
  PROVE  HolderInv'
<1>1. IdsAreFresh'
  BY TaskIdsAreNumbers DEF HolderInv, IdsAreFresh, TypeOK, taskVars
<1>2. KeysNameLiveTasks' /\ LanesAreCounted'
  BY DEF HolderInv, KeysNameLiveTasks, LanesAreCounted, taskVars
<1>3. OneHolder'
  BY DEF HolderInv, OneHolder, DequesHoldQueued, WorkersHoldRunning, InQueue, BusyKept, taskVars
<1>. QED  BY <1>1, <1>2, <1>3 DEF HolderInv

\* notify_one does not touch a worker that has a job.
LEMMA NotifyKeepsBusy ==
  ASSUME TypeOK, NotifyOneWorker
  PROVE  BusyKept
BY DEF TypeOK, NotifyOneWorker, BusyKept, Busy

\* submit enters a fresh id in both tables and at the end of its lane.
LEMMA AdmitKeepsHolders ==
  ASSUME TypeOK, HolderInv, NEW r \in Request, Admit(r)
  PROVE  HolderInv'
<1> DEFINE n == next_task_id
<1>1. /\ n \in TaskId /\ n \in Nat /\ r.key \in Key /\ r.priority \in Lane
      /\ identities[r.key] = NoTask /\ state[n] = "none" /\ ~cancellation_requested[n]
  <2>1. r.key \in Key /\ r.priority \in Lane
    BY SchedulerAssumption DEF SchedulerAssumption
  <2>2. n \in TaskId /\ n \in Nat /\ n >= next_task_id
    BY TaskIdsAreNumbers DEF Admit
  <2>3. identities[r.key] = NoTask
    BY DEF Admit, Existing
  <2>4. state[n] = "none" /\ ~cancellation_requested[n]
    BY <2>2 DEF HolderInv, IdsAreFresh
  <2>. QED  BY <2>1, <2>2, <2>3, <2>4
<1>2. /\ state'[n] = "queued" /\ request'[n] = r /\ identities'[r.key] = n
      /\ \A t \in TaskId : t # n => state'[t] = state[t] /\ request'[t] = request[t]
      /\ \A k \in Key : k # r.key => identities'[k] = identities[k]
      /\ UNCHANGED <<cancellation_requested, wtask>> /\ next_task_id' = n + 1
  BY <1>1 DEF Admit, TypeOK
<1>3. IdsAreFresh'
  <2> SUFFICES ASSUME NEW t \in TaskId, t >= n + 1
               PROVE  state'[t] = "none" /\ ~cancellation_requested'[t]
    BY <1>2 DEF IdsAreFresh
  <2>1. t >= n /\ t # n
    BY <1>1, TaskIdsAreNumbers
  <2>. QED  BY <1>2, <2>1 DEF HolderInv, IdsAreFresh
<1>4. KeysNameLiveTasks'
  <2>1. \A k \in Key : identities[k] # n
    BY <1>1, TaskIdsAreNumbers DEF HolderInv, KeysNameLiveTasks, Live
  <2>2. \A t \in TaskId : state[t] \in Live => request[t].key # r.key /\ request[t].key \in Key
    BY <1>1, TaskIdsAreNumbers, SchedulerAssumption
       DEF HolderInv, KeysNameLiveTasks, TypeOK, SchedulerAssumption
  <2>3. ASSUME NEW k \in Key, identities'[k] # NoTask
        PROVE  state'[identities'[k]] \in Live /\ request'[identities'[k]].key = k
    <3>1. CASE k = r.key
      BY <1>1, <1>2, <3>1 DEF Live
    <3>2. CASE k # r.key
      <4>1. identities[k] \in TaskId /\ identities[k] # n
        BY <1>2, <2>1, <2>3, <3>2 DEF TypeOK
      <4>. QED  BY <1>2, <2>3, <3>2, <4>1 DEF HolderInv, KeysNameLiveTasks
    <3>. QED  BY <3>1, <3>2
  <2>4. ASSUME NEW t \in TaskId, state'[t] \in Live PROVE identities'[request'[t].key] = t
    <3>1. CASE t = n
      BY <1>2, <3>1
    <3>2. CASE t # n
      BY <1>2, <2>2, <2>4, <3>2 DEF HolderInv, KeysNameLiveTasks
    <3>. QED  BY <3>1, <3>2
  <2>. QED  BY <2>3, <2>4 DEF KeysNameLiveTasks
<1> DEFINE l == r.priority
<1>5. /\ \A m \in Lane : m # l => queues'[m] = queues[m]
      /\ queues[l] \in Seq(TaskId) /\ queues'[l] = Append(queues[l], n)
  BY <1>1 DEF Admit, PriorityLane, TypeOK
<1>6. /\ Len(queues[l]) \in Nat /\ DOMAIN queues[l] = 1..Len(queues[l])
      /\ Len(queues'[l]) = Len(queues[l]) + 1 /\ DOMAIN queues'[l] = 1..Len(queues[l])+1
      /\ \A i \in 1..Len(queues[l]) : queues'[l][i] = queues[l][i]
      /\ queues'[l][Len(queues[l]) + 1] = n
  BY <1>1, <1>5, AppendProperties
<1>7. \A m \in Lane : \A i \in DOMAIN queues[m] :
        queues[m][i] \in TaskId /\ queues[m][i] < n
  <2> SUFFICES ASSUME NEW m \in Lane, NEW i \in DOMAIN queues[m]
               PROVE  queues[m][i] \in TaskId /\ queues[m][i] < n
    OBVIOUS
  <2>1. queues[m][i] \in TaskId /\ state[queues[m][i]] = "queued"
    BY ElementOfSeq DEF HolderInv, OneHolder, DequesHoldQueued, TypeOK
  <2>2. ~(queues[m][i] >= n)
    BY <2>1 DEF HolderInv, IdsAreFresh
  <2>3. queues[m][i] \in Nat
    BY <2>1, TaskIdsAreNumbers
  <2>. QED  BY <1>1, <2>1, <2>2, <2>3
<1>8. OneHolder'
  <2>1. \A m \in Lane : \A i \in DOMAIN queues'[m] :
          /\ state'[queues'[m][i]] = "queued" /\ ~cancellation_requested'[queues'[m][i]]
          /\ request'[queues'[m][i]].priority = m
    <3> SUFFICES ASSUME NEW m \in Lane, NEW i \in DOMAIN queues'[m]
                 PROVE  /\ state'[queues'[m][i]] = "queued" /\ ~cancellation_requested'[queues'[m][i]]
                        /\ request'[queues'[m][i]].priority = m
      OBVIOUS
    <3>1. CASE m = l /\ i = Len(queues[l]) + 1
      BY <1>1, <1>2, <1>6, <3>1
    <3>2. CASE ~(m = l /\ i = Len(queues[l]) + 1)
      <4>1. i \in DOMAIN queues[m] /\ queues'[m][i] = queues[m][i]
        BY <1>5, <1>6, <3>2
      <4>2. queues[m][i] \in TaskId /\ queues[m][i] # n
        BY <1>1, <1>7, <4>1, TaskIdsAreNumbers
      <4>. QED  BY <1>2, <4>1, <4>2 DEF HolderInv, OneHolder, DequesHoldQueued
    <3>. QED  BY <3>1, <3>2
  <2>2. \A m \in Lane : \A i, j \in DOMAIN queues'[m] : i < j => queues'[m][i] < queues'[m][j]
    <3> SUFFICES ASSUME NEW m \in Lane, NEW i \in DOMAIN queues'[m], NEW j \in DOMAIN queues'[m],
                        i < j
                 PROVE  queues'[m][i] < queues'[m][j]
      OBVIOUS
    <3>1. CASE m # l
      BY <1>5, <3>1 DEF HolderInv, OneHolder, DequesHoldQueued
    <3>2. CASE m = l /\ j = Len(queues[l]) + 1
      <4>1. i \in DOMAIN queues[l] /\ queues'[l][i] = queues[l][i]
        BY <1>6, <3>2
      <4>. QED  BY <1>1, <1>6, <1>7, <3>2, <4>1
    <3>3. CASE m = l /\ j # Len(queues[l]) + 1
      <4>1. /\ i \in DOMAIN queues[l] /\ queues'[l][i] = queues[l][i]
            /\ j \in DOMAIN queues[l] /\ queues'[l][j] = queues[l][j]
        BY <1>6, <3>3
      <4>. QED  BY <1>1, <3>3, <4>1 DEF HolderInv, OneHolder, DequesHoldQueued
    <3>. QED  BY <3>1, <3>2, <3>3
  <2>3. \A t \in TaskId : state'[t] = "queued" => InQueue(t)'
    <3> SUFFICES ASSUME NEW t \in TaskId, state'[t] = "queued" PROVE InQueue(t)'
      OBVIOUS
    <3>1. CASE t = n
      <4>1. Len(queues[l]) + 1 \in DOMAIN queues'[l]
        BY <1>6
      <4>. QED  BY <1>1, <1>6, <3>1, <4>1 DEF InQueue
    <3>2. CASE t # n
      <4>1. PICK m \in Lane : \E i \in DOMAIN queues[m] : queues[m][i] = t
        BY <1>2, <3>2 DEF HolderInv, OneHolder, DequesHoldQueued, InQueue
      <4>2. PICK i \in DOMAIN queues[m] : queues[m][i] = t
        BY <4>1
      <4>3. i \in DOMAIN queues'[m] /\ queues'[m][i] = t
        <5>1. CASE m = l
          BY <1>6, <4>2, <5>1
        <5>2. CASE m # l
          BY <1>5, <4>2, <5>2
        <5>. QED  BY <5>1, <5>2
      <4>. QED  BY <4>3 DEF InQueue
    <3>. QED  BY <3>1, <3>2
  <2>4. BusyKept
    BY NotifyKeepsBusy DEF Admit
  <2>5. \A w \in Worker : IF wpc'[w] \in Busy
                          THEN wtask'[w] \in TaskId /\ state'[wtask'[w]] = "running"
                          ELSE wtask'[w] = NoTask
    BY <1>1, <1>2, <2>4 DEF HolderInv, OneHolder, WorkersHoldRunning, BusyKept
  <2>6. \A v, w \in Worker : wpc'[v] \in Busy /\ wtask'[v] = wtask'[w] => v = w
    BY <1>2, <2>4 DEF HolderInv, OneHolder, WorkersHoldRunning, BusyKept
  <2>7. \A t \in TaskId : state'[t] = "running" => \E w \in Worker : wtask'[w] = t
    BY <1>2 DEF HolderInv, OneHolder, WorkersHoldRunning
  <2>. QED  BY <2>1, <2>2, <2>3, <2>5, <2>6, <2>7 DEF OneHolder, DequesHoldQueued, WorkersHoldRunning
<1>9. LanesAreCounted'
  <2> DEFINE old(m) == Len(queues[m])
             new(m) == Len(queues'[m])
  <2>1. Lane = {0, 1, 2} /\ \A m \in Lane : old(m) \in Nat
    BY DEF Lane, Background, Normal, Urgent, TypeOK
  <2>2. queued_tasks = old(0) + old(1) + old(2) /\ queued_tasks' = queued_tasks + 1
    BY DEF HolderInv, LanesAreCounted, Admit
  <2>3. l \in Lane /\ new(l) = old(l) + 1 /\ \A m \in Lane : m # l => new(m) = old(m)
    BY <1>1, <1>5, <1>6
  <2> HIDE DEF l, old, new
  <2>4. queued_tasks' = new(0) + new(1) + new(2)
    <3>1. CASE l = 0
      BY <2>1, <2>2, <2>3, <3>1
    <3>2. CASE l = 1
      BY <2>1, <2>2, <2>3, <3>2
    <3>3. CASE l = 2
      BY <2>1, <2>2, <2>3, <3>3
    <3>. QED  BY <2>1, <2>3, <3>1, <3>2, <3>3
  <2>. QED  BY <2>4 DEF LanesAreCounted, new
<1>. QED  BY <1>3, <1>4, <1>8, <1>9 DEF HolderInv

\* A task that leaves its deque for a worker or for good: the deques hold the
\* rest.
LEMMA LeavingDeque ==
  ASSUME TypeOK, HolderInv, NEW l \in Lane, NEW i \in DOMAIN queues[l], Removed(l, i),
         request' = request, queued_tasks' = queued_tasks - 1,
         state'[queues[l][i]] # "queued",
         \A u \in TaskId : u # queues[l][i] =>
           state'[u] = state[u] /\ cancellation_requested'[u] = cancellation_requested[u]
  PROVE  DequesHoldQueued' /\ LanesAreCounted'
<1> DEFINE t == queues[l][i]
<1>1. OneHolder /\ LanesAreCounted
  BY DEF HolderInv
<1>2. /\ \A m \in Lane : \A j \in DOMAIN queues'[m] :
           queues'[m][j] # t /\ \E h \in DOMAIN queues[m] : queues'[m][j] = queues[m][h]
      /\ \A m \in Lane : \A j, h \in DOMAIN queues'[m] : j < h => queues'[m][j] < queues'[m][h]
      /\ \A u \in TaskId : u # t /\ InQueue(u) => InQueue(u)'
      /\ Len(queues'[0]) + Len(queues'[1]) + Len(queues'[2]) = queued_tasks - 1
  BY <1>1, RemovedLeaves
<1>3. ASSUME NEW m \in Lane, NEW j \in DOMAIN queues'[m]
      PROVE  /\ state'[queues'[m][j]] = "queued" /\ ~cancellation_requested'[queues'[m][j]]
             /\ request'[queues'[m][j]].priority = m
  <2>1. PICK h \in DOMAIN queues[m] : queues'[m][j] = queues[m][h]
    BY <1>2
  <2>2. queues[m][h] \in TaskId
    BY ElementOfSeq DEF TypeOK
  <2>3. queues[m][h] # t
    BY <1>2, <2>1
  <2>. QED  BY <1>1, <2>1, <2>2, <2>3 DEF OneHolder, DequesHoldQueued
<1>4. ASSUME NEW u \in TaskId, state'[u] = "queued" PROVE InQueue(u)'
  <2>1. u # t /\ state[u] = "queued"
    BY <1>4
  <2>. QED  BY <1>1, <1>2, <2>1 DEF OneHolder, DequesHoldQueued
<1>. QED  BY <1>2, <1>3, <1>4 DEF DequesHoldQueued, LanesAreCounted

\* The task at the chosen place of a deque is queued and has an id.
LEMMA InDequeIsQueued ==
  ASSUME TypeOK, HolderInv, NEW l \in Lane, NEW i \in DOMAIN queues[l]
  PROVE  queues[l][i] \in TaskId /\ state[queues[l][i]] = "queued"
BY ElementOfSeq DEF TypeOK, HolderInv, OneHolder, DequesHoldQueued

\* A finished task leaves the identity table, whichever key it had.
LEMMA EraseKeepsKeys ==
  ASSUME TypeOK, KeysNameLiveTasks, NEW t \in TaskId, state[t] \in Live,
         state'[t] \in Terminal, \A u \in TaskId : u # t => state'[u] = state[u],
         request' = request, identities' = Erase(identities, t)
  PROVE  KeysNameLiveTasks'
<1>1. /\ request[t].key \in Key /\ identities[request[t].key] = t
  BY SchedulerAssumption DEF KeysNameLiveTasks, TypeOK, SchedulerAssumption
<1>2. \A k \in Key : identities[k] = t => k = request[t].key
  BY TaskIdsAreNumbers DEF KeysNameLiveTasks
<1>3. \A k \in Key : identities'[k] = IF k = request[t].key THEN NoTask ELSE identities[k]
  BY <1>1, <1>2 DEF Erase
<1>4. state'[t] \notin Live
  BY DEF Live, Terminal
<1>5. ASSUME NEW k \in Key, identities'[k] # NoTask
      PROVE  state'[identities'[k]] \in Live /\ request'[identities'[k]].key = k
  <2>1. identities'[k] = identities[k] /\ identities[k] \in TaskId /\ identities[k] # t
    BY <1>2, <1>3, <1>5 DEF TypeOK
  <2>. QED  BY <1>5, <2>1 DEF KeysNameLiveTasks
<1>6. ASSUME NEW u \in TaskId, state'[u] \in Live PROVE identities'[request'[u].key] = u
  <2>1. u # t /\ state[u] \in Live
    BY <1>4, <1>6
  <2>2. request[u].key \in Key /\ identities[request[u].key] = u
    BY <2>1, SchedulerAssumption DEF KeysNameLiveTasks, TypeOK, SchedulerAssumption
  <2>3. request[u].key # request[t].key
    BY <1>1, <2>1, <2>2
  <2>. QED  BY <1>3, <2>2, <2>3
<1>. QED  BY <1>5, <1>6 DEF KeysNameLiveTasks

\* cancel of a queued task takes it out of its deque and of the table.
LEMMA CancelQueuedKeepsHolders ==
  ASSUME TypeOK, HolderInv, NEW t \in TaskId, CancelQueued(t)
  PROVE  HolderInv'
<1>1. /\ state[t] = "queued" /\ state'[t] = "cancelled"
      /\ \A u \in TaskId : u # t =>
           state'[u] = state[u] /\ cancellation_requested'[u] = cancellation_requested[u]
      /\ request' = request /\ identities' = Erase(identities, t)
      /\ next_task_id' = next_task_id /\ wpc' = wpc /\ wtask' = wtask
      /\ queued_tasks' = queued_tasks - 1
  BY DEF CancelQueued, ReleaseBudget, workerVars, TypeOK
<1> DEFINE l == PriorityLane(request[t])
<1>2. l \in Lane
  BY SchedulerAssumption DEF PriorityLane, TypeOK, SchedulerAssumption
<1>3. PICK i \in DOMAIN queues[l] :
        queues[l][i] = t /\ queues' = [queues EXCEPT ![l] = RemoveAt(@, i)]
  BY DEF CancelQueued
<1> HIDE DEF l
<1>4. Removed(l, i)
  BY <1>2, <1>3, RemoveAtRemoves
<1>5. DequesHoldQueued' /\ LanesAreCounted'
  BY <1>1, <1>2, <1>3, <1>4, LeavingDeque
<1>6. IdsAreFresh'
  BY <1>1 DEF HolderInv, IdsAreFresh
<1>7. KeysNameLiveTasks'
  BY <1>1, EraseKeepsKeys DEF HolderInv, Live, Terminal
<1>8. WorkersHoldRunning'
  BY <1>1 DEF HolderInv, OneHolder, WorkersHoldRunning
<1>. QED  BY <1>5, <1>6, <1>7, <1>8 DEF HolderInv, OneHolder

\* cancel of a running task touches no deque.
LEMMA CancelRunningKeepsHolders ==
  ASSUME TypeOK, HolderInv, NEW t \in TaskId, CancelRunning(t)
  PROVE  HolderInv'
<1>1. /\ state[t] = "running" /\ next_task_id' = next_task_id
      /\ UNCHANGED <<state, request, queues, identities, queued_tasks, wpc, wtask>>
      /\ \A u \in TaskId : u # t => cancellation_requested'[u] = cancellation_requested[u]
  BY DEF CancelRunning, queueVars, workerVars, TypeOK
<1>2. IdsAreFresh'
  BY <1>1 DEF HolderInv, IdsAreFresh
<1>3. KeysNameLiveTasks' /\ LanesAreCounted' /\ WorkersHoldRunning'
  BY <1>1 DEF HolderInv, KeysNameLiveTasks, LanesAreCounted, OneHolder, WorkersHoldRunning
<1>4. DequesHoldQueued'
  <2>1. ASSUME NEW l \in Lane, NEW i \in DOMAIN queues[l]
        PROVE  ~cancellation_requested'[queues[l][i]]
    <3>1. queues[l][i] \in TaskId /\ queues[l][i] # t
      BY <1>1, InDequeIsQueued
    <3>. QED  BY <1>1, <3>1 DEF HolderInv, OneHolder, DequesHoldQueued
  <2>. QED  BY <1>1, <2>1 DEF HolderInv, OneHolder, DequesHoldQueued, InQueue
<1>. QED  BY <1>2, <1>3, <1>4 DEF HolderInv, OneHolder

\* The lane that pop_task_locked chooses is not empty.
LEMMA ChosenLaneIsNonempty ==
  ASSUME NEW S \in SUBSET Lane, S # {}, NEW ub \in Nat, NEW nb \in Nat
  PROVE  /\ SelectLane(S, ub, nb).lane \in S
         /\ SelectLane(S, ub, nb).urgent_burst \in Nat
         /\ SelectLane(S, ub, nb).normal_burst \in Nat
<1> DEFINE c == SelectLane(S, ub, nb)
<1>1. \E u, b \in Nat : \/ Urgent \in S /\ c = Choice(Urgent, u, b)
                        \/ Normal \in S /\ c = Choice(Normal, u, b)
                        \/ Background \in S /\ c = Choice(Background, u, b)
  <2>1. Urgent \in S \/ Normal \in S \/ Background \in S
    BY DEF Lane
  <2>2. \/ Urgent \in S /\ (c = Choice(Urgent, ub + 1, nb) \/ c = Choice(Urgent, 1, nb))
        \/ Normal \in S /\ (c = Choice(Normal, 0, nb + 1) \/ c = Choice(Normal, 0, 1))
        \/ Background \in S /\ c = Choice(Background, 0, 0)
    BY <2>1 DEF SelectLane
  <2>3. ub + 1 \in Nat /\ nb + 1 \in Nat /\ 0 \in Nat /\ 1 \in Nat
    OBVIOUS
  <2> HIDE DEF c
  <2>. QED  BY <2>2, <2>3
<1> HIDE DEF c
<1>2. c.lane \in S /\ c.urgent_burst \in Nat /\ c.normal_burst \in Nat
  BY <1>1 DEF Choice
<1>. QED  BY <1>2 DEF c

\* What WorkerPop does, with the lane and the task it chose.
LEMMA PopTakesFront ==
  ASSUME TypeOK, NEW w \in Worker, WorkerPop(w)
  PROVE  \E l \in Lane :
           /\ 1 \in DOMAIN queues[l] /\ Removed(l, 1)
           /\ ReleaseBudget(queues[l][1])
           /\ state' = [state EXCEPT ![queues[l][1]] = "running"]
           /\ wtask' = [wtask EXCEPT ![w] = queues[l][1]]
           /\ urgent_burst' \in Nat /\ normal_burst' \in Nat
<1> DEFINE nonempty == {l \in Lane : queues[l] # <<>>}
           choice == SelectLane(nonempty, urgent_burst, normal_burst)
<1>1. /\ nonempty # {} /\ PopFront(choice.lane)
      /\ urgent_burst' = choice.urgent_burst /\ normal_burst' = choice.normal_burst
      /\ ReleaseBudget(Head(queues[choice.lane]))
      /\ state' = [state EXCEPT ![Head(queues[choice.lane])] = "running"]
      /\ wtask' = [wtask EXCEPT ![w] = Head(queues[choice.lane])]
  BY DEF WorkerPop
<1>2. nonempty \in SUBSET Lane /\ urgent_burst \in Nat /\ normal_burst \in Nat
  BY DEF TypeOK
<1>3. choice.lane \in nonempty /\ choice.urgent_burst \in Nat /\ choice.normal_burst \in Nat
  BY <1>1, <1>2, ChosenLaneIsNonempty
<1> DEFINE l == choice.lane
<1>4. l \in Lane /\ queues[l] # <<>> /\ PopFront(l)
  BY <1>1, <1>3
<1> HIDE DEF choice
<1>5. Removed(l, 1) /\ 1 \in DOMAIN queues[l] /\ Head(queues[l]) = queues[l][1]
  BY <1>4, PopFrontRemoves
<1>. QED  BY <1>1, <1>3, <1>4, <1>5

\* A task goes from the front of its deque to exactly one worker.
LEMMA PopKeepsHolders ==
  ASSUME TypeOK, HolderInv, NEW w \in Worker, WorkerPop(w)
  PROVE  HolderInv'
<1>1. PICK l \in Lane : /\ 1 \in DOMAIN queues[l] /\ Removed(l, 1)
                        /\ ReleaseBudget(queues[l][1])
                        /\ state' = [state EXCEPT ![queues[l][1]] = "running"]
                        /\ wtask' = [wtask EXCEPT ![w] = queues[l][1]]
  BY PopTakesFront
<1> DEFINE t == queues[l][1]
<1>2. t \in TaskId /\ state[t] = "queued"
  BY <1>1, InDequeIsQueued
<1>3. /\ state'[t] = "running" /\ \A u \in TaskId : u # t => state'[u] = state[u]
      /\ wpc[w] = "ready" /\ wtask'[w] = t /\ wpc'[w] = "running"
      /\ \A v \in Worker : v # w => wtask'[v] = wtask[v] /\ wpc'[v] = wpc[v]
      /\ queued_tasks' = queued_tasks - 1
      /\ UNCHANGED <<request, cancellation_requested, identities, next_task_id>>
  BY <1>1, <1>2 DEF WorkerPop, TypeOK, ReleaseBudget
<1>4. DequesHoldQueued' /\ LanesAreCounted'
  BY <1>1, <1>3, LeavingDeque
<1> HIDE DEF t
<1>5. IdsAreFresh'
  BY <1>2, <1>3 DEF HolderInv, IdsAreFresh
<1>6. KeysNameLiveTasks'
  <2>1. \A u \in TaskId : state'[u] \in Live <=> state[u] \in Live
    BY <1>2, <1>3 DEF Live
  <2>. QED  BY <1>3, <2>1 DEF HolderInv, KeysNameLiveTasks, TypeOK
<1>7. WorkersHoldRunning'
  <2>1. \A v \in Worker : wpc[v] \in Busy => wtask[v] \in TaskId /\ wtask[v] # t
    BY <1>2 DEF HolderInv, OneHolder, WorkersHoldRunning
  <2>2. wtask[w] = NoTask /\ "ready" \notin Busy /\ "running" \in Busy
    BY <1>3 DEF HolderInv, OneHolder, WorkersHoldRunning, Busy
  <2>3. \A v \in Worker : v # w => wtask'[v] # t
    BY <1>2, <1>3, <2>1, TaskIdsAreNumbers DEF HolderInv, OneHolder, WorkersHoldRunning
  <2>4. \A v \in Worker : IF wpc'[v] \in Busy
                          THEN wtask'[v] \in TaskId /\ state'[wtask'[v]] = "running"
                          ELSE wtask'[v] = NoTask
    <3> SUFFICES ASSUME NEW v \in Worker
                 PROVE  IF wpc'[v] \in Busy
                        THEN wtask'[v] \in TaskId /\ state'[wtask'[v]] = "running"
                        ELSE wtask'[v] = NoTask
      OBVIOUS
    <3>1. CASE v = w
      BY <1>2, <1>3, <2>2, <3>1
    <3>2. CASE v # w
      BY <1>3, <2>1, <3>2 DEF HolderInv, OneHolder, WorkersHoldRunning
    <3>. QED  BY <3>1, <3>2
  <2>5. \A u, v \in Worker : wpc'[u] \in Busy /\ wtask'[u] = wtask'[v] => u = v
    BY <1>3, <2>3 DEF HolderInv, OneHolder, WorkersHoldRunning
  <2>6. \A u \in TaskId : state'[u] = "running" => \E v \in Worker : wtask'[v] = u
    <3> SUFFICES ASSUME NEW u \in TaskId, state'[u] = "running"
                 PROVE  \E v \in Worker : wtask'[v] = u
      OBVIOUS
    <3>1. CASE u = t
      BY <1>3, <3>1
    <3>2. CASE u # t
      <4>1. PICK v \in Worker : wtask[v] = u
        BY <1>3, <3>2 DEF HolderInv, OneHolder, WorkersHoldRunning
      <4>2. v # w
        BY <2>2, <4>1, TaskIdsAreNumbers
      <4>. QED  BY <1>3, <4>1, <4>2
    <3>. QED  BY <3>1, <3>2
  <2>. QED  BY <2>4, <2>5, <2>6 DEF WorkersHoldRunning
<1>. QED  BY <1>4, <1>5, <1>6, <1>7 DEF HolderInv, OneHolder

\* A worker gives up its task when that ends.
LEMMA CompleteKeepsHolders ==
  ASSUME TypeOK, HolderInv, NEW w \in Worker, WorkerComplete(w)
  PROVE  HolderInv'
<1> DEFINE t == wtask[w]
<1>1. wpc[w] = "finishing" /\ wpc[w] \in Busy /\ t \in TaskId /\ state[t] = "running"
  BY DEF WorkerComplete, Busy, HolderInv, OneHolder, WorkersHoldRunning
<1>2. /\ state'[t] \in Terminal /\ \A u \in TaskId : u # t => state'[u] = state[u]
      /\ identities' = Erase(identities, t)
      /\ wtask'[w] = NoTask /\ wpc'[w] = "ready"
      /\ \A v \in Worker : v # w => wtask'[v] = wtask[v] /\ wpc'[v] = wpc[v]
      /\ UNCHANGED <<request, cancellation_requested, queues, queued_tasks, next_task_id>>
  BY <1>1 DEF WorkerComplete, TypeOK
<1> HIDE DEF t
<1>3. IdsAreFresh'
  BY <1>1, <1>2 DEF HolderInv, IdsAreFresh
<1>4. KeysNameLiveTasks'
  BY <1>1, <1>2, EraseKeepsKeys DEF HolderInv, Live
<1>5. LanesAreCounted'
  BY <1>2 DEF HolderInv, LanesAreCounted
<1>6. DequesHoldQueued'
  <2>1. ASSUME NEW l \in Lane, NEW i \in DOMAIN queues[l]
        PROVE  queues[l][i] \in TaskId /\ queues[l][i] # t
    BY <1>1, InDequeIsQueued
  <2>2. \A u \in TaskId : state'[u] = "queued" => state[u] = "queued"
    BY <1>2 DEF Terminal
  <2>. QED  BY <1>2, <2>1, <2>2 DEF HolderInv, OneHolder, DequesHoldQueued, InQueue
<1>7. WorkersHoldRunning'
  <2>1. \A v \in Worker : v # w => wtask[v] # t
    BY <1>1 DEF t, HolderInv, OneHolder, WorkersHoldRunning
  <2>2. "ready" \notin Busy /\ "running" \notin Terminal
    BY DEF Busy, Terminal
  <2>3. \A v \in Worker : IF wpc'[v] \in Busy
                          THEN wtask'[v] \in TaskId /\ state'[wtask'[v]] = "running"
                          ELSE wtask'[v] = NoTask
    <3> SUFFICES ASSUME NEW v \in Worker
                 PROVE  IF wpc'[v] \in Busy
                        THEN wtask'[v] \in TaskId /\ state'[wtask'[v]] = "running"
                        ELSE wtask'[v] = NoTask
      OBVIOUS
    <3>1. CASE v = w
      BY <1>2, <2>2, <3>1
    <3>2. CASE v # w
      BY <1>2, <2>1, <3>2 DEF HolderInv, OneHolder, WorkersHoldRunning
    <3>. QED  BY <3>1, <3>2
  <2>4. \A u, v \in Worker : wpc'[u] \in Busy /\ wtask'[u] = wtask'[v] => u = v
    <3> SUFFICES ASSUME NEW u \in Worker, NEW v \in Worker, wpc'[u] \in Busy, wtask'[u] = wtask'[v]
                 PROVE  u = v
      OBVIOUS
    <3>1. u # w /\ wtask'[u] \in TaskId
      BY <1>2, <2>2, <2>3
    <3>2. v # w
      BY <1>2, <3>1, TaskIdsAreNumbers
    <3>. QED  BY <1>2, <3>1, <3>2 DEF HolderInv, OneHolder, WorkersHoldRunning
  <2>5. \A u \in TaskId : state'[u] = "running" => \E v \in Worker : wtask'[v] = u
    <3> SUFFICES ASSUME NEW u \in TaskId, state'[u] = "running"
                 PROVE  \E v \in Worker : wtask'[v] = u
      OBVIOUS
    <3>1. u # t /\ state[u] = "running"
      BY <1>2, <2>2
    <3>2. PICK v \in Worker : wtask[v] = u
      BY <3>1 DEF HolderInv, OneHolder, WorkersHoldRunning
    <3>. QED  BY <1>2, <3>1, <3>2 DEF t
  <2>. QED  BY <2>3, <2>4, <2>5 DEF WorkersHoldRunning
<1>. QED  BY <1>3, <1>4, <1>5, <1>6, <1>7 DEF HolderInv, OneHolder

\* Under the invariant a task is in some deque exactly while it is queued.
LEMMA QueuedIsInQueue ==
  ASSUME TypeOK, HolderInv, NEW t \in TaskId
  PROVE  InQueue(t) <=> state[t] = "queued"
BY DEF HolderInv, OneHolder, DequesHoldQueued, InQueue

\* shutdown(kCancel) ends what is queued, and only that.
LEMMA CancelAll ==
  ASSUME TypeOK, HolderInv, NEW thread, Close(thread, "kCancel")
  PROVE  /\ \A t \in TaskId : state'[t] = IF state[t] = "queued" THEN "cancelled" ELSE state[t]
         /\ \A k \in Key : identities'[k] = IF identities[k] # NoTask /\ state[identities[k]] = "queued"
                                           THEN NoTask ELSE identities[k]
         /\ \A t \in TaskId : cancellation_requested'[t] =
              (cancellation_requested[t] \/ \E k \in Key : identities[k] = t)
         /\ queues' = [l \in Lane |-> <<>>] /\ queued_tasks' = 0 /\ queued_bytes' = 0
         /\ totals' = [totals EXCEPT !.cancelled = @ + Len(queues[0]) + Len(queues[1]) + Len(queues[2])]
<1>1. /\ state' = [t \in TaskId |-> IF InQueue(t) THEN "cancelled" ELSE state[t]]
      /\ identities' = [k \in Key |-> IF InQueue(identities[k]) THEN NoTask ELSE identities[k]]
      /\ cancellation_requested' = [t \in TaskId |->
           cancellation_requested[t] \/ \E k \in Key : identities[k] = t]
      /\ queues' = [l \in Lane |-> <<>>] /\ queued_tasks' = 0 /\ queued_bytes' = 0
      /\ totals' = [totals EXCEPT !.cancelled = @ + Len(queues[0]) + Len(queues[1]) + Len(queues[2])]
  BY DEF Close, InQueue
<1>2. \A t \in TaskId : InQueue(t) <=> state[t] = "queued"
  BY QueuedIsInQueue
<1>3. ~InQueue(NoTask)
  <2>1. \A l \in Lane : \A i \in DOMAIN queues[l] : queues[l][i] \in TaskId
    BY InDequeIsQueued
  <2>. QED  BY <2>1, TaskIdsAreNumbers DEF InQueue
<1>4. \A k \in Key : identities[k] = NoTask \/ identities[k] \in TaskId
  BY DEF TypeOK
<1>. QED  BY <1>1, <1>2, <1>3, <1>4

\* shutdown leaves running tasks with their workers.
LEMMA CloseKeepsHolders ==
  ASSUME TypeOK, HolderInv, BusyKept, NEW thread, NEW mode, Close(thread, mode)
  PROVE  HolderInv'
<1>1. UNCHANGED <<request, next_task_id, wtask>>
  BY DEF Close
<1>2. CASE mode # "kCancel"
  <2>1. UNCHANGED <<taskVars, queues, identities, queued_tasks, wtask>>
    BY <1>2 DEF Close, taskVars
  <2>2. next_task_id' \in Nat /\ next_task_id' >= next_task_id
    BY <1>1, SchedulerAssumption DEF TypeOK, SchedulerAssumption
  <2>. QED  BY <2>1, <2>2, HolderSame
<1>3. CASE mode = "kCancel"
  <2>1. /\ \A t \in TaskId : state'[t] = IF state[t] = "queued" THEN "cancelled" ELSE state[t]
        /\ \A k \in Key : identities'[k] = IF identities[k] # NoTask /\ state[identities[k]] = "queued"
                                          THEN NoTask ELSE identities[k]
        /\ \A t \in TaskId : cancellation_requested'[t] =
             (cancellation_requested[t] \/ \E k \in Key : identities[k] = t)
        /\ queues' = [l \in Lane |-> <<>>] /\ queued_tasks' = 0
    BY <1>3, CancelAll
  <2>2. \A t \in TaskId : /\ state'[t] \in Live <=> state[t] = "running"
                          /\ state'[t] # "queued"
                          /\ state'[t] = "running" <=> state[t] = "running"
    BY <2>1 DEF Live
  <2>3. IdsAreFresh'
    <3> SUFFICES ASSUME NEW t \in TaskId, t >= next_task_id
                 PROVE  state'[t] = "none" /\ ~cancellation_requested'[t]
      BY <1>1 DEF IdsAreFresh
    <3>1. state[t] = "none" /\ ~cancellation_requested[t]
      BY DEF HolderInv, IdsAreFresh
    <3>2. \A k \in Key : identities[k] # t
      BY <3>1, TaskIdsAreNumbers DEF HolderInv, KeysNameLiveTasks, Live
    <3>. QED  BY <2>1, <3>1, <3>2
  <2>4. KeysNameLiveTasks'
    <3>1. ASSUME NEW k \in Key, identities'[k] # NoTask
          PROVE  state'[identities'[k]] \in Live /\ request'[identities'[k]].key = k
      <4>1. identities'[k] = identities[k] /\ identities[k] \in TaskId /\ state[identities[k]] # "queued"
        BY <2>1, <3>1 DEF TypeOK
      <4>2. state[identities[k]] \in Live /\ request[identities[k]].key = k
        BY <3>1, <4>1 DEF HolderInv, KeysNameLiveTasks
      <4>. QED  BY <1>1, <2>2, <4>1, <4>2 DEF Live
    <3>2. ASSUME NEW t \in TaskId, state'[t] \in Live PROVE identities'[request'[t].key] = t
      <4>1. state[t] = "running" /\ request[t].key \in Key
        BY <2>2, <3>2, SchedulerAssumption DEF TypeOK, SchedulerAssumption
      <4>2. identities[request[t].key] = t
        BY <4>1 DEF HolderInv, KeysNameLiveTasks, Live
      <4>. QED  BY <1>1, <2>1, <4>1, <4>2
    <3>. QED  BY <3>1, <3>2 DEF KeysNameLiveTasks
  <2>5. \A l \in Lane : queues'[l] = <<>> /\ DOMAIN queues'[l] = {}
    BY <2>1
  <2>6. DequesHoldQueued'
    BY <2>2, <2>5 DEF DequesHoldQueued
  <2>7. LanesAreCounted'
    <3> DEFINE new(m) == Len(queues'[m])
    <3>1. new(0) = 0 /\ new(1) = 0 /\ new(2) = 0
      BY <2>5 DEF Lane, Background, Normal, Urgent
    <3> HIDE DEF new
    <3>2. queued_tasks' = new(0) + new(1) + new(2)
      BY <2>1, <3>1
    <3>. QED  BY <3>2 DEF LanesAreCounted, new
  <2>8. WorkersHoldRunning'
    BY <1>1, <2>2 DEF HolderInv, OneHolder, WorkersHoldRunning, BusyKept
  <2>. QED  BY <2>3, <2>4, <2>6, <2>7, <2>8 DEF HolderInv, OneHolder
<1>. QED  BY <1>2, <1>3

-----------------------------------------------------------------------------
(* The accounts.                                                            *)

\* There are finitely many tasks to count.
LEMMA TasksAreFinite ==
  /\ IsFiniteSet(TaskId)
  /\ \A S \in SUBSET TaskId : IsFiniteSet(S) /\ Cardinality(S) \in Nat
<1>1. IsFiniteSet(TaskId)
  BY SchedulerAssumption, FS_Interval DEF TaskId, SchedulerAssumption
<1>. QED  BY <1>1, FS_Subset, FS_CardinalityType

\* The byte account as a sum that SetSums can take apart.
LEMMA BytesAreSummed ==
  /\ BytesBalance <=> queued_bytes = SumOver(EstimatedBytes, InState("queued"))
  /\ BytesBalance' <=> queued_bytes' = SumOver(EstimatedBytes', InState("queued")')
<1>1. BytesBalance <=> queued_bytes = SumOver(EstimatedBytes, InState("queued"))
  BY DEF BytesBalance, SumOver, MapThenSumSet, MapThenFoldSet
<1>2. BytesBalance' <=> queued_bytes' = SumOver(EstimatedBytes', InState("queued")')
  BY DEF BytesBalance, SumOver, MapThenSumSet, MapThenFoldSet
<1>. QED  BY <1>1, <1>2

\* Every request has a size.
LEMMA BytesAreNat ==
  ASSUME TypeOK, NEW S \in SUBSET TaskId
  PROVE  NatOn(EstimatedBytes, S)
BY SchedulerAssumption DEF NatOn, EstimatedBytes, TypeOK, SchedulerAssumption

\* One task changes its state.
LEMMA OneMoves ==
  ASSUME NEW t \in TaskId, NEW a, NEW b, a # b, state[t] = a, state'[t] = b,
         \A u \in TaskId : u # t => state'[u] = state[u]
  PROVE  /\ InState(a)' = InState(a) \ {t} /\ t \in InState(a)
         /\ InState(b)' = InState(b) \cup {t} /\ t \notin InState(b)
         /\ Cardinality(InState(a)') = Cardinality(InState(a)) - 1
         /\ Cardinality(InState(b)') = Cardinality(InState(b)) + 1
         /\ \A c : c # a /\ c # b => InState(c)' = InState(c)
<1>1. /\ InState(a)' = InState(a) \ {t} /\ t \in InState(a)
      /\ InState(b)' = InState(b) \cup {t} /\ t \notin InState(b)
  BY DEF InState
<1>2. IsFiniteSet(InState(a)) /\ IsFiniteSet(InState(b))
  BY TasksAreFinite DEF InState
<1>3. Cardinality(InState(a) \ {t}) = Cardinality(InState(a)) - 1
  BY <1>1, <1>2, FS_RemoveElement
<1>4. Cardinality(InState(b) \cup {t}) = Cardinality(InState(b)) + 1
  BY <1>1, <1>2, FS_AddElement
<1>5. \A c : c # a /\ c # b => InState(c)' = InState(c)
  BY DEF InState
<1>. QED  BY <1>1, <1>3, <1>4, <1>5

\* The bytes of a task that leaves the queue are part of the sum: the budget
\* does not wrap.
LEMMA BytesLeave ==
  ASSUME TypeOK, AccountsBalance, NEW t \in InState("queued"), request' = request,
         InState("queued")' = InState("queued") \ {t}, ReleaseBudget(t)
  PROVE  /\ BytesBalance'
         /\ queued_bytes' \in Nat /\ queued_bytes' <= queued_bytes
<1> DEFINE Q == InState("queued")
<1>1. Q \in SUBSET TaskId /\ IsFiniteSet(Q) /\ IsFiniteSet(Q \ {t}) /\ t \in TaskId
  BY TasksAreFinite DEF InState
<1>2. NatOn(EstimatedBytes, Q) /\ NatOn(EstimatedBytes, Q \ {t})
  BY <1>1, BytesAreNat
<1>3. EstimatedBytes' = EstimatedBytes
  BY DEF EstimatedBytes
<1>4. queued_bytes = SumOver(EstimatedBytes, Q)
  BY BytesAreSummed DEF AccountsBalance
<1>5. SumOver(EstimatedBytes, Q) = EstimatedBytes[t] + SumOver(EstimatedBytes, Q \ {t})
  BY <1>1, <1>2, SumOverRemove
<1>6. SumOver(EstimatedBytes, Q \ {t}) \in Nat /\ EstimatedBytes[t] \in Nat
  BY <1>1, <1>2, SumOverType DEF NatOn
<1>7. queued_bytes' = queued_bytes - EstimatedBytes[t]
  BY <1>1 DEF ReleaseBudget, EstimatedBytes
<1>8. queued_bytes' = SumOver(EstimatedBytes, Q \ {t})
  BY <1>4, <1>5, <1>6, <1>7
<1>9. BytesBalance'
  BY <1>3, <1>8, BytesAreSummed
<1> HIDE DEF Q
<1>10. queued_bytes' \in Nat /\ queued_bytes' <= queued_bytes
  BY <1>4, <1>5, <1>6, <1>8
<1>. QED  BY <1>9, <1>10

\* Steps that touch neither the tasks nor the counters.
LEMMA AccountsSame ==
  ASSUME AccountsBalance,
         UNCHANGED <<state, request, queued_tasks, queued_bytes, active_workers, totals>>
  PROVE  AccountsBalance'
<1>1. \A s : InState(s)' = InState(s)
  BY DEF InState
<1>2. EstimatedBytes' = EstimatedBytes
  BY DEF EstimatedBytes
<1>3. BytesBalance'
  BY <1>1, <1>2, BytesAreSummed DEF AccountsBalance
<1>. QED  BY <1>1, <1>3 DEF AccountsBalance

\* submit counts the task and its bytes once.
LEMMA AdmitBalances ==
  ASSUME TypeOK, HolderInv, AccountsBalance, NEW r \in Request, Admit(r),
         active_workers' = active_workers
  PROVE  AccountsBalance' /\ queued_bytes' \in 0..maximum_queued_bytes
<1> DEFINE n == next_task_id
           Q == InState("queued")
<1>1. /\ n \in TaskId /\ state[n] = "none"
      /\ state' = [state EXCEPT ![n] = "queued"] /\ request' = [request EXCEPT ![n] = r]
      /\ queued_tasks' = queued_tasks + 1 /\ queued_bytes' = queued_bytes + r.estimated_bytes
      /\ totals' = [totals EXCEPT !.submitted = @ + 1]
      /\ r.estimated_bytes <= maximum_queued_bytes - queued_bytes
  <2>1. n \in TaskId /\ n \in Nat /\ n >= next_task_id
    BY TaskIdsAreNumbers DEF Admit
  <2>. QED  BY <2>1 DEF Admit, HasCapacity, HolderInv, IdsAreFresh
<1>2. state'[n] = "queued" /\ \A u \in TaskId : u # n => state'[u] = state[u]
  BY <1>1 DEF TypeOK
<1> HIDE DEF n
<1>3. /\ InState("queued")' = Q \cup {n} /\ n \notin Q
      /\ Cardinality(InState("queued")') = Cardinality(Q) + 1
      /\ InState("running")' = InState("running") /\ InState("cancelled")' = InState("cancelled")
  BY <1>1, <1>2, OneMoves
<1>4. r.estimated_bytes \in Nat /\ maximum_queued_bytes \in Nat /\ queued_bytes \in 0..maximum_queued_bytes
  BY SchedulerAssumption DEF TypeOK, SchedulerAssumption
<1>5. queued_bytes' \in 0..maximum_queued_bytes
  BY <1>1, <1>4
<1>6. BytesBalance'
  <2>1. IsFiniteSet(Q) /\ Q \in SUBSET TaskId
    BY TasksAreFinite DEF InState
  <2>2. NatOn(EstimatedBytes, Q)
    BY <2>1, BytesAreNat
  <2>3. EstimatedBytes'[n] = r.estimated_bytes
    BY <1>1 DEF EstimatedBytes, TypeOK
  <2>4. AgreeOn(EstimatedBytes, EstimatedBytes', Q)
    BY <1>1, <1>3, <2>1 DEF AgreeOn, EstimatedBytes, TypeOK
  <2>5. NatOn(EstimatedBytes', Q \cup {n})
    BY <1>4, <2>2, <2>3, <2>4 DEF NatOn, AgreeOn
  <2>6. SumOver(EstimatedBytes, Q) = SumOver(EstimatedBytes', Q)
    BY <2>1, <2>2, <2>4, SumOverAgree
  <2>7. SumOver(EstimatedBytes', Q \cup {n}) = EstimatedBytes'[n] + SumOver(EstimatedBytes', Q)
    BY <1>3, <2>1, <2>5, SumOverAdd
  <2>8. queued_bytes = SumOver(EstimatedBytes, Q)
    BY BytesAreSummed DEF AccountsBalance
  <2>9. queued_bytes' = SumOver(EstimatedBytes', Q \cup {n})
    BY <1>1, <1>4, <2>3, <2>6, <2>7, <2>8
  <2>. QED  BY <1>3, <2>9, BytesAreSummed
<1>7. /\ totals'.submitted = totals.submitted + 1 /\ totals'.succeeded = totals.succeeded
      /\ totals'.failed = totals.failed /\ totals'.cancelled = totals.cancelled
  BY <1>1 DEF TypeOK
<1>8. /\ totals.submitted \in Nat /\ totals.succeeded \in Nat /\ totals.failed \in Nat
      /\ totals.cancelled \in Nat /\ queued_tasks \in Nat /\ active_workers \in Nat
  BY DEF TypeOK
<1>9. totals'.submitted = totals'.succeeded + totals'.failed + totals'.cancelled
                          + queued_tasks' + active_workers'
  BY <1>1, <1>7, <1>8 DEF AccountsBalance
<1>. QED  BY <1>1, <1>3, <1>5, <1>6, <1>7, <1>9 DEF AccountsBalance

\* cancel gives back what submit took.
LEMMA CancelQueuedBalances ==
  ASSUME TypeOK, AccountsBalance, NEW t \in TaskId, CancelQueued(t)
  PROVE  AccountsBalance' /\ queued_bytes' \in 0..maximum_queued_bytes
<1>1. /\ state[t] = "queued" /\ state'[t] = "cancelled"
      /\ \A u \in TaskId : u # t => state'[u] = state[u]
      /\ request' = request /\ ReleaseBudget(t) /\ active_workers' = active_workers
      /\ totals' = [totals EXCEPT !.cancelled = @ + 1]
      /\ queued_tasks' = queued_tasks - 1
  BY DEF CancelQueued, ReleaseBudget, TypeOK
<1>2. /\ InState("queued")' = InState("queued") \ {t} /\ t \in InState("queued")
      /\ Cardinality(InState("queued")') = Cardinality(InState("queued")) - 1
      /\ Cardinality(InState("cancelled")') = Cardinality(InState("cancelled")) + 1
      /\ InState("running")' = InState("running")
  BY <1>1, OneMoves
<1>3. BytesBalance' /\ queued_bytes' \in Nat /\ queued_bytes' <= queued_bytes
  BY <1>1, <1>2, BytesLeave
<1>4. queued_bytes' \in 0..maximum_queued_bytes
  BY <1>3, SchedulerAssumption DEF TypeOK, SchedulerAssumption
<1>5. /\ totals'.submitted = totals.submitted /\ totals'.succeeded = totals.succeeded
      /\ totals'.failed = totals.failed /\ totals'.cancelled = totals.cancelled + 1
  BY <1>1 DEF TypeOK
<1>6. /\ totals.submitted \in Nat /\ totals.succeeded \in Nat /\ totals.failed \in Nat
      /\ totals.cancelled \in Nat /\ queued_tasks \in Nat /\ active_workers \in Nat
  BY DEF TypeOK
<1>7. totals'.submitted = totals'.succeeded + totals'.failed + totals'.cancelled
                          + queued_tasks' + active_workers'
  BY <1>1, <1>5, <1>6 DEF AccountsBalance
<1>. QED  BY <1>1, <1>2, <1>3, <1>4, <1>5, <1>7 DEF AccountsBalance

\* So does pop, for a worker that becomes active.
LEMMA PopBalances ==
  ASSUME TypeOK, HolderInv, AccountsBalance, NEW w \in Worker, WorkerPop(w)
  PROVE  AccountsBalance' /\ queued_bytes' \in 0..maximum_queued_bytes
<1>1. PICK l \in Lane : /\ 1 \in DOMAIN queues[l] /\ ReleaseBudget(queues[l][1])
                        /\ state' = [state EXCEPT ![queues[l][1]] = "running"]
  BY PopTakesFront
<1> DEFINE t == queues[l][1]
<1>2. t \in TaskId /\ state[t] = "queued"
  BY <1>1, InDequeIsQueued
<1>3. /\ state'[t] = "running" /\ \A u \in TaskId : u # t => state'[u] = state[u]
      /\ request' = request /\ ReleaseBudget(t) /\ active_workers' = active_workers + 1
      /\ totals' = [totals EXCEPT !.started = @ + 1]
      /\ queued_tasks' = queued_tasks - 1
  BY <1>1, <1>2 DEF WorkerPop, TypeOK, ReleaseBudget
<1> HIDE DEF t
<1>4. /\ InState("queued")' = InState("queued") \ {t} /\ t \in InState("queued")
      /\ Cardinality(InState("queued")') = Cardinality(InState("queued")) - 1
      /\ Cardinality(InState("running")') = Cardinality(InState("running")) + 1
      /\ InState("cancelled")' = InState("cancelled")
  BY <1>2, <1>3, OneMoves
<1>5. BytesBalance' /\ queued_bytes' \in Nat /\ queued_bytes' <= queued_bytes
  BY <1>3, <1>4, BytesLeave
<1>6. queued_bytes' \in 0..maximum_queued_bytes
  BY <1>5, SchedulerAssumption DEF TypeOK, SchedulerAssumption
<1>7. /\ totals'.submitted = totals.submitted /\ totals'.succeeded = totals.succeeded
      /\ totals'.failed = totals.failed /\ totals'.cancelled = totals.cancelled
  BY <1>3 DEF TypeOK
<1>8. /\ totals.submitted \in Nat /\ totals.succeeded \in Nat /\ totals.failed \in Nat
      /\ totals.cancelled \in Nat /\ queued_tasks \in Nat /\ active_workers \in Nat
  BY DEF TypeOK
<1>9. totals'.submitted = totals'.succeeded + totals'.failed + totals'.cancelled
                          + queued_tasks' + active_workers'
  BY <1>3, <1>7, <1>8 DEF AccountsBalance
<1>. QED  BY <1>3, <1>4, <1>5, <1>6, <1>7, <1>9 DEF AccountsBalance

\* A task that ends is counted under its final state.
LEMMA CompleteBalances ==
  ASSUME TypeOK, HolderInv, AccountsBalance, NEW w \in Worker, WorkerComplete(w)
  PROVE  AccountsBalance'
<1> DEFINE t == wtask[w]
           f == final_state[w]
<1>1. t \in TaskId /\ state[t] = "running" /\ f \in Terminal
  BY DEF WorkerComplete, Busy, HolderInv, OneHolder, WorkersHoldRunning, TypeOK
<1>2. /\ state'[t] = f /\ \A u \in TaskId : u # t => state'[u] = state[u]
      /\ active_workers' = active_workers - 1
      /\ totals' = [totals EXCEPT ![f] = @ + 1]
      /\ UNCHANGED <<request, queued_tasks, queued_bytes>>
  BY <1>1 DEF WorkerComplete, TypeOK
<1> HIDE DEF t, f
<1>3. /\ totals.submitted \in Nat /\ totals.succeeded \in Nat /\ totals.failed \in Nat
      /\ totals.cancelled \in Nat /\ queued_tasks \in Nat /\ active_workers \in Nat
  BY DEF TypeOK
<1>4. /\ InState("queued")' = InState("queued")
      /\ Cardinality(InState("running")') = Cardinality(InState("running")) - 1
      /\ Cardinality(InState("cancelled")') =
           IF f = "cancelled" THEN Cardinality(InState("cancelled")) + 1
                              ELSE Cardinality(InState("cancelled"))
  <2>1. CASE f = "cancelled"
    BY <1>1, <1>2, <2>1, OneMoves
  <2>2. CASE f = "failed"
    BY <1>1, <1>2, <2>2, OneMoves
  <2>3. CASE f = "succeeded"
    BY <1>1, <1>2, <2>3, OneMoves
  <2>. QED  BY <1>1, <2>1, <2>2, <2>3 DEF Terminal
<1>5. BytesBalance'
  <2>1. EstimatedBytes' = EstimatedBytes
    BY <1>2 DEF EstimatedBytes
  <2>. QED  BY <1>2, <1>4, <2>1, BytesAreSummed DEF AccountsBalance
<1>6. /\ totals'.submitted = totals.submitted
      /\ totals'.cancelled = IF f = "cancelled" THEN totals.cancelled + 1 ELSE totals.cancelled
      /\ totals'.succeeded + totals'.failed + totals'.cancelled =
           totals.succeeded + totals.failed + totals.cancelled + 1
  <2>1. CASE f = "cancelled"
    BY <1>2, <1>3, <2>1 DEF TypeOK
  <2>2. CASE f = "failed"
    BY <1>2, <1>3, <2>2 DEF TypeOK
  <2>3. CASE f = "succeeded"
    BY <1>2, <1>3, <2>3 DEF TypeOK
  <2>. QED  BY <1>1, <2>1, <2>2, <2>3 DEF Terminal
<1>7. totals'.submitted = totals'.succeeded + totals'.failed + totals'.cancelled
                          + queued_tasks' + active_workers'
  BY <1>2, <1>3, <1>6 DEF AccountsBalance
<1>. QED  BY <1>2, <1>4, <1>5, <1>6, <1>7 DEF AccountsBalance

\* shutdown counts by the lengths of the deques what it cancels.
LEMMA CloseBalances ==
  ASSUME TypeOK, HolderInv, AccountsBalance, NEW thread, NEW mode, Close(thread, mode)
  PROVE  AccountsBalance' /\ queued_bytes' \in 0..maximum_queued_bytes
<1>1. UNCHANGED <<request, active_workers>>
  BY DEF Close
<1>2. CASE mode # "kCancel"
  <2>1. UNCHANGED <<state, request, queued_tasks, queued_bytes, active_workers, totals>>
    BY <1>1, <1>2 DEF Close
  <2>. QED  BY <2>1, AccountsSame DEF TypeOK
<1>3. CASE mode = "kCancel"
  <2> DEFINE Q == InState("queued")
             X == InState("cancelled")
  <2>1. /\ \A t \in TaskId : state'[t] = IF state[t] = "queued" THEN "cancelled" ELSE state[t]
        /\ queued_tasks' = 0 /\ queued_bytes' = 0
        /\ totals' = [totals EXCEPT !.cancelled = @ + Len(queues[0]) + Len(queues[1]) + Len(queues[2])]
    BY <1>3, CancelAll
  <2>2. /\ InState("queued")' = {} /\ InState("running")' = InState("running")
        /\ InState("cancelled")' = X \cup Q /\ X \cap Q = {}
    BY <2>1 DEF InState
  <2>3. Cardinality(InState("cancelled")') = Cardinality(X) + Cardinality(Q)
    <3>1. IsFiniteSet(X) /\ IsFiniteSet(Q)
      BY TasksAreFinite DEF InState
    <3>2. /\ Cardinality(X) \in Nat /\ Cardinality(Q) \in Nat
          /\ Cardinality(X \cup Q) = Cardinality(X) + Cardinality(Q) - Cardinality(X \cap Q)
      BY <3>1, FS_Union, FS_CardinalityType
    <3>3. Cardinality({}) = 0
      BY FS_EmptySet
    <3>4. Cardinality(X \cup Q) = Cardinality(X) + Cardinality(Q) - 0
      BY <2>2, <3>2, <3>3
    <3> HIDE DEF X, Q
    <3>5. Cardinality(X \cup Q) = Cardinality(X) + Cardinality(Q)
      BY <3>2, <3>4
    <3>. QED  BY <2>2, <3>5, Zenon
  <2>4. BytesBalance'
    BY <2>1, <2>2, BytesAreSummed, SumOverEmpty
  <2> DEFINE len(m) == Len(queues[m])
  <2>5. len(0) \in Nat /\ len(1) \in Nat /\ len(2) \in Nat
    BY DEF TypeOK, Lane, Background, Normal, Urgent
  <2>6. /\ totals.submitted \in Nat /\ totals.succeeded \in Nat /\ totals.failed \in Nat
        /\ totals.cancelled \in Nat /\ active_workers \in Nat
    BY DEF TypeOK
  <2>7. queued_tasks = len(0) + len(1) + len(2)
    BY DEF HolderInv, LanesAreCounted
  <2>8. totals'.cancelled = totals.cancelled + len(0) + len(1) + len(2)
    BY <2>1 DEF TypeOK
  <2>9. /\ totals'.submitted = totals.submitted /\ totals'.succeeded = totals.succeeded
        /\ totals'.failed = totals.failed
    BY <2>1 DEF TypeOK
  <2> HIDE DEF len, Q, X
  <2>10. totals'.cancelled = totals.cancelled + queued_tasks
    BY <2>5, <2>6, <2>7, <2>8
  <2>11. queued_tasks \in Nat
    BY <2>5, <2>7
  <2>12. totals'.submitted = totals'.succeeded + totals'.failed + totals'.cancelled
                             + queued_tasks' + active_workers'
    BY <1>1, <2>1, <2>6, <2>9, <2>10, <2>11 DEF AccountsBalance
  <2>13. queued_tasks' = Cardinality(InState("queued")') /\ queued_bytes' \in 0..maximum_queued_bytes
    <3>1. Cardinality({}) = 0
      BY FS_EmptySet
    <3>2. Cardinality(InState("queued")') = 0
      BY <2>2, <3>1, Zenon
    <3>. QED  BY <2>1, <3>2, SchedulerAssumption DEF SchedulerAssumption
  <2>14. totals'.cancelled = Cardinality(InState("cancelled")')
    BY <2>3, <2>10 DEF AccountsBalance, Q, X
  <2>. QED  BY <1>1, <2>2, <2>4, <2>12, <2>13, <2>14 DEF AccountsBalance
<1>. QED  BY <1>2, <1>3

-----------------------------------------------------------------------------
(* Types.  The counters are numbers because they count.                     *)

\* Balanced counters are sizes of sets.
LEMMA CountersAreNumbers ==
  ASSUME AccountsBalance'
  PROVE  queued_tasks' \in Nat /\ active_workers' \in Nat
<1>1. InState("queued")' \in SUBSET TaskId /\ InState("running")' \in SUBSET TaskId
  BY DEF InState
<1>. QED  BY <1>1, TasksAreFinite DEF AccountsBalance

\* A notification leaves every thread at a place it can be.
LEMMA WakingIsTyped ==
  ASSUME TypeOK
  PROVE  /\ WakeWorkers(wpc) \in [Worker -> {"ready", "waiting", "exited"} \cup Busy]
         /\ \A idle \in BOOLEAN : WakeIdlersIf(idle, WakeSubmitters(cpc)) \in
              [Client -> {"idle", "blocked", "woken", "idle_wait", "idle_woken", "joining"}]
         /\ \A idle \in BOOLEAN : WakeSubmitters(WakeIdlersIf(idle, cpc)) \in
              [Client -> {"idle", "blocked", "woken", "idle_wait", "idle_woken", "joining"}]
         /\ WakeSubmitters(cpc) \in
              [Client -> {"idle", "blocked", "woken", "idle_wait", "idle_woken", "joining"}]
<1>1. WakeWorkers(wpc) \in [Worker -> {"ready", "waiting", "exited"} \cup Busy]
  BY DEF TypeOK, WakeWorkers
<1>2. WakeSubmitters(cpc) \in
        [Client -> {"idle", "blocked", "woken", "idle_wait", "idle_woken", "joining"}]
  BY DEF TypeOK, WakeSubmitters
<1>3. ASSUME NEW idle \in BOOLEAN,
             NEW pc \in [Client -> {"idle", "blocked", "woken", "idle_wait", "idle_woken", "joining"}]
      PROVE  WakeIdlersIf(idle, pc) \in
               [Client -> {"idle", "blocked", "woken", "idle_wait", "idle_woken", "joining"}]
  BY DEF WakeIdlersIf
<1>4. ASSUME NEW idle \in BOOLEAN
      PROVE  WakeSubmitters(WakeIdlersIf(idle, cpc)) \in
               [Client -> {"idle", "blocked", "woken", "idle_wait", "idle_woken", "joining"}]
  <2>1. WakeIdlersIf(idle, cpc) \in
          [Client -> {"idle", "blocked", "woken", "idle_wait", "idle_woken", "joining"}]
    BY <1>3 DEF TypeOK
  <2>. QED  BY <2>1 DEF WakeSubmitters
<1>. QED  BY <1>1, <1>2, <1>3, <1>4

\* What submit writes has the right type.
LEMMA AdmitIsTyped ==
  ASSUME TypeOK, NEW r \in Request, Admit(r)
  PROVE  /\ state' \in [TaskId -> TaskState] /\ request' \in [TaskId -> Request]
         /\ cancellation_requested' \in [TaskId -> BOOLEAN]
         /\ queues' \in [Lane -> Seq(TaskId)] /\ identities' \in [Key -> TaskId \cup {NoTask}]
         /\ totals' \in [submitted : Nat, started : Nat, succeeded : Nat, failed : Nat, cancelled : Nat]
         /\ next_task_id' \in 1..(MaxTasks + 1)
         /\ wpc' \in [Worker -> {"ready", "waiting", "exited"} \cup Busy]
         /\ wtask' \in [Worker -> TaskId \cup {NoTask}] /\ final_state' \in [Worker -> Terminal]
<1>1. r.priority \in Lane /\ next_task_id \in TaskId /\ MaxTasks \in Nat
  BY SchedulerAssumption DEF Admit, SchedulerAssumption
<1>2. queues' \in [Lane -> Seq(TaskId)]
  <2>1. Append(queues[r.priority], next_task_id) \in Seq(TaskId)
    BY <1>1 DEF TypeOK
  <2>. QED  BY <1>1, <2>1 DEF Admit, TypeOK, PriorityLane
<1>3. next_task_id' \in 1..(MaxTasks + 1)
  BY <1>1 DEF Admit, TaskId
<1>4. wpc' \in [Worker -> {"ready", "waiting", "exited"} \cup Busy]
  BY DEF Admit, NotifyOneWorker, TypeOK
<1>5. totals' \in [submitted : Nat, started : Nat, succeeded : Nat, failed : Nat, cancelled : Nat]
  <2>1. totals \in [submitted : Nat, started : Nat, succeeded : Nat, failed : Nat, cancelled : Nat]
    BY DEF TypeOK
  <2>2. totals' = [totals EXCEPT !.submitted = @ + 1]
    BY DEF Admit
  <2>. QED  BY <2>1, <2>2
<1>6. /\ state' \in [TaskId -> TaskState] /\ request' \in [TaskId -> Request]
      /\ identities' \in [Key -> TaskId \cup {NoTask}]
  BY <1>1 DEF Admit, TypeOK, TaskState
<1>. QED  BY <1>2, <1>3, <1>4, <1>5, <1>6 DEF Admit, TypeOK

\* Ids do not run back.
LEMMA OutOfMemoryIsTyped ==
  ASSUME TypeOK, NEW r \in Request, AdmitOutOfMemory(r)
  PROVE  next_task_id' \in 1..(MaxTasks + 1) /\ next_task_id' >= next_task_id
BY SchedulerAssumption DEF AdmitOutOfMemory, TaskId, SchedulerAssumption

\* erase_task_locked leaves a table.
LEMMA EraseIsTyped ==
  ASSUME TypeOK, NEW t
  PROVE  Erase(identities, t) \in [Key -> TaskId \cup {NoTask}]
BY DEF TypeOK, Erase

\* What shutdown writes has the right type.
LEMMA CloseIsTyped ==
  ASSUME TypeOK, NEW thread \in Worker \cup Client, NEW mode, Close(thread, mode)
  PROVE  /\ state' \in [TaskId -> TaskState] /\ request' \in [TaskId -> Request]
         /\ cancellation_requested' \in [TaskId -> BOOLEAN]
         /\ queues' \in [Lane -> Seq(TaskId)] /\ identities' \in [Key -> TaskId \cup {NoTask}]
         /\ accepting' \in BOOLEAN
         /\ totals' \in [submitted : Nat, started : Nat, succeeded : Nat, failed : Nat, cancelled : Nat]
         /\ next_task_id' \in 1..(MaxTasks + 1)
         /\ urgent_burst' \in Nat /\ normal_burst' \in Nat
         /\ shutdown_owner' \in Worker \cup Client \cup {NoThread}
         /\ joined' \in BOOLEAN /\ detached' \subseteq Worker
         /\ wtask' \in [Worker -> TaskId \cup {NoTask}] /\ final_state' \in [Worker -> Terminal]
         /\ creq' \in [Client -> Request]
<1>1. /\ accepting' = FALSE /\ shutdown_owner' = thread
      /\ UNCHANGED <<request, next_task_id, burstVars, joined, detached, wtask, final_state, creq>>
  BY DEF Close
<1>2. /\ state' \in [TaskId -> TaskState] /\ cancellation_requested' \in [TaskId -> BOOLEAN]
      /\ queues' \in [Lane -> Seq(TaskId)] /\ identities' \in [Key -> TaskId \cup {NoTask}]
      /\ totals' \in [submitted : Nat, started : Nat, succeeded : Nat, failed : Nat, cancelled : Nat]
  <2>1. CASE mode # "kCancel"
    BY <2>1 DEF Close, TypeOK
  <2>2. CASE mode = "kCancel"
    <3>1. state' \in [TaskId -> TaskState]
      <4>1. state' = [t \in TaskId |-> IF InQueue(t) THEN "cancelled" ELSE state[t]]
        BY <2>2 DEF Close, InQueue
      <4>. QED  BY <4>1 DEF TypeOK, TaskState
    <3>2. cancellation_requested' \in [TaskId -> BOOLEAN]
      <4>1. cancellation_requested' = [t \in TaskId |->
              cancellation_requested[t] \/ \E k \in Key : identities[k] = t]
        BY <2>2 DEF Close
      <4>. QED  BY <4>1
    <3>3. identities' \in [Key -> TaskId \cup {NoTask}]
      <4>1. identities' = [k \in Key |-> IF InQueue(identities[k]) THEN NoTask ELSE identities[k]]
        BY <2>2 DEF Close, InQueue
      <4>. QED  BY <4>1 DEF TypeOK
    <3>4. queues' \in [Lane -> Seq(TaskId)]
      <4>1. queues' = [l \in Lane |-> <<>>] /\ <<>> \in Seq(TaskId)
        BY <2>2 DEF Close
      <4>. QED  BY <4>1
    <3>5. totals.cancelled + Len(queues[0]) + Len(queues[1]) + Len(queues[2]) \in Nat
      BY DEF TypeOK, Lane, Background, Normal, Urgent
    <3>6. totals' \in [submitted : Nat, started : Nat, succeeded : Nat, failed : Nat, cancelled : Nat]
      BY <2>2, <3>5 DEF Close, TypeOK
    <3>. QED  BY <3>1, <3>2, <3>3, <3>4, <3>6
  <2>. QED  BY <2>1, <2>2
<1>. QED  BY <1>1, <1>2 DEF TypeOK, burstVars

-----------------------------------------------------------------------------
(* Wake-ups and the order of shutdown: what kinds of steps keep them.       *)

\* Sleepers on queue_space stay asleep while the budgets only fill up.
LEMMA SubmittersStay ==
  ASSUME TypeOK, SleepingSubmitterHasNoCapacity, accepting' = accepting,
         queued_tasks' \in Nat, queued_tasks' >= queued_tasks,
         queued_bytes' \in Nat, queued_bytes' >= queued_bytes,
         \A c \in Client : cpc'[c] = "blocked" => cpc[c] = "blocked" /\ creq'[c] = creq[c]
  PROVE  SleepingSubmitterHasNoCapacity'
<1> SUFFICES ASSUME NEW c \in Client, cpc'[c] = "blocked"
             PROVE  accepting' /\ ~HasCapacity(creq[c])'
  BY DEF SleepingSubmitterHasNoCapacity
<1>1. accepting /\ ~HasCapacity(creq[c]) /\ creq'[c] = creq[c]
  BY DEF SleepingSubmitterHasNoCapacity
<1>2. /\ creq[c].estimated_bytes \in Nat /\ queued_bytes \in Nat /\ queued_tasks \in Nat
      /\ maximum_queued_bytes \in Nat /\ maximum_queued_tasks \in Nat
  BY SchedulerAssumption DEF TypeOK, SchedulerAssumption
<1>. QED  BY <1>1, <1>2 DEF HasCapacity

\* Sleepers on idle stay asleep while there is work, or nothing changes.
LEMMA IdlersStay ==
  ASSUME SleepingIdlerHasWork,
         \/ ~Idle(queued_tasks', active_workers')
         \/ /\ UNCHANGED <<queued_tasks, active_workers>>
            /\ \A c \in Client : cpc'[c] = "idle_wait" => cpc[c] = "idle_wait"
  PROVE  SleepingIdlerHasWork'
BY DEF SleepingIdlerHasWork, Idle

\* Workers awake or on their way, counted.
ReadyWorkers == {w \in Worker : wpc[w] = "ready"}

\* Workers are finitely many.
LEMMA ReadyWorkersAreCounted ==
  /\ IsFiniteSet(ReadyWorkers) /\ Cardinality(ReadyWorkers) \in Nat
  /\ IsFiniteSet(ReadyWorkers') /\ Cardinality(ReadyWorkers') \in Nat
BY ThreadsAssumption, FS_Subset, FS_CardinalityType DEF ReadyWorkers, ThreadsAssumption

\* notify_one stays enough while the queue only shrinks and no worker that was
\* on its way turns back.
LEMMA WorkersStay ==
  ASSUME TypeOK, WorkConserving, accepting' = accepting,
         queued_tasks' \in Nat, queued_tasks' <= queued_tasks,
         \A w \in Worker : /\ wpc'[w] = "waiting" => wpc[w] = "waiting"
                           /\ wpc[w] = "ready" => wpc'[w] = "ready"
  PROVE  WorkConserving'
<1>1. ReadyWorkers \in SUBSET ReadyWorkers'
  BY DEF ReadyWorkers
<1>2. Cardinality(ReadyWorkers) <= Cardinality(ReadyWorkers')
  BY <1>1, ReadyWorkersAreCounted, FS_Subset
<1> SUFFICES ASSUME \E w \in Worker : wpc'[w] = "waiting"
             PROVE  accepting' /\ queued_tasks' <= Cardinality(ReadyWorkers')
  BY DEF WorkConserving, ReadyWorkers
<1>3. accepting /\ queued_tasks <= Cardinality(ReadyWorkers)
  BY DEF WorkConserving, ReadyWorkers
<1>4. queued_tasks \in Nat
  BY DEF TypeOK
<1>. QED  BY <1>2, <1>3, <1>4, ReadyWorkersAreCounted

\* Steps that let no worker leave and keep a closed scheduler closed and empty.
LEMMA StopStays ==
  ASSUME StopIsOrdered, accepting' => accepting, detached' = detached, joined' = joined,
         ~accepting /\ queued_tasks = 0 => queued_tasks' = 0,
         \A w \in Worker : /\ wpc'[w] = "exited" <=> wpc[w] = "exited"
                           /\ wpc'[w] = "joining" => wpc[w] = "joining" \/ ~accepting',
         \A c \in Client : cpc'[c] = "joining" => cpc[c] = "joining" \/ ~accepting'
  PROVE  StopIsOrdered'
BY DEF StopIsOrdered

-----------------------------------------------------------------------------
(* Steps outside the queue: a client or a worker moves, the tasks stay.     *)

\* Steps that move no task keep the tables and the accounts.
LEMMA QuietStep ==
  ASSUME IInv, BusyKept, next_task_id' \in Nat, next_task_id' >= next_task_id,
         UNCHANGED <<taskVars, queues, identities, queued_tasks, queued_bytes,
                     active_workers, totals, wtask>>
  PROVE  HolderInv' /\ AccountsBalance'
<1>1. HolderInv'
  BY HolderSame DEF IInv
<1>2. AccountsBalance'
  BY AccountsSame DEF IInv, taskVars
<1>. QED  BY <1>1, <1>2

\* The places a client and a worker can be.
ClientPlace == {"idle", "blocked", "woken", "idle_wait", "idle_woken", "joining"}
WorkerPlace == {"ready", "waiting", "exited"} \cup Busy

\* A client moves and falls asleep only with something to wait for.
LEMMA ClientMoves ==
  ASSUME IInv, cpc' \in [Client -> ClientPlace], creq' \in [Client -> Request],
         UNCHANGED <<taskVars, queueVars, active_workers, accepting, totals, burstVars,
                     stopVars, workerVars>>,
         \A c \in Client : /\ cpc'[c] = "joining" => cpc[c] = "joining"
                           /\ cpc'[c] = "blocked" =>
                                \/ cpc[c] = "blocked" /\ creq'[c] = creq[c]
                                \/ accepting /\ ~HasCapacity(creq'[c])
                           /\ cpc'[c] = "idle_wait" =>
                                \/ cpc[c] = "idle_wait"
                                \/ ~Idle(queued_tasks, active_workers)
  PROVE  IInv'
<1>1. TypeOK'
  BY DEF IInv, TypeOK, ClientPlace, taskVars, queueVars, burstVars, stopVars, workerVars
<1>2. HolderInv' /\ AccountsBalance'
  <2>1. next_task_id \in Nat
    BY SchedulerAssumption DEF IInv, TypeOK, SchedulerAssumption
  <2>. QED  BY <2>1, QuietStep DEF taskVars, queueVars, workerVars, BusyKept
<1>3. NoLostWakeup'
  <2>1. SleepingSubmitterHasNoCapacity'
    BY DEF IInv, NoLostWakeup, SleepingSubmitterHasNoCapacity, HasCapacity, queueVars
  <2>2. SleepingIdlerHasWork'
    BY DEF IInv, NoLostWakeup, SleepingIdlerHasWork, Idle, queueVars
  <2>3. WorkConserving'
    BY DEF IInv, NoLostWakeup, WorkConserving, queueVars, workerVars
  <2>. QED  BY <2>1, <2>2, <2>3 DEF NoLostWakeup
<1>4. StopIsOrdered'
  BY DEF IInv, StopIsOrdered, queueVars, stopVars, workerVars
<1>. QED  BY <1>1, <1>2, <1>3, <1>4 DEF IInv

\* A worker moves between its jobs or inside one.
LEMMA WorkerMoves ==
  ASSUME IInv, BusyKept, wpc' \in [Worker -> WorkerPlace], final_state' \in [Worker -> Terminal],
         shutdown_owner' \in Worker \cup Client \cup {NoThread}, joined' \in BOOLEAN,
         detached' \subseteq Worker,
         UNCHANGED <<taskVars, queueVars, active_workers, accepting, totals, burstVars,
                     wtask, clientVars>>,
         WorkConserving', StopIsOrdered'
  PROVE  IInv'
<1>1. TypeOK'
  BY DEF IInv, TypeOK, WorkerPlace, taskVars, queueVars, burstVars, clientVars
<1>2. HolderInv' /\ AccountsBalance'
  <2>1. next_task_id \in Nat
    BY SchedulerAssumption DEF IInv, TypeOK, SchedulerAssumption
  <2>. QED  BY <2>1, QuietStep DEF taskVars, queueVars
<1>3. SleepingSubmitterHasNoCapacity'
  BY DEF IInv, NoLostWakeup, SleepingSubmitterHasNoCapacity, HasCapacity, queueVars, clientVars
<1>4. SleepingIdlerHasWork'
  BY DEF IInv, NoLostWakeup, SleepingIdlerHasWork, Idle, queueVars, clientVars
<1>. QED  BY <1>1, <1>2, <1>3, <1>4 DEF IInv, NoLostWakeup

\* submit_for that waits or gives up, wait_idle.
LEMMA ClientCallsKeep ==
  ASSUME IInv, NEW c \in Client,
         \/ \E r \in Request : SubmitFor(c, r)
         \/ SubmitTimeout(c) \/ WaitIdle(c) \/ IdleTimeout(c) \/ IdleResume(c)
  PROVE  IInv'
<1>t. cpc \in [Client -> ClientPlace] /\ creq \in [Client -> Request] /\ NoRequest \in Request
  BY SchedulerAssumption DEF IInv, TypeOK, ClientPlace, NoRequest, SchedulerAssumption
<1>1. ASSUME NEW r \in Request, SubmitFor(c, r) PROVE IInv'
  BY <1>1, <1>t, ClientMoves DEF SubmitFor, ClientPlace
<1>2. ASSUME SubmitTimeout(c) PROVE IInv'
  BY <1>2, <1>t, ClientMoves DEF SubmitTimeout, ClientPlace
<1>3. ASSUME WaitIdle(c) PROVE IInv'
  BY <1>3, <1>t, ClientMoves DEF WaitIdle, ClientPlace
<1>4. ASSUME IdleTimeout(c) PROVE IInv'
  BY <1>4, <1>t, ClientMoves DEF IdleTimeout, ClientPlace
<1>5. ASSUME IdleResume(c) PROVE IInv'
  BY <1>5, <1>t, ClientMoves DEF IdleResume, ClientPlace
<1>. QED  BY <1>1, <1>2, <1>3, <1>4, <1>5

\* A worker that finds nothing to do, and a job that returns or stops the
\* scheduler.
LEMMA WorkerPausesKeep ==
  ASSUME IInv, NEW w \in Worker,
         \/ WorkerPark(w) \/ WorkerExit(w) \/ JobCallsShutdown(w) \/ JobShutdownJoin(w)
         \/ \E outcome \in Terminal : JobReturn(w, outcome)
  PROVE  IInv'
<1>t. /\ wpc \in [Worker -> WorkerPlace] /\ final_state \in [Worker -> Terminal] /\ joined \in BOOLEAN
      /\ shutdown_owner \in Worker \cup Client \cup {NoThread} /\ detached \subseteq Worker
      /\ queued_tasks \in Nat
  BY DEF IInv, TypeOK, WorkerPlace
<1>i. WorkConserving /\ StopIsOrdered
  BY DEF IInv, NoLostWakeup
<1>1. ASSUME WorkerPark(w) PROVE IInv'
  <2>1. WorkConserving'
    <3>1. queued_tasks' = 0 /\ accepting'
      BY <1>1 DEF WorkerPark, queueVars
    <3>. QED  BY <3>1, ReadyWorkersAreCounted DEF WorkConserving, ReadyWorkers
  <2>2. StopIsOrdered'
    BY <1>1, <1>t, <1>i DEF WorkerPark, StopIsOrdered, queueVars, stopVars, clientVars
  <2>3. BusyKept /\ wpc' \in [Worker -> WorkerPlace]
    BY <1>1, <1>t DEF WorkerPark, BusyKept, Busy, WorkerPlace
  <2>. QED  BY <1>1, <1>t, <2>1, <2>2, <2>3, WorkerMoves DEF WorkerPark, stopVars
<1>2. ASSUME WorkerExit(w) PROVE IInv'
  <2>1. WorkConserving'
    <3>1. ~accepting /\ \A v \in Worker : wpc'[v] = "waiting" => wpc[v] = "waiting"
      BY <1>2, <1>t DEF WorkerExit
    <3>. QED  BY <1>i, <3>1 DEF WorkConserving
  <2>2. StopIsOrdered'
    BY <1>2, <1>t, <1>i DEF WorkerExit, StopIsOrdered, queueVars, stopVars, clientVars
  <2>3. BusyKept /\ wpc' \in [Worker -> WorkerPlace]
    BY <1>2, <1>t DEF WorkerExit, BusyKept, Busy, WorkerPlace
  <2>. QED  BY <1>2, <1>t, <2>1, <2>2, <2>3, WorkerMoves DEF WorkerExit, stopVars
<1>3. ASSUME JobCallsShutdown(w) PROVE IInv'
  <2>1. BusyKept /\ wpc' \in [Worker -> WorkerPlace]
    BY <1>3, <1>t DEF JobCallsShutdown, BusyKept, Busy, WorkerPlace
  <2>2. WorkConserving'
    BY <1>3, <1>t, <1>i, WorkersStay DEF JobCallsShutdown, queueVars, IInv
  <2>3. StopIsOrdered'
    BY <1>3, <1>t, <1>i DEF JobCallsShutdown, StopIsOrdered, queueVars, stopVars, clientVars
  <2>. QED  BY <1>3, <1>t, <2>1, <2>2, <2>3, WorkerMoves DEF JobCallsShutdown, stopVars
<1>4. ASSUME JobShutdownJoin(w) PROVE IInv'
  <2>1. BusyKept /\ wpc' \in [Worker -> WorkerPlace]
    BY <1>4, <1>t DEF JobShutdownJoin, BusyKept, Busy, WorkerPlace
  <2>2. WorkConserving'
    BY <1>4, <1>t, <1>i, WorkersStay DEF JobShutdownJoin, queueVars, IInv
  <2>3. StopIsOrdered'
    BY <1>4, <1>t, <1>i DEF JobShutdownJoin, StopIsOrdered, queueVars, clientVars
  <2>. QED  BY <1>4, <1>t, <2>1, <2>2, <2>3, WorkerMoves DEF JobShutdownJoin
<1>5. ASSUME NEW outcome \in Terminal, JobReturn(w, outcome) PROVE IInv'
  <2>1. BusyKept /\ wpc' \in [Worker -> WorkerPlace] /\ final_state' \in [Worker -> Terminal]
    BY <1>5, <1>t DEF JobReturn, BusyKept, Busy, WorkerPlace, Terminal
  <2>2. WorkConserving'
    BY <1>5, <1>t, <1>i, WorkersStay DEF JobReturn, queueVars, IInv
  <2>3. StopIsOrdered'
    BY <1>5, <1>t, <1>i DEF JobReturn, StopIsOrdered, queueVars, stopVars, clientVars
  <2>. QED  BY <1>5, <1>t, <2>1, <2>2, <2>3, WorkerMoves DEF JobReturn, stopVars
<1>. QED  BY <1>1, <1>2, <1>3, <1>4, <1>5

\* shutdown returns to a client.
LEMMA ShutdownJoinKeeps ==
  ASSUME IInv, NEW c \in Client, ShutdownJoin(c)
  PROVE  IInv'
<1>1. TypeOK'
  BY DEF IInv, TypeOK, ShutdownJoin, taskVars, queueVars, burstVars, workerVars
<1>2. HolderInv' /\ AccountsBalance'
  <2>1. next_task_id \in Nat
    BY SchedulerAssumption DEF IInv, TypeOK, SchedulerAssumption
  <2>. QED  BY <2>1, QuietStep DEF ShutdownJoin, taskVars, queueVars, workerVars, BusyKept
<1>3. \A d \in Client : cpc'[d] \in {"blocked", "idle_wait", "joining"} => cpc'[d] = cpc[d]
  BY DEF IInv, TypeOK, ShutdownJoin
<1>4. SleepingSubmitterHasNoCapacity'
  BY <1>3 DEF IInv, NoLostWakeup, SleepingSubmitterHasNoCapacity, HasCapacity, ShutdownJoin, queueVars
<1>5. SleepingIdlerHasWork'
  BY <1>3 DEF IInv, NoLostWakeup, SleepingIdlerHasWork, Idle, ShutdownJoin, queueVars
<1>6. WorkConserving'
  BY DEF IInv, NoLostWakeup, WorkConserving, ShutdownJoin, queueVars, workerVars
<1>7. StopIsOrdered'
  BY <1>3 DEF IInv, StopIsOrdered, ShutdownJoin, queueVars, workerVars
<1>. QED  BY <1>1, <1>2, <1>4, <1>5, <1>6, <1>7 DEF IInv, NoLostWakeup

\* A thread wakes that nobody notified.
LEMMA SpuriousKeeps ==
  ASSUME IInv, SpuriousWakeup
  PROVE  IInv'
<1>1. ASSUME NEW w \in Worker, wpc[w] = "waiting", wpc' = [wpc EXCEPT ![w] = "ready"], cpc' = cpc
      PROVE  IInv'
  <2>t. /\ wpc \in [Worker -> WorkerPlace] /\ final_state \in [Worker -> Terminal] /\ joined \in BOOLEAN
        /\ shutdown_owner \in Worker \cup Client \cup {NoThread} /\ detached \subseteq Worker
        /\ queued_tasks \in Nat
    BY DEF IInv, TypeOK, WorkerPlace
  <2>1. BusyKept /\ wpc' \in [Worker -> WorkerPlace]
    BY <1>1, <2>t DEF BusyKept, Busy, WorkerPlace
  <2>2. WorkConserving'
    BY <1>1, <2>t, WorkersStay DEF SpuriousWakeup, queueVars, IInv, NoLostWakeup
  <2>3. StopIsOrdered'
    BY <1>1, <2>t DEF SpuriousWakeup, IInv, StopIsOrdered, queueVars, stopVars
  <2>. QED  BY <1>1, <2>t, <2>1, <2>2, <2>3, WorkerMoves DEF SpuriousWakeup, stopVars, clientVars
<1>2. ASSUME NEW c \in Client, cpc[c] \in {"blocked", "idle_wait"},
             cpc' = [cpc EXCEPT ![c] = IF @ = "blocked" THEN "woken" ELSE "idle_woken"], wpc' = wpc
      PROVE  IInv'
  <2>t. cpc \in [Client -> ClientPlace] /\ creq \in [Client -> Request]
    BY DEF IInv, TypeOK, ClientPlace
  <2>1. cpc' \in [Client -> ClientPlace] /\ creq' = creq
    BY <1>2, <2>t DEF ClientPlace, SpuriousWakeup
  <2>2. \A d \in Client : cpc'[d] \in {"blocked", "idle_wait", "joining"} => cpc'[d] = cpc[d]
    BY <1>2, <2>t
  <2>. QED  BY <1>2, <2>t, <2>1, <2>2, ClientMoves DEF SpuriousWakeup, workerVars
<1>. QED  BY <1>1, <1>2 DEF SpuriousWakeup

-----------------------------------------------------------------------------
(* Steps on the queue.                                                      *)

\* The end of a step on the queue, once its parts are known.
LEMMA InvParts ==
  ASSUME TypeOK', HolderInv', AccountsBalance', SleepingSubmitterHasNoCapacity',
         SleepingIdlerHasWork', WorkConserving', StopIsOrdered'
  PROVE  IInv'
BY DEF IInv, NoLostWakeup

\* A new task wakes a worker if one sleeps; sleepers on queue_space and idle
\* have no more reason to wake than before.
LEMMA AdmissionKeeps ==
  ASSUME IInv, NEW r \in Request, Admit(r) \/ AdmitOutOfMemory(r),
         cpc' \in [Client -> ClientPlace], creq' \in [Client -> Request],
         \A c \in Client : cpc'[c] \in {"blocked", "idle_wait", "joining"} =>
                             cpc'[c] = cpc[c] /\ creq'[c] = creq[c],
         UNCHANGED <<active_workers, accepting, burstVars, stopVars>>
  PROVE  IInv'
<1>i. TypeOK /\ HolderInv /\ AccountsBalance /\ NoLostWakeup /\ StopIsOrdered
  BY DEF IInv
<1>t. /\ queued_tasks \in Nat /\ queued_bytes \in Nat /\ active_workers \in Nat /\ next_task_id \in Nat
  BY <1>i, SchedulerAssumption DEF TypeOK, SchedulerAssumption
<1>1. ASSUME Admit(r) PROVE IInv'
  <2>1. HolderInv' /\ AccountsBalance' /\ queued_bytes' \in 0..maximum_queued_bytes
    BY <1>1, <1>i, AdmitKeepsHolders, AdmitBalances
  <2>2. TypeOK'
    BY <1>1, <1>i, <2>1, AdmitIsTyped, CountersAreNumbers
       DEF TypeOK, ClientPlace, burstVars, stopVars
  <2>3. queued_tasks' = queued_tasks + 1 /\ queued_bytes' >= queued_bytes /\ queued_bytes' \in Nat
    <3>1. r.estimated_bytes \in Nat
      BY SchedulerAssumption DEF SchedulerAssumption
    <3>. QED  BY <1>1, <1>t, <3>1 DEF Admit
  <2>4. SleepingSubmitterHasNoCapacity'
    BY <1>i, <1>t, <2>3, SubmittersStay DEF NoLostWakeup
  <2>5. SleepingIdlerHasWork'
    BY <1>i, <1>t, <2>3, IdlersStay DEF NoLostWakeup, Idle
  <2>6. NotifyOneWorker /\ accepting
    BY <1>1 DEF Admit
  <2>7. WorkConserving'
    <3>1. CASE \A w \in Worker : wpc'[w] # "waiting"
      BY <3>1 DEF WorkConserving
    <3>2. ASSUME NEW w \in Worker, wpc[w] = "waiting", wpc' = [wpc EXCEPT ![w] = "ready"]
          PROVE  WorkConserving'
      <4>1. ReadyWorkers' = ReadyWorkers \cup {w} /\ w \notin ReadyWorkers
        BY <1>i, <3>2 DEF ReadyWorkers, TypeOK
      <4>2. Cardinality(ReadyWorkers \cup {w}) = Cardinality(ReadyWorkers) + 1
        BY <4>1, ReadyWorkersAreCounted, FS_AddElement
      <4>3. Cardinality(ReadyWorkers') = Cardinality(ReadyWorkers) + 1
        BY <4>1, <4>2, Zenon
      <4>4. queued_tasks <= Cardinality(ReadyWorkers)
        BY <1>i, <3>2 DEF NoLostWakeup, WorkConserving, ReadyWorkers
      <4>5. queued_tasks' <= Cardinality(ReadyWorkers')
        BY <1>t, <2>3, <4>3, <4>4, ReadyWorkersAreCounted
      <4>. QED  BY <2>6, <4>5 DEF WorkConserving, ReadyWorkers
    <3>. QED  BY <2>6, <3>1, <3>2 DEF NotifyOneWorker
  <2>8. StopIsOrdered'
    <3>1. \A w \in Worker : wpc'[w] = "exited" \/ wpc'[w] = "joining" => wpc'[w] = wpc[w]
      BY <1>i, <2>6 DEF NotifyOneWorker, TypeOK
    <3>. QED  BY <1>i, <2>6, <3>1 DEF StopIsOrdered, stopVars
  <2>. QED  BY <2>1, <2>2, <2>4, <2>5, <2>7, <2>8, InvParts
<1>2. ASSUME AdmitOutOfMemory(r) PROVE IInv'
  <2>0. UNCHANGED <<taskVars, queues, identities, queued_tasks, queued_bytes, totals, workerVars>>
    BY <1>2 DEF AdmitOutOfMemory
  <2>1. next_task_id' \in 1..(MaxTasks + 1) /\ next_task_id' >= next_task_id /\ next_task_id' \in Nat
    BY <1>2, <1>i, OutOfMemoryIsTyped, SchedulerAssumption DEF SchedulerAssumption
  <2>2. HolderInv' /\ AccountsBalance'
    BY <2>0, <2>1, QuietStep DEF BusyKept, workerVars
  <2>3. TypeOK'
    BY <1>i, <2>0, <2>1 DEF TypeOK, ClientPlace, burstVars, stopVars, taskVars, workerVars
  <2>4. SleepingSubmitterHasNoCapacity'
    BY <1>i, <1>t, <2>0, SubmittersStay DEF NoLostWakeup
  <2>5. SleepingIdlerHasWork'
    BY <1>i, <2>0, IdlersStay DEF NoLostWakeup
  <2>6. WorkConserving'
    BY <1>i, <2>0 DEF NoLostWakeup, WorkConserving, workerVars
  <2>7. StopIsOrdered'
    BY <1>i, <2>0 DEF StopIsOrdered, stopVars, workerVars
  <2>. QED  BY <2>2, <2>3, <2>4, <2>5, <2>6, <2>7, InvParts
<1>. QED  BY <1>1, <1>2

\* try_submit.
LEMMA TrySubmitKeeps ==
  ASSUME IInv, NEW r \in Request, TrySubmit(r)
  PROVE  IInv'
<1>1. cpc \in [Client -> ClientPlace] /\ creq \in [Client -> Request]
  BY DEF IInv, TypeOK, ClientPlace
<1>. QED  BY <1>1, AdmissionKeeps DEF TrySubmit, clientVars

\* submit_for after a wake-up: refused, admitted or asleep again.
LEMMA SubmitResumeKeeps ==
  ASSUME IInv, NEW c \in Client, SubmitResume(c)
  PROVE  IInv'
<1>t. /\ cpc \in [Client -> ClientPlace] /\ creq \in [Client -> Request] /\ NoRequest \in Request
      /\ creq[c] \in Request
  BY SchedulerAssumption DEF IInv, TypeOK, ClientPlace, NoRequest, SchedulerAssumption
<1>0. UNCHANGED <<active_workers, accepting, burstVars, stopVars>>
  BY DEF SubmitResume
<1>1. CASE /\ cpc' = [cpc EXCEPT ![c] = "idle"] /\ creq' = [creq EXCEPT ![c] = NoRequest]
           /\ UNCHANGED <<taskVars, queueVars, totals, workerVars>>
  BY <1>0, <1>t, <1>1, ClientMoves DEF ClientPlace
<1>2. CASE /\ cpc' = [cpc EXCEPT ![c] = "idle"] /\ creq' = [creq EXCEPT ![c] = NoRequest]
           /\ Admit(creq[c]) \/ AdmitOutOfMemory(creq[c])
  <2>1. cpc' \in [Client -> ClientPlace] /\ creq' \in [Client -> Request]
    BY <1>t, <1>2 DEF ClientPlace
  <2>2. \A d \in Client : cpc'[d] \in {"blocked", "idle_wait", "joining"} =>
                            cpc'[d] = cpc[d] /\ creq'[d] = creq[d]
    BY <1>t, <1>2
  <2>. QED  BY <1>0, <1>t, <1>2, <2>1, <2>2, AdmissionKeeps
<1>3. CASE /\ accepting /\ ~HasCapacity(creq[c]) /\ cpc' = [cpc EXCEPT ![c] = "blocked"]
           /\ UNCHANGED <<taskVars, queueVars, totals, workerVars, creq>>
  BY <1>0, <1>t, <1>3, ClientMoves DEF ClientPlace
<1>. QED  BY <1>1, <1>2, <1>3 DEF SubmitResume

\* What queue_space.notify_all and the conditional idle.notify_all leave asleep.
LEMMA WakingEmptiesQueues ==
  ASSUME TypeOK, NEW idle \in BOOLEAN
  PROVE  /\ \A c \in Client : /\ WakeSubmitters(cpc)[c] # "blocked"
                              /\ WakeIdlersIf(idle, WakeSubmitters(cpc))[c] # "blocked"
                              /\ WakeSubmitters(WakeIdlersIf(idle, cpc))[c] # "blocked"
         /\ \A c \in Client : /\ WakeSubmitters(cpc)[c] = "idle_wait" => cpc[c] = "idle_wait"
                              /\ WakeIdlersIf(idle, WakeSubmitters(cpc))[c] = "idle_wait" => ~idle
                              /\ WakeSubmitters(WakeIdlersIf(idle, cpc))[c] = "idle_wait" => ~idle
         /\ \A c \in Client : /\ WakeSubmitters(cpc)[c] = "joining" => cpc[c] = "joining"
                              /\ WakeIdlersIf(idle, WakeSubmitters(cpc))[c] = "joining" => cpc[c] = "joining"
                              /\ WakeSubmitters(WakeIdlersIf(idle, cpc))[c] = "joining" => cpc[c] = "joining"
BY DEF WakeSubmitters, WakeIdlersIf

\* cancel wakes the submitters, and the idle waiters when it ends the last task.
LEMMA CancelKeeps ==
  ASSUME IInv, NEW t \in TaskId, Cancel(t)
  PROVE  IInv'
<1>i. TypeOK /\ HolderInv /\ AccountsBalance /\ NoLostWakeup /\ StopIsOrdered
  BY DEF IInv
<1>t. queued_tasks \in Nat
  BY <1>i DEF TypeOK
<1>1. ASSUME CancelRunning(t) PROVE IInv'
  <2>0. UNCHANGED <<state, request, queueVars, active_workers, accepting, totals, burstVars,
                    stopVars, workerVars, clientVars>>
    BY <1>1 DEF CancelRunning
  <2>1. HolderInv'
    BY <1>1, <1>i, CancelRunningKeepsHolders
  <2>2. AccountsBalance'
    BY <1>i, <2>0, AccountsSame DEF queueVars
  <2>3. TypeOK'
    BY <1>1, <1>i, <2>0
       DEF TypeOK, CancelRunning, queueVars, burstVars, stopVars, workerVars, clientVars
  <2>4. SleepingSubmitterHasNoCapacity' /\ SleepingIdlerHasWork' /\ WorkConserving'
    BY <1>i, <2>0 DEF NoLostWakeup, SleepingSubmitterHasNoCapacity, SleepingIdlerHasWork,
                      WorkConserving, HasCapacity, Idle, queueVars, clientVars, workerVars
  <2>5. StopIsOrdered'
    BY <1>i, <2>0 DEF StopIsOrdered, queueVars, stopVars, clientVars, workerVars
  <2>. QED  BY <2>1, <2>2, <2>3, <2>4, <2>5, InvParts
<1>2. ASSUME CancelQueued(t) PROVE IInv'
  <2> DEFINE idle == Idle(queued_tasks', active_workers)
  <2>0. /\ cpc' = WakeIdlersIf(idle, WakeSubmitters(cpc)) /\ idle \in BOOLEAN
        /\ queued_tasks' = queued_tasks - 1
        /\ UNCHANGED <<request, next_task_id, active_workers, accepting, burstVars, stopVars,
                       workerVars, creq>>
    BY <1>2 DEF CancelQueued, ReleaseBudget, Idle
  <2>1. HolderInv' /\ AccountsBalance' /\ queued_bytes' \in 0..maximum_queued_bytes
    BY <1>2, <1>i, CancelQueuedKeepsHolders, CancelQueuedBalances
  <2>2. queued_tasks' \in Nat /\ active_workers' \in Nat
    BY <2>1, CountersAreNumbers
  <2>3. TypeOK'
    <3>1. cpc' \in [Client -> ClientPlace]
      BY <1>i, <2>0, WakingIsTyped DEF ClientPlace
    <3>2. queues' \in [Lane -> Seq(TaskId)]
      <4> DEFINE l == PriorityLane(request[t])
      <4>1. l \in Lane
        BY <1>i, SchedulerAssumption DEF PriorityLane, TypeOK, SchedulerAssumption
      <4>2. PICK i \in DOMAIN queues[l] : queues' = [queues EXCEPT ![l] = RemoveAt(@, i)]
        BY <1>2 DEF CancelQueued
      <4> HIDE DEF l
      <4>. QED  BY <1>i, <4>1, <4>2, RemoveAtRemoves DEF Removed
    <3>3. identities' \in [Key -> TaskId \cup {NoTask}]
      BY <1>2, <1>i, EraseIsTyped DEF CancelQueued
    <3>4. totals' \in [submitted : Nat, started : Nat, succeeded : Nat, failed : Nat, cancelled : Nat]
      <4>1. totals \in [submitted : Nat, started : Nat, succeeded : Nat, failed : Nat, cancelled : Nat]
        BY <1>i DEF TypeOK
      <4>2. totals' = [totals EXCEPT !.cancelled = @ + 1]
        BY <1>2 DEF CancelQueued
      <4>. QED  BY <4>1, <4>2
    <3>5. state' \in [TaskId -> TaskState] /\ cancellation_requested' \in [TaskId -> BOOLEAN]
      BY <1>2, <1>i DEF CancelQueued, TypeOK, TaskState
    <3>. QED  BY <1>i, <2>0, <2>1, <2>2, <3>1, <3>2, <3>3, <3>4, <3>5
              DEF TypeOK, ClientPlace, burstVars, stopVars, workerVars
  <2>4. SleepingSubmitterHasNoCapacity'
    BY <1>i, <2>0, WakingEmptiesQueues DEF SleepingSubmitterHasNoCapacity
  <2>5. SleepingIdlerHasWork'
    BY <1>i, <2>0, WakingEmptiesQueues DEF SleepingIdlerHasWork, Idle
  <2>6. WorkConserving'
    BY <1>i, <1>t, <2>0, <2>2, WorkersStay DEF NoLostWakeup, workerVars
  <2>7. StopIsOrdered'
    <3>1. queued_tasks # 0
      BY <1>t, <2>0, <2>2
    <3>. QED  BY <1>i, <2>0, <3>1, StopStays, WakingEmptiesQueues DEF stopVars, workerVars
  <2>. QED  BY <2>1, <2>3, <2>4, <2>5, <2>6, <2>7, InvParts
<1>. QED  BY <1>1, <1>2 DEF Cancel

\* A pop takes one task and one worker off the count that notify_one relies on.
LEMMA PopKeeps ==
  ASSUME IInv, NEW w \in Worker, WorkerPop(w)
  PROVE  IInv'
<1>i. TypeOK /\ HolderInv /\ AccountsBalance /\ NoLostWakeup /\ StopIsOrdered
  BY DEF IInv
<1>t. queued_tasks \in Nat /\ active_workers \in Nat
  BY <1>i DEF TypeOK
<1>0. /\ wpc[w] = "ready" /\ queued_tasks # 0 /\ wpc' = [wpc EXCEPT ![w] = "running"]
      /\ active_workers' = active_workers + 1 /\ cpc' = WakeSubmitters(cpc)
      /\ totals' = [totals EXCEPT !.started = @ + 1]
      /\ UNCHANGED <<request, cancellation_requested, identities, next_task_id, accepting,
                     stopVars, final_state, creq>>
  BY DEF WorkerPop
<1>1. HolderInv' /\ AccountsBalance' /\ queued_bytes' \in 0..maximum_queued_bytes
  BY <1>i, PopKeepsHolders, PopBalances
<1>2. queued_tasks' \in Nat /\ active_workers' \in Nat
  BY <1>1, CountersAreNumbers
<1>3. PICK l \in Lane : /\ 1 \in DOMAIN queues[l] /\ Removed(l, 1) /\ ReleaseBudget(queues[l][1])
                        /\ state' = [state EXCEPT ![queues[l][1]] = "running"]
                        /\ wtask' = [wtask EXCEPT ![w] = queues[l][1]]
                        /\ urgent_burst' \in Nat /\ normal_burst' \in Nat
  BY <1>i, PopTakesFront
<1>4. queued_tasks' = queued_tasks - 1
  BY <1>3 DEF ReleaseBudget
<1>5. TypeOK'
  <2>1. queues[l][1] \in TaskId
    BY <1>i, <1>3, InDequeIsQueued
  <2>2. state' \in [TaskId -> TaskState] /\ wtask' \in [Worker -> TaskId \cup {NoTask}]
    BY <1>i, <1>3, <2>1 DEF TypeOK, TaskState
  <2>3. cpc' \in [Client -> ClientPlace]
    BY <1>i, <1>0, WakingIsTyped DEF ClientPlace
  <2>4. totals' \in [submitted : Nat, started : Nat, succeeded : Nat, failed : Nat, cancelled : Nat]
    <3>1. totals \in [submitted : Nat, started : Nat, succeeded : Nat, failed : Nat, cancelled : Nat]
      BY <1>i DEF TypeOK
    <3>. QED  BY <1>0, <3>1
  <2>5. wpc' \in [Worker -> WorkerPlace]
    BY <1>0, <1>i DEF TypeOK, WorkerPlace, Busy
  <2>. QED  BY <1>i, <1>0, <1>1, <1>2, <1>3, <2>2, <2>3, <2>4, <2>5
            DEF TypeOK, Removed, ClientPlace, WorkerPlace, stopVars
<1>6. SleepingSubmitterHasNoCapacity'
  BY <1>0, <1>i, WakingEmptiesQueues DEF SleepingSubmitterHasNoCapacity
<1>7. SleepingIdlerHasWork'
  BY <1>0, <1>i, <1>t, IdlersStay DEF NoLostWakeup, Idle
<1>8. WorkConserving'
  <2>1. ReadyWorkers' = ReadyWorkers \ {w} /\ w \in ReadyWorkers
    BY <1>0, <1>i DEF ReadyWorkers, TypeOK
  <2>2. Cardinality(ReadyWorkers \ {w}) = Cardinality(ReadyWorkers) - 1
    BY <2>1, ReadyWorkersAreCounted, FS_RemoveElement
  <2>3. Cardinality(ReadyWorkers') = Cardinality(ReadyWorkers) - 1
    BY <2>1, <2>2, Zenon
  <2> SUFFICES ASSUME \E v \in Worker : wpc'[v] = "waiting"
               PROVE  accepting' /\ queued_tasks' <= Cardinality(ReadyWorkers')
    BY DEF WorkConserving, ReadyWorkers
  <2>4. \E v \in Worker : wpc[v] = "waiting"
    BY <1>0, <1>i DEF TypeOK
  <2>5. accepting /\ queued_tasks <= Cardinality(ReadyWorkers)
    BY <1>i, <2>4 DEF NoLostWakeup, WorkConserving, ReadyWorkers
  <2>. QED  BY <1>0, <1>t, <1>4, <2>3, <2>5, ReadyWorkersAreCounted
<1>9. StopIsOrdered'
  <2>1. \A v \in Worker : wpc[v] # "exited" /\ wpc'[v] # "exited"
    BY <1>0, <1>i DEF StopIsOrdered, TypeOK
  <2>2. \A v \in Worker : wpc'[v] = "joining" => wpc[v] = "joining"
    BY <1>0, <1>i DEF TypeOK
  <2>. QED  BY <1>0, <1>i, <2>1, <2>2, StopStays, WakingEmptiesQueues DEF stopVars
<1>. QED  BY <1>1, <1>5, <1>6, <1>7, <1>8, <1>9, InvParts

\* A completion wakes whom it must, and its worker is on its way again.
LEMMA CompleteKeeps ==
  ASSUME IInv, NEW w \in Worker, WorkerComplete(w)
  PROVE  IInv'
<1>i. TypeOK /\ HolderInv /\ AccountsBalance /\ NoLostWakeup /\ StopIsOrdered
  BY DEF IInv
<1>t. queued_tasks \in Nat /\ active_workers \in Nat
  BY <1>i DEF TypeOK
<1> DEFINE idle == Idle(queued_tasks, active_workers')
<1>0. /\ wpc[w] = "finishing" /\ wpc' = [wpc EXCEPT ![w] = "ready"]
      /\ cpc' = WakeSubmitters(WakeIdlersIf(idle, cpc)) /\ idle \in BOOLEAN
      /\ UNCHANGED <<request, cancellation_requested, queues, queued_tasks, queued_bytes,
                     next_task_id, accepting, burstVars, stopVars, creq>>
  BY DEF WorkerComplete, Idle
<1>1. HolderInv' /\ AccountsBalance'
  BY <1>i, CompleteKeepsHolders, CompleteBalances
<1>2. queued_tasks' \in Nat /\ active_workers' \in Nat
  BY <1>1, CountersAreNumbers
<1>3. TypeOK'
  <2>1. wtask[w] \in TaskId /\ final_state[w] \in Terminal
    BY <1>0, <1>i DEF HolderInv, OneHolder, WorkersHoldRunning, Busy, TypeOK
  <2>2. /\ state' \in [TaskId -> TaskState] /\ wtask' \in [Worker -> TaskId \cup {NoTask}]
        /\ final_state' \in [Worker -> Terminal]
    BY <1>i, <2>1 DEF WorkerComplete, TypeOK, TaskState, Terminal
  <2>3. cpc' \in [Client -> ClientPlace]
    BY <1>i, <1>0, WakingIsTyped DEF ClientPlace
  <2>4. totals' \in [submitted : Nat, started : Nat, succeeded : Nat, failed : Nat, cancelled : Nat]
    <3>1. totals \in [submitted : Nat, started : Nat, succeeded : Nat, failed : Nat, cancelled : Nat]
      BY <1>i DEF TypeOK
    <3>2. totals' = [totals EXCEPT ![final_state[w]] = @ + 1]
      BY DEF WorkerComplete
    <3>3. CASE final_state[w] = "succeeded"
      BY <3>1, <3>2, <3>3
    <3>4. CASE final_state[w] = "failed"
      BY <3>1, <3>2, <3>4
    <3>5. CASE final_state[w] = "cancelled"
      BY <3>1, <3>2, <3>5
    <3>. QED  BY <2>1, <3>3, <3>4, <3>5 DEF Terminal
  <2>5. wpc' \in [Worker -> WorkerPlace]
    BY <1>0, <1>i DEF TypeOK, WorkerPlace, Busy
  <2>6. identities' \in [Key -> TaskId \cup {NoTask}]
    BY <1>i, EraseIsTyped DEF WorkerComplete
  <2>. QED  BY <1>i, <1>0, <1>2, <2>2, <2>3, <2>4, <2>5, <2>6
            DEF TypeOK, ClientPlace, WorkerPlace, stopVars, burstVars
<1>4. SleepingSubmitterHasNoCapacity'
  BY <1>0, <1>i, WakingEmptiesQueues DEF SleepingSubmitterHasNoCapacity
<1>5. SleepingIdlerHasWork'
  BY <1>0, <1>i, WakingEmptiesQueues DEF SleepingIdlerHasWork, Idle
<1>6. WorkConserving'
  <2>1. \A v \in Worker : /\ wpc'[v] = "waiting" => wpc[v] = "waiting"
                          /\ wpc[v] = "ready" => wpc'[v] = "ready"
    BY <1>0, <1>i DEF TypeOK
  <2>. QED  BY <1>0, <1>i, <1>t, <2>1, WorkersStay DEF NoLostWakeup
<1>7. StopIsOrdered'
  <2>1. \A v \in Worker : /\ wpc'[v] = "exited" <=> wpc[v] = "exited"
                          /\ wpc'[v] = "joining" => wpc[v] = "joining"
    BY <1>0, <1>i DEF TypeOK
  <2>. QED  BY <1>0, <1>i, <2>1, StopStays, WakingEmptiesQueues DEF stopVars
<1>. QED  BY <1>1, <1>3, <1>4, <1>5, <1>6, <1>7, InvParts

\* shutdown wakes everybody: nobody sleeps through it.
LEMMA CloseKeeps ==
  ASSUME IInv, NEW thread \in Worker \cup Client, NEW mode, Close(thread, mode),
         wpc' \in [Worker -> WorkerPlace], cpc' \in [Client -> ClientPlace],
         \A w \in Worker : /\ wpc'[w] # "waiting" /\ (wpc'[w] = "exited" <=> wpc[w] = "exited")
                           /\ wpc'[w] \in Busy <=> wpc[w] \in Busy,
         \A c \in Client : /\ cpc'[c] # "blocked"
                           /\ cpc'[c] = "idle_wait" => ~Idle(queued_tasks', active_workers)
  PROVE  IInv'
<1>i. TypeOK /\ HolderInv /\ AccountsBalance /\ NoLostWakeup /\ StopIsOrdered
  BY DEF IInv
<1>0. ~accepting' /\ UNCHANGED <<active_workers, joined, detached>>
  BY DEF Close
<1>1. HolderInv' /\ AccountsBalance' /\ queued_bytes' \in 0..maximum_queued_bytes
  BY <1>i, CloseKeepsHolders, CloseBalances DEF BusyKept
<1>2. TypeOK'
  BY <1>i, <1>1, CloseIsTyped, CountersAreNumbers DEF TypeOK, ClientPlace, WorkerPlace
<1>3. SleepingSubmitterHasNoCapacity' /\ WorkConserving'
  BY DEF SleepingSubmitterHasNoCapacity, WorkConserving
<1>4. SleepingIdlerHasWork'
  BY <1>0 DEF SleepingIdlerHasWork, Idle
<1>5. StopIsOrdered'
  <2>1. queued_tasks' = queued_tasks \/ queued_tasks' = 0
    BY DEF Close
  <2>. QED  BY <1>0, <1>i, <2>1, StopStays
<1>. QED  BY <1>1, <1>2, <1>3, <1>4, <1>5, InvParts

\* shutdown by a client.
LEMMA ShutdownKeeps ==
  ASSUME IInv, NEW c \in Client, NEW mode, Shutdown(c, mode)
  PROVE  IInv'
<1>i. TypeOK
  BY DEF IInv
<1> DEFINE idle == Idle(queued_tasks', active_workers)
           woken == WakeIdlersIf(idle, WakeSubmitters(cpc))
<1>1. /\ Close(c, mode) /\ wpc' = WakeWorkers(wpc) /\ cpc' = [woken EXCEPT ![c] = "joining"]
      /\ idle \in BOOLEAN
  BY DEF Shutdown, Idle
<1>2. woken \in [Client -> ClientPlace] /\ wpc' \in [Worker -> WorkerPlace]
  BY <1>1, <1>i, WakingIsTyped DEF ClientPlace, WorkerPlace
<1>3. \A d \in Client : woken[d] # "blocked" /\ (woken[d] = "idle_wait" => ~idle)
  BY <1>1, <1>i, WakingEmptiesQueues
<1>4. \A w \in Worker : /\ wpc'[w] # "waiting" /\ (wpc'[w] = "exited" <=> wpc[w] = "exited")
                        /\ wpc'[w] \in Busy <=> wpc[w] \in Busy
  BY <1>1, <1>i DEF WakeWorkers, TypeOK, Busy
<1> HIDE DEF woken
<1>5. cpc' \in [Client -> ClientPlace]
  BY <1>1, <1>2 DEF ClientPlace
<1>6. \A d \in Client : cpc'[d] # "blocked" /\ (cpc'[d] = "idle_wait" => ~idle)
  BY <1>1, <1>2, <1>3
<1>. QED  BY <1>1, <1>2, <1>4, <1>5, <1>6, CloseKeeps

\* shutdown from inside a job.
LEMMA JobShutdownKeeps ==
  ASSUME IInv, NEW w \in Worker, NEW mode, JobShutdown(w, mode)
  PROVE  IInv'
<1>i. TypeOK
  BY DEF IInv
<1> DEFINE idle == Idle(queued_tasks', active_workers)
           awake == WakeWorkers(wpc)
<1>1. /\ Close(w, mode) /\ wpc' = [awake EXCEPT ![w] = "joining"] /\ wpc[w] = "stop_wait"
      /\ cpc' = WakeIdlersIf(idle, WakeSubmitters(cpc)) /\ idle \in BOOLEAN
  BY DEF JobShutdown, Idle
<1>2. cpc' \in [Client -> ClientPlace] /\ awake \in [Worker -> WorkerPlace]
  BY <1>1, <1>i, WakingIsTyped DEF ClientPlace, WorkerPlace
<1>3. \A d \in Client : cpc'[d] # "blocked" /\ (cpc'[d] = "idle_wait" => ~idle)
  BY <1>1, <1>i, WakingEmptiesQueues
<1>4. \A v \in Worker : /\ awake[v] # "waiting" /\ (awake[v] = "exited" <=> wpc[v] = "exited")
                        /\ awake[v] \in Busy <=> wpc[v] \in Busy
  BY <1>i DEF WakeWorkers, TypeOK, Busy
<1> HIDE DEF awake
<1>5. wpc' \in [Worker -> WorkerPlace]
  BY <1>1, <1>2 DEF WorkerPlace, Busy
<1>6. \A v \in Worker : /\ wpc'[v] # "waiting" /\ (wpc'[v] = "exited" <=> wpc[v] = "exited")
                        /\ wpc'[v] \in Busy <=> wpc[v] \in Busy
  BY <1>1, <1>2, <1>4 DEF Busy
<1>. QED  BY <1>1, <1>2, <1>3, <1>5, <1>6, CloseKeeps

-----------------------------------------------------------------------------
(* The invariant and what it gives.                                         *)

\* A new scheduler is empty and balanced.
LEMMA IInvInit == Init => IInv
<1> SUFFICES ASSUME Init PROVE IInv
  OBVIOUS
<1>1. TypeOK
  <2>1. NoRequest \in Request /\ MaxTasks \in Nat /\ maximum_queued_bytes \in Nat
    BY SchedulerAssumption DEF NoRequest, SchedulerAssumption
  <2>2. queues \in [Lane -> Seq(TaskId)]
    <3>1. <<>> \in Seq(TaskId)
      OBVIOUS
    <3>. QED  BY <3>1 DEF Init
  <2>3. /\ state \in [TaskId -> TaskState] /\ request \in [TaskId -> Request]
        /\ cancellation_requested \in [TaskId -> BOOLEAN]
        /\ identities \in [Key -> TaskId \cup {NoTask}]
    BY <2>1 DEF Init, TaskState
  <2>4. /\ queued_tasks \in Nat /\ queued_bytes \in 0..maximum_queued_bytes
        /\ active_workers \in Nat /\ accepting \in BOOLEAN
        /\ next_task_id \in 1..(MaxTasks + 1) /\ urgent_burst \in Nat /\ normal_burst \in Nat
        /\ totals \in [submitted : Nat, started : Nat, succeeded : Nat, failed : Nat, cancelled : Nat]
    BY <2>1 DEF Init
  <2>5. /\ shutdown_owner \in Worker \cup Client \cup {NoThread}
        /\ joined \in BOOLEAN /\ detached \subseteq Worker
        /\ wpc \in [Worker -> {"ready", "waiting", "exited"} \cup Busy]
        /\ wtask \in [Worker -> TaskId \cup {NoTask}] /\ final_state \in [Worker -> Terminal]
        /\ cpc \in [Client -> {"idle", "blocked", "woken", "idle_wait", "idle_woken", "joining"}]
        /\ creq \in [Client -> Request]
    BY <2>1 DEF Init, Terminal
  <2>. QED  BY <2>2, <2>3, <2>4, <2>5 DEF TypeOK
<1>2. \A s : s # "none" => InState(s) = {}
  BY DEF Init, InState
<1>3. HolderInv
  <2>1. IdsAreFresh /\ KeysNameLiveTasks
    BY DEF Init, IdsAreFresh, KeysNameLiveTasks, Live
  <2>2. \A l \in Lane : queues[l] = <<>> /\ DOMAIN queues[l] = {} /\ Len(queues[l]) = 0
    BY DEF Init
  <2>3. OneHolder
    BY <2>2 DEF Init, OneHolder, DequesHoldQueued, WorkersHoldRunning, Busy
  <2>4. LanesAreCounted
    <3> DEFINE len(m) == Len(queues[m])
    <3>1. len(0) = 0 /\ len(1) = 0 /\ len(2) = 0
      BY <2>2 DEF Lane, Background, Normal, Urgent
    <3> HIDE DEF len
    <3>2. queued_tasks = len(0) + len(1) + len(2)
      BY <3>1 DEF Init
    <3>. QED  BY <3>2 DEF LanesAreCounted, len
  <2>. QED  BY <2>1, <2>3, <2>4 DEF HolderInv
<1>4. AccountsBalance
  <2>1. InState("queued") = {} /\ InState("running") = {} /\ InState("cancelled") = {}
    BY <1>2
  <2>2. Cardinality({}) = 0
    BY FS_EmptySet
  <2>3. BytesBalance
    BY <2>1, BytesAreSummed, SumOverEmpty DEF Init
  <2>4. /\ Cardinality(InState("queued")) = 0 /\ Cardinality(InState("running")) = 0
        /\ Cardinality(InState("cancelled")) = 0
    BY <2>1, <2>2, Zenon
  <2>. QED  BY <2>3, <2>4 DEF Init, AccountsBalance
<1>5. NoLostWakeup /\ StopIsOrdered
  BY DEF Init, NoLostWakeup, SleepingSubmitterHasNoCapacity, SleepingIdlerHasWork,
         WorkConserving, StopIsOrdered
<1>. QED  BY <1>1, <1>3, <1>4, <1>5 DEF IInv

\* Nothing changes, nothing breaks.
LEMMA IInvStutter == IInv /\ UNCHANGED vars => IInv'
<1> SUFFICES ASSUME IInv, UNCHANGED vars PROVE IInv'
  OBVIOUS
<1>1. cpc \in [Client -> ClientPlace] /\ creq \in [Client -> Request]
  BY DEF IInv, TypeOK, ClientPlace
<1>. QED  BY <1>1, ClientMoves DEF vars, clientVars

\* Every step of every thread keeps the invariant.
LEMMA IInvStep == IInv /\ [Next]_vars => IInv'
<1> SUFFICES ASSUME IInv, [Next]_vars PROVE IInv'
  OBVIOUS
<1>1. ASSUME NEW r \in Request, TrySubmit(r) PROVE IInv'
  BY <1>1, TrySubmitKeeps
<1>2. ASSUME NEW t \in TaskId, Cancel(t) PROVE IInv'
  BY <1>2, CancelKeeps
<1>3. ASSUME NEW w \in Worker, WorkerStep(w) \/ JobStep(w) PROVE IInv'
  BY <1>3, WorkerPausesKeep, PopKeeps, CompleteKeeps, JobShutdownKeeps DEF WorkerStep, JobStep
<1>4. ASSUME NEW c \in Client, ClientStep(c) \/ ClientCall(c) PROVE IInv'
  BY <1>4, ClientCallsKeep, SubmitResumeKeeps, ShutdownJoinKeeps, ShutdownKeeps
     DEF ClientStep, ClientCall
<1>5. CASE SpuriousWakeup
  BY <1>5, SpuriousKeeps
<1>6. CASE UNCHANGED vars
  BY <1>6, IInvStutter
<1>. QED  BY <1>1, <1>2, <1>3, <1>4, <1>5, <1>6 DEF Next

\* With any number of workers, submitters, cancellations and shutdowns, a task
\* that was admitted is found under its key and is in exactly one deque or with
\* exactly one worker until it ends: submit's tables, the erase of cancel, the
\* swap of shutdown and run_worker agree.
THEOREM TasksHaveOneHolder == Spec => []EveryTaskHasOneHolder
<1>1. IInv => EveryTaskHasOneHolder
  BY DEF IInv, HolderInv, EveryTaskHasOneHolder
<1>. QED  BY IInvInit, IInvStep, <1>1, PTL DEF Spec

\* queued_tasks, queued_bytes, active_workers and the totals are what they
\* count, for any limits: no budget leaks or wraps below zero.
THEOREM AccountsAlwaysBalance == Spec => []AccountsBalance
<1>1. IInv => AccountsBalance
  BY DEF IInv
<1>. QED  BY IInvInit, IInvStep, <1>1, PTL DEF Spec

\* A submitter sleeps only while the scheduler is open and has no room for its
\* request, and a thread in wait_idle only while work is left.  Workers sleep only
\* while the scheduler is open, and then as many others are about to take the
\* mutex as there are tasks queued: notify_one on admission is enough for any
\* number of workers.
THEOREM WakeupsAreNotLost == Spec => []NoLostWakeup
<1>1. IInv => NoLostWakeup
  BY DEF IInv
<1>. QED  BY IInvInit, IInvStep, <1>1, PTL DEF Spec

\* After shutdown only a job that called it can be left, and with it the queue
\* of the only worker there is.
THEOREM ShutdownLeavesNothing == Spec => []JoinedMeansDone
<1>1. IInv => JoinedMeansDone
  <2> SUFFICES ASSUME IInv, joined, NEW t \in TaskId, state[t] \in Live
               PROVE  \/ state[t] = "running" /\ \E w \in detached : wtask[w] = t
                      \/ state[t] = "queued" /\ detached = Worker
    BY DEF JoinedMeansDone
  <2>1. \A w \in Worker : wpc[w] = "exited" \/ w \in detached
    BY DEF IInv, StopIsOrdered
  <2>2. CASE state[t] = "running"
    <3>1. PICK w \in Worker : wtask[w] = t
      BY <2>2 DEF IInv, HolderInv, OneHolder, WorkersHoldRunning
    <3>2. wpc[w] \in Busy
      BY <3>1, TaskIdsAreNumbers DEF IInv, HolderInv, OneHolder, WorkersHoldRunning
    <3>3. wpc[w] # "exited"
      BY <3>2 DEF Busy
    <3>. QED  BY <2>1, <2>2, <3>1, <3>3
  <2>3. CASE state[t] = "queued"
    <3>1. IsFiniteSet(InState("queued")) /\ t \in InState("queued")
      BY <2>3, TasksAreFinite DEF InState
    <3>2. queued_tasks # 0
      BY <3>1, FS_EmptySet DEF IInv, AccountsBalance
    <3>3. \A w \in Worker : wpc[w] # "exited"
      BY <3>2 DEF IInv, StopIsOrdered
    <3>4. detached \subseteq Worker
      BY DEF IInv, TypeOK
    <3>. QED  BY <2>1, <2>3, <3>3, <3>4
  <2>. QED  BY <2>2, <2>3 DEF Live
<1>. QED  BY IInvInit, IInvStep, <1>1, PTL DEF Spec

-----------------------------------------------------------------------------
(* The lanes: the scheduler implements LaneArbitration.  Which lanes were   *)
(* passed over is not state of the scheduler; a history variable observes   *)
(* its steps and constrains none of them.                                   *)

VARIABLE skipped

\* A worker has popped a task in this step.
Popped == totals'.started # totals.started

\* skipped counts, for a lane that holds work, the pops that left it alone.
Observe ==
  skipped' = [l \in Lane |->
    IF Popped
    THEN IF queues[l] # <<>> /\ queues'[l] = queues[l] THEN skipped[l] + 1 ELSE 0
    ELSE IF queues'[l] = <<>> THEN 0 ELSE skipped[l]]

ObservedInit == Init /\ skipped = [l \in Lane |-> 0]

ObservedNext == Next /\ Observe

ObservedSpec == ObservedInit /\ [][ObservedNext]_<<vars, skipped>>

LaneLengths == [l \in Lane |-> Len(queues[l])]

\* No lane is longer and no burst greater than the number of tasks.
Lanes == INSTANCE LaneArbitrationProofs
           WITH pending <- LaneLengths, MaxPending <- MaxTasks, MaxBurst <- MaxTasks

\* What the mapping needs: an empty lane is not skipped, the bursts count
\* starts, and a start or a queued task has an id of its own.
ServiceInv ==
  /\ skipped \in [Lane -> Nat]
  /\ \A l \in Lane : queues[l] = <<>> => skipped[l] = 0
  /\ urgent_burst <= totals.started
  /\ normal_burst <= totals.started
  /\ totals.started + queued_tasks < next_task_id

\* A step that leaves the deques and the bursts alone.
LanesRest ==
  /\ UNCHANGED <<queues, queued_tasks, urgent_burst, normal_burst>>
  /\ totals'.started = totals.started
  /\ next_task_id' \in {next_task_id, next_task_id + 1}

\* push_back
LaneGrows(l) ==
  /\ next_task_id \in TaskId
  /\ queues' = [queues EXCEPT ![l] = Append(@, next_task_id)]
  /\ queued_tasks' = queued_tasks + 1
  /\ next_task_id' = next_task_id + 1
  /\ totals'.started = totals.started
  /\ UNCHANGED <<urgent_burst, normal_burst>>

\* cancel's erase
LaneShrinks(l, i) ==
  /\ Removed(l, i)
  /\ queued_tasks' = queued_tasks - 1
  /\ totals'.started = totals.started
  /\ UNCHANGED <<urgent_burst, normal_burst, next_task_id>>

\* shutdown's swap
LanesEmpty ==
  /\ queues' = [l \in Lane |-> <<>>]
  /\ queued_tasks' = 0
  /\ totals'.started = totals.started
  /\ UNCHANGED <<urgent_burst, normal_burst, next_task_id>>

\* pop_task_locked
LaneServed(c) ==
  /\ c = SelectLane({l \in Lane : queues[l] # <<>>}, urgent_burst, normal_burst)
  /\ {l \in Lane : queues[l] # <<>>} # {}
  /\ c.lane \in {l \in Lane : queues[l] # <<>>}
  /\ Removed(c.lane, 1)
  /\ queued_tasks' = queued_tasks - 1
  /\ totals'.started = totals.started + 1
  /\ urgent_burst' = c.urgent_burst
  /\ normal_burst' = c.normal_burst
  /\ UNCHANGED next_task_id

\* All that a step of the scheduler can do to its deques and bursts.
LaneStep ==
  \/ LanesRest
  \/ \E l \in Lane : LaneGrows(l)
  \/ \E l \in Lane : \E i \in DOMAIN queues[l] : LaneShrinks(l, i)
  \/ LanesEmpty
  \/ \E c : LaneServed(c)

\* An admission lengthens one lane or, out of memory, spends an id.
LEMMA AdmissionIsLaneStep ==
  ASSUME TypeOK, NEW r \in Request, Admit(r) \/ AdmitOutOfMemory(r), UNCHANGED burstVars
  PROVE  LaneStep
<1>1. ASSUME Admit(r) PROVE LaneStep
  <2>1. r.priority \in Lane
    BY SchedulerAssumption DEF SchedulerAssumption
  <2>2. totals'.started = totals.started
    BY <1>1 DEF Admit, TypeOK
  <2>3. LaneGrows(r.priority)
    BY <1>1, <2>2 DEF Admit, LaneGrows, burstVars, PriorityLane
  <2>. QED  BY <2>1, <2>3 DEF LaneStep
<1>2. ASSUME AdmitOutOfMemory(r) PROVE LaneStep
  BY <1>2 DEF AdmitOutOfMemory, LaneStep, LanesRest, burstVars
<1>. QED  BY <1>1, <1>2

\* A cancelled task leaves the deque of its priority.
LEMMA CancelIsLaneStep ==
  ASSUME TypeOK, NEW t \in TaskId, Cancel(t)
  PROVE  LaneStep
<1>1. ASSUME CancelQueued(t) PROVE LaneStep
  <2> DEFINE l == request[t].priority
  <2>1. l \in Lane
    BY SchedulerAssumption DEF SchedulerAssumption, TypeOK
  <2>2. PICK i \in DOMAIN queues[l] : queues' = [queues EXCEPT ![l] = RemoveAt(@, i)]
    BY <1>1 DEF CancelQueued, PriorityLane
  <2>3. Removed(l, i)
    BY <2>1, <2>2, RemoveAtRemoves
  <2>4. totals'.started = totals.started
    BY <1>1 DEF CancelQueued, TypeOK
  <2>5. LaneShrinks(l, i)
    BY <1>1, <2>3, <2>4 DEF CancelQueued, ReleaseBudget, LaneShrinks, burstVars
  <2>. QED  BY <2>1, <2>2, <2>5 DEF LaneStep
<1>2. ASSUME CancelRunning(t) PROVE LaneStep
  BY <1>2 DEF CancelRunning, queueVars, burstVars, LaneStep, LanesRest
<1>. QED  BY <1>1, <1>2 DEF Cancel

\* A worker serves the lane that SelectLane names.
LEMMA PopIsLaneStep ==
  ASSUME TypeOK, NEW w \in Worker, WorkerPop(w)
  PROVE  LaneStep
<1> DEFINE nonempty == {l \in Lane : queues[l] # <<>>}
           choice == SelectLane(nonempty, urgent_burst, normal_burst)
<1>1. /\ nonempty # {} /\ PopFront(choice.lane)
      /\ urgent_burst' = choice.urgent_burst /\ normal_burst' = choice.normal_burst
      /\ queued_tasks' = queued_tasks - 1
      /\ UNCHANGED next_task_id
  BY DEF WorkerPop, ReleaseBudget
<1>2. nonempty \in SUBSET Lane /\ urgent_burst \in Nat /\ normal_burst \in Nat
  BY DEF TypeOK
<1>3. choice.lane \in nonempty
  BY <1>1, <1>2, ChosenLaneIsNonempty
<1>4. totals'.started = totals.started + 1
  BY DEF WorkerPop, TypeOK
<1>5. choice = SelectLane(nonempty, urgent_burst, normal_burst)
  OBVIOUS
<1> HIDE DEF choice
<1>6. Removed(choice.lane, 1)
  BY <1>1, <1>3, PopFrontRemoves
<1>7. LaneServed(choice)
  BY <1>1, <1>3, <1>4, <1>5, <1>6 DEF LaneServed
<1>. QED  BY <1>7 DEF LaneStep

\* Shutdown empties the deques or leaves them alone.
LEMMA CloseIsLaneStep ==
  ASSUME TypeOK, NEW thread, NEW mode, Close(thread, mode)
  PROVE  LaneStep
<1>1. CASE mode = "kCancel"
  <2>1. totals'.started = totals.started
    BY <1>1 DEF Close, TypeOK
  <2>. QED  BY <1>1, <2>1 DEF Close, burstVars, LaneStep, LanesEmpty
<1>2. CASE mode # "kCancel"
  BY <1>2 DEF Close, burstVars, LaneStep, LanesRest
<1>. QED  BY <1>1, <1>2

\* Every step of the scheduler is one of these.
LEMMA StepsAreLaneSteps ==
  ASSUME TypeOK, [Next]_vars
  PROVE  LaneStep
<1>1. ASSUME NEW r \in Request, TrySubmit(r) PROVE LaneStep
  BY <1>1, AdmissionIsLaneStep DEF TrySubmit
<1>2. ASSUME NEW t \in TaskId, Cancel(t) PROVE LaneStep
  BY <1>2, CancelIsLaneStep
<1>3. ASSUME NEW w \in Worker, WorkerStep(w) \/ JobStep(w) PROVE LaneStep
  <2>1. CASE WorkerPop(w)
    BY <2>1, PopIsLaneStep
  <2>2. ASSUME NEW mode \in {"kDrain", "kCancel"}, JobShutdown(w, mode) PROVE LaneStep
    BY <2>2, CloseIsLaneStep DEF JobShutdown
  <2>3. ASSUME WorkerComplete(w) PROVE LaneStep
    <3>1. final_state[w] \in Terminal
      BY DEF TypeOK
    <3>2. totals'.started = totals.started
      BY <2>3, <3>1 DEF WorkerComplete, TypeOK, Terminal
    <3>. QED  BY <2>3, <3>2 DEF WorkerComplete, burstVars, LaneStep, LanesRest
  <2>4. CASE WorkerPark(w) \/ WorkerExit(w) \/ JobShutdownJoin(w) \/ JobStep(w)
    BY <2>4 DEF WorkerPark, WorkerExit, JobShutdownJoin, JobStep, JobReturn, JobCallsShutdown,
                queueVars, burstVars, LaneStep, LanesRest
  <2>. QED  BY <1>3, <2>1, <2>2, <2>3, <2>4 DEF WorkerStep
<1>4. ASSUME NEW c \in Client, ClientStep(c) \/ ClientCall(c) PROVE LaneStep
  <2>1. ASSUME NEW mode \in {"kDrain", "kCancel"}, Shutdown(c, mode) PROVE LaneStep
    BY <2>1, CloseIsLaneStep DEF Shutdown
  <2>2. CASE SubmitResume(c)
    <3>1. creq[c] \in Request
      BY DEF TypeOK
    <3>2. UNCHANGED burstVars
      BY <2>2 DEF SubmitResume
    <3>3. CASE Admit(creq[c]) \/ AdmitOutOfMemory(creq[c])
      BY <3>1, <3>2, <3>3, AdmissionIsLaneStep
    <3>4. CASE UNCHANGED <<queueVars, totals>>
      BY <3>2, <3>4 DEF queueVars, burstVars, LaneStep, LanesRest
    <3>. QED  BY <2>2, <3>3, <3>4 DEF SubmitResume
  <2>3. CASE IdleResume(c) \/ ShutdownJoin(c) \/ SubmitTimeout(c) \/ WaitIdle(c) \/ IdleTimeout(c)
    BY <2>3 DEF IdleResume, ShutdownJoin, SubmitTimeout, WaitIdle, IdleTimeout,
                queueVars, burstVars, LaneStep, LanesRest
  <2>4. ASSUME NEW r \in Request, SubmitFor(c, r) PROVE LaneStep
    BY <2>4 DEF SubmitFor, queueVars, burstVars, LaneStep, LanesRest
  <2>. QED  BY <1>4, <2>1, <2>2, <2>3, <2>4 DEF ClientStep, ClientCall
<1>5. CASE SpuriousWakeup
  BY <1>5 DEF SpuriousWakeup, queueVars, burstVars, LaneStep, LanesRest
<1>6. CASE UNCHANGED vars
  BY <1>6 DEF vars, queueVars, burstVars, LaneStep, LanesRest
<1>. QED  BY <1>1, <1>2, <1>3, <1>4, <1>5, <1>6 DEF Next

\* A deque is empty when its length is zero.
LEMMA LengthOfDeque ==
  ASSUME NEW q \in [Lane -> Seq(TaskId)], NEW l \in Lane
  PROVE  Len(q[l]) \in Nat /\ (q[l] = <<>> <=> Len(q[l]) = 0)
<1>1. q[l] \in Seq(TaskId)
  OBVIOUS
<1>. QED  BY <1>1, EmptySeq

\* The lengths, before and after a step.
LEMMA LaneLengthsAre ==
  ASSUME TypeOK, TypeOK'
  PROVE  /\ LaneLengths \in [Lane -> Nat] /\ LaneLengths' \in [Lane -> Nat]
         /\ \A l \in Lane : /\ queues[l] = <<>> <=> LaneLengths[l] = 0
                            /\ queues'[l] = <<>> <=> LaneLengths'[l] = 0
                            /\ LaneLengths[l] = Len(queues[l])
                            /\ LaneLengths'[l] = Len(queues'[l])
<1>1. queues \in [Lane -> Seq(TaskId)] /\ queues' \in [Lane -> Seq(TaskId)]
  BY DEF TypeOK
<1>2. ASSUME NEW l \in Lane PROVE /\ Len(queues[l]) \in Nat /\ (queues[l] = <<>> <=> Len(queues[l]) = 0)
                                  /\ Len(queues'[l]) \in Nat /\ (queues'[l] = <<>> <=> Len(queues'[l]) = 0)
  BY <1>1, LengthOfDeque
<1>. QED  BY <1>2 DEF LaneLengths

\* The three lanes together hold queued_tasks, so none holds more.
LEMMA LanesAreBounded ==
  ASSUME TypeOK, LanesAreCounted, NEW l \in Lane
  PROVE  Len(queues[l]) <= queued_tasks
<1>1. /\ Len(queues[0]) \in Nat /\ Len(queues[1]) \in Nat /\ Len(queues[2]) \in Nat
      /\ queued_tasks = Len(queues[0]) + Len(queues[1]) + Len(queues[2])
  BY LengthOfDeque DEF TypeOK, Lane, Background, Normal, Urgent, LanesAreCounted
<1>2. l \in {0, 1, 2}
  BY DEF Lane, Background, Normal, Urgent
<1> DEFINE n == [m \in {0, 1, 2} |-> Len(queues[m])]
<1>3. n[0] \in Nat /\ n[1] \in Nat /\ n[2] \in Nat /\ queued_tasks = n[0] + n[1] + n[2] /\ n[l] = Len(queues[l])
  BY <1>1, <1>2
<1> HIDE DEF n
<1>4. n[l] <= queued_tasks
  BY <1>2, <1>3
<1>. QED  BY <1>3, <1>4

\* The arbitration's copy of the policy is the scheduler's policy.
LEMMA SamePolicy ==
  /\ Lanes!Lane = Lane
  /\ \A S, u, n : Lanes!SelectLane(S, u, n) = SelectLane(S, u, n)
BY DEF Lanes!Lane, Lane, Lanes!SelectLane, SelectLane, Lanes!Choice, Choice,
       Lanes!Background, Background, Lanes!Normal, Normal, Lanes!Urgent, Urgent,
       Lanes!kUrgentBurst, kUrgentBurst, Lanes!kNormalBurst, kNormalBurst

\* Quiet steps are stuttering steps of the lanes.
LEMMA RestMaps ==
  ASSUME TypeOK, TypeOK', ServiceInv, LanesRest, Observe
  PROVE  ServiceInv' /\ UNCHANGED Lanes!vars
<1>1. ~Popped /\ queues' = queues /\ UNCHANGED <<queued_tasks, urgent_burst, normal_burst>>
  BY DEF LanesRest, Popped
<1>2. skipped' = [l \in Lane |-> skipped[l]]
  BY <1>1 DEF Observe, ServiceInv
<1>3. skipped' = skipped
  BY <1>2 DEF ServiceInv
<1>4. LaneLengths' = LaneLengths
  BY <1>1 DEF LaneLengths
<1>5. totals'.started + queued_tasks' < next_task_id'
  <2>1. totals.started \in Nat /\ queued_tasks \in Nat /\ next_task_id \in Nat
    BY DEF TypeOK
  <2>. QED  BY <1>1, <2>1 DEF LanesRest, ServiceInv
<1>. QED  BY <1>1, <1>3, <1>4, <1>5 DEF ServiceInv, LanesRest, Lanes!vars

\* An admitted task lengthens its lane.
LEMMA GrowMaps ==
  ASSUME TypeOK, TypeOK', ServiceInv, LanesAreCounted, NEW l \in Lane, LaneGrows(l), Observe
  PROVE  ServiceInv' /\ Lanes!Enqueue(l)
<1>1. /\ ~Popped /\ totals'.started = totals.started
      /\ UNCHANGED <<urgent_burst, normal_burst>>
      /\ queued_tasks' = queued_tasks + 1 /\ next_task_id' = next_task_id + 1
  BY DEF LaneGrows, Popped
<1>2. /\ totals.started \in Nat /\ queued_tasks \in Nat /\ next_task_id \in Nat
      /\ MaxTasks \in Nat /\ next_task_id <= MaxTasks
  BY SchedulerAssumption DEF TypeOK, SchedulerAssumption, LaneGrows, TaskId
<1>3. /\ \A m \in Lane : m # l => queues'[m] = queues[m]
      /\ queues'[l] = Append(queues[l], next_task_id)
  BY DEF LaneGrows, TypeOK
<1>4. queues[l] \in Seq(TaskId) /\ next_task_id \in TaskId
  BY DEF TypeOK, LaneGrows
<1>5. queues'[l] # <<>> /\ Len(queues'[l]) = Len(queues[l]) + 1
  BY <1>3, <1>4, AppendProperties
<1>6. \A m \in Lane : skipped'[m] = skipped[m]
  BY <1>1, <1>3, <1>5 DEF Observe, ServiceInv
<1>7. skipped' = skipped
  <2>1. skipped' \in [Lane -> Nat] /\ skipped \in [Lane -> Nat]
    BY <1>1 DEF Observe, ServiceInv
  <2>. QED  BY <1>6, <2>1
<1>8. LaneLengths' = [LaneLengths EXCEPT ![l] = @ + 1]
  <2>1. LaneLengths'[l] = LaneLengths[l] + 1
    BY <1>5, LaneLengthsAre
  <2>2. \A m \in Lane : m # l => LaneLengths'[m] = LaneLengths[m]
    BY <1>3, LaneLengthsAre
  <2>. QED  BY <2>1, <2>2, LaneLengthsAre
<1>9. LaneLengths[l] < MaxTasks
  <2>1. LaneLengths[l] \in Nat /\ LaneLengths[l] <= queued_tasks
    BY LanesAreBounded, LaneLengthsAre
  <2>. QED  BY <1>2, <2>1 DEF ServiceInv
<1>10. ServiceInv'
  <2>1. totals'.started + queued_tasks' < next_task_id'
    BY <1>1, <1>2 DEF ServiceInv
  <2>. QED  BY <1>1, <1>3, <1>5, <1>7, <2>1 DEF ServiceInv
<1>. QED  BY <1>1, <1>7, <1>8, <1>9, <1>10 DEF Lanes!Enqueue

\* A cancelled task shortens its lane.
LEMMA ShrinkMaps ==
  ASSUME TypeOK, TypeOK', ServiceInv, NEW l \in Lane, NEW i \in DOMAIN queues[l],
         LaneShrinks(l, i), Observe
  PROVE  ServiceInv' /\ Lanes!Remove(l)
<1>1. /\ ~Popped /\ totals'.started = totals.started
      /\ UNCHANGED <<urgent_burst, normal_burst, next_task_id>>
      /\ queued_tasks' = queued_tasks - 1
  BY DEF LaneShrinks, Popped
<1>2. totals.started \in Nat /\ queued_tasks \in Nat /\ next_task_id \in Nat
  BY DEF TypeOK
<1>3. /\ \A m \in Lane : m # l => queues'[m] = queues[m]
      /\ Len(queues'[l]) = Len(queues[l]) - 1
  BY DEF LaneShrinks, Removed
<1>4. LaneLengths[l] > 0
  <2>1. queues[l] \in Seq(TaskId) /\ i \in DOMAIN queues[l]
    BY DEF TypeOK
  <2>2. queues[l] # <<>>
    BY <2>1
  <2>. QED  BY <2>2, LaneLengthsAre
<1>5. LaneLengths' = [LaneLengths EXCEPT ![l] = @ - 1]
  <2>1. LaneLengths'[l] = LaneLengths[l] - 1
    BY <1>3, LaneLengthsAre
  <2>2. \A m \in Lane : m # l => LaneLengths'[m] = LaneLengths[m]
    BY <1>3, LaneLengthsAre
  <2>. QED  BY <1>4, <2>1, <2>2, LaneLengthsAre
<1>6. queues'[l] = <<>> <=> LaneLengths[l] = 1
  <2>1. LaneLengths'[l] = LaneLengths[l] - 1
    BY <1>3, LaneLengthsAre
  <2>. QED  BY <1>4, <2>1, LaneLengthsAre
<1>7. skipped' = [skipped EXCEPT ![l] = IF LaneLengths[l] = 1 THEN 0 ELSE @]
  <2>1. skipped' \in [Lane -> Nat] /\ skipped \in [Lane -> Nat]
    BY <1>1 DEF Observe, ServiceInv
  <2>2. skipped'[l] = IF LaneLengths[l] = 1 THEN 0 ELSE skipped[l]
    BY <1>1, <1>6 DEF Observe
  <2>3. \A m \in Lane : m # l => skipped'[m] = skipped[m]
    BY <1>1, <1>3 DEF Observe, ServiceInv
  <2>. QED  BY <2>1, <2>2, <2>3
<1>8. ServiceInv'
  <2>1. totals'.started + queued_tasks' < next_task_id'
    BY <1>1, <1>2 DEF ServiceInv
  <2>2. skipped' \in [Lane -> Nat] /\ \A m \in Lane : queues'[m] = <<>> => skipped'[m] = 0
    BY <1>1 DEF Observe, ServiceInv
  <2>. QED  BY <1>1, <2>1, <2>2 DEF ServiceInv
<1>. QED  BY <1>1, <1>4, <1>5, <1>7, <1>8 DEF Lanes!Remove

\* shutdown(kCancel) clears the lanes.
LEMMA EmptyMaps ==
  ASSUME TypeOK, TypeOK', ServiceInv, LanesEmpty, Observe
  PROVE  ServiceInv' /\ Lanes!Clear
<1>1. /\ ~Popped /\ totals'.started = totals.started /\ queued_tasks' = 0
      /\ UNCHANGED <<urgent_burst, normal_burst, next_task_id>>
      /\ \A l \in Lane : queues'[l] = <<>>
  BY DEF LanesEmpty, Popped
<1>2. skipped' = [l \in Lane |-> 0]
  BY <1>1 DEF Observe
<1>3. LaneLengths' = [l \in Lane |-> 0]
  BY <1>1, LaneLengthsAre
<1>4. totals'.started + queued_tasks' < next_task_id'
  <2>1. totals.started \in Nat /\ queued_tasks \in Nat /\ next_task_id \in Nat
    BY DEF TypeOK
  <2>. QED  BY <1>1, <2>1 DEF ServiceInv
<1>. QED  BY <1>1, <1>2, <1>3, <1>4, SamePolicy DEF ServiceInv, Lanes!Clear

\* pop_task_locked serves one lane and skips the others that hold work.
LEMMA ServeMaps ==
  ASSUME TypeOK, TypeOK', ServiceInv, LanesAreCounted, NEW c, LaneServed(c), Observe
  PROVE  ServiceInv' /\ Lanes!Pop
<1> DEFINE nonempty == {l \in Lane : queues[l] # <<>>}
<1>1. /\ c = SelectLane(nonempty, urgent_burst, normal_burst)
      /\ nonempty # {} /\ c.lane \in Lane /\ queues[c.lane] # <<>>
      /\ urgent_burst' = c.urgent_burst /\ normal_burst' = c.normal_burst
      /\ queued_tasks' = queued_tasks - 1 /\ next_task_id' = next_task_id
      /\ totals'.started = totals.started + 1
  BY DEF LaneServed
<1>2. /\ totals.started \in Nat /\ queued_tasks \in Nat /\ next_task_id \in Nat
      /\ urgent_burst \in Nat /\ normal_burst \in Nat
      /\ MaxTasks \in Nat /\ next_task_id <= MaxTasks + 1
  <2>1. MaxTasks \in Nat
    BY SchedulerAssumption DEF SchedulerAssumption
  <2>. QED  BY <2>1 DEF TypeOK
<1>3. /\ \A m \in Lane : m # c.lane => queues'[m] = queues[m]
      /\ Len(queues'[c.lane]) = Len(queues[c.lane]) - 1
  BY DEF LaneServed, Removed
<1>4. Popped
  BY <1>1, <1>2 DEF Popped
<1>5. LaneLengths[c.lane] > 0 /\ LaneLengths'[c.lane] = LaneLengths[c.lane] - 1
  <2>1. LaneLengths[c.lane] \in Nat /\ LaneLengths[c.lane] # 0
    BY <1>1, LaneLengthsAre
  <2>2. LaneLengths'[c.lane] = LaneLengths[c.lane] - 1
    BY <1>1, <1>3, LaneLengthsAre
  <2>. QED  BY <2>1, <2>2
<1>6. LaneLengths' = [LaneLengths EXCEPT ![c.lane] = @ - 1]
  <2>1. \A m \in Lane : m # c.lane => LaneLengths'[m] = LaneLengths[m]
    BY <1>3, LaneLengthsAre
  <2>. QED  BY <1>1, <1>5, <2>1, LaneLengthsAre
<1>7. queues'[c.lane] # queues[c.lane]
  <2>1. LaneLengths'[c.lane] # LaneLengths[c.lane]
    BY <1>1, <1>5, LaneLengthsAre
  <2>. QED  BY <1>1, <2>1, LaneLengthsAre
<1>8. Lanes!Nonempty = nonempty
  <2>1. \A l \in Lane : LaneLengths[l] > 0 <=> queues[l] # <<>>
    BY LaneLengthsAre
  <2>. QED  BY <2>1, SamePolicy DEF Lanes!Nonempty
<1>9. skipped' = [l \in Lane |-> IF l \in nonempty /\ l # c.lane THEN skipped[l] + 1 ELSE 0]
  <2>1. \A l \in Lane : (queues[l] # <<>> /\ queues'[l] = queues[l]) <=> (l \in nonempty /\ l # c.lane)
    BY <1>3, <1>7
  <2>. QED  BY <1>4, <2>1 DEF Observe
<1>10. queued_tasks > 0
  <2>1. LaneLengths[c.lane] <= queued_tasks /\ LaneLengths[c.lane] \in Nat
    BY <1>1, LanesAreBounded, LaneLengthsAre
  <2>. QED  BY <1>2, <1>5, <2>1
<1>11. urgent_burst < MaxTasks /\ normal_burst < MaxTasks
  BY <1>2, <1>10 DEF ServiceInv
<1>12. urgent_burst' <= urgent_burst + 1 /\ normal_burst' <= normal_burst + 1
  <2>1. nonempty \in SUBSET Lane /\ nonempty # {}
    BY <1>1
  <2>2. \/ c = Choice(Urgent, urgent_burst + 1, normal_burst)
        \/ c = Choice(Normal, 0, normal_burst + 1)
        \/ c = Choice(Background, 0, 0)
    BY <1>1, <1>2, <2>1 DEF SelectLane, Lane, Background, Normal, Urgent, kUrgentBurst, kNormalBurst
  <2>. QED  BY <1>1, <1>2, <2>2 DEF Choice
<1>13. ServiceInv'
  <2>1. skipped' \in [Lane -> Nat]
    BY <1>9 DEF ServiceInv
  <2>2. ASSUME NEW l \in Lane, queues'[l] = <<>> PROVE skipped'[l] = 0
    <3>1. CASE l = c.lane
      BY <1>9, <3>1
    <3>2. CASE l # c.lane
      BY <1>3, <1>9, <2>2, <3>2
    <3>. QED  BY <3>1, <3>2
  <2>3. urgent_burst' \in Nat /\ normal_burst' \in Nat
    BY DEF TypeOK
  <2>4. urgent_burst' <= totals'.started /\ normal_burst' <= totals'.started
    BY <1>1, <1>2, <1>12, <2>3 DEF ServiceInv
  <2>5. totals'.started + queued_tasks' < next_task_id'
    BY <1>1, <1>2 DEF ServiceInv
  <2>. QED  BY <2>1, <2>2, <2>4, <2>5 DEF ServiceInv
<1>14. c = Lanes!SelectLane(Lanes!Nonempty, urgent_burst, normal_burst) /\ Lanes!Nonempty # {}
  BY <1>1, <1>8, SamePolicy
<1>15. skipped' = [l \in Lanes!Lane |->
                     IF l \in Lanes!Nonempty /\ l # c.lane THEN skipped[l] + 1 ELSE 0]
  BY <1>8, <1>9, SamePolicy
<1> HIDE DEF nonempty
<1>. QED  BY <1>1, <1>6, <1>11, <1>13, <1>14, <1>15 DEF Lanes!Pop

\* The invariant behind the mapping.
ObservedInv == IInv /\ ServiceInv

\* Nothing was served yet.
LEMMA ObservedInvInit == ObservedInit => ObservedInv /\ Lanes!Init
<1> SUFFICES ASSUME ObservedInit PROVE ObservedInv /\ Lanes!Init
  OBVIOUS
<1>1. IInv
  BY IInvInit DEF ObservedInit
<1>2. ServiceInv
  BY DEF ObservedInit, Init, ServiceInv
<1>3. LaneLengths = [l \in Lane |-> 0]
  BY DEF ObservedInit, Init, LaneLengths
<1>4. Lanes!Init
  BY <1>3, SamePolicy DEF ObservedInit, Init, Lanes!Init
<1>. QED  BY <1>1, <1>2, <1>4 DEF ObservedInv

\* Every step of the scheduler is a step of the lanes or leaves them alone.
LEMMA ObservedStep ==
  ObservedInv /\ [ObservedNext]_<<vars, skipped>> => ObservedInv' /\ [Lanes!Next]_Lanes!vars
<1> SUFFICES ASSUME ObservedInv, [ObservedNext]_<<vars, skipped>>
             PROVE  ObservedInv' /\ [Lanes!Next]_Lanes!vars
  OBVIOUS
<1>1. [Next]_vars
  BY DEF ObservedNext
<1>2. IInv /\ IInv' /\ ServiceInv
  BY <1>1, IInvStep DEF ObservedInv
<1>3. TypeOK /\ TypeOK' /\ LanesAreCounted
  BY <1>2 DEF IInv, HolderInv
<1>4. CASE UNCHANGED <<vars, skipped>>
  <2>1. UNCHANGED <<queues, totals, queued_tasks, next_task_id, urgent_burst, normal_burst, skipped>>
    BY <1>4 DEF vars, queueVars, burstVars
  <2>2. ServiceInv'
    BY <1>2, <2>1 DEF ServiceInv
  <2>3. UNCHANGED Lanes!vars
    BY <2>1 DEF Lanes!vars, LaneLengths
  <2>. QED  BY <1>2, <2>2, <2>3 DEF ObservedInv
<1>5. CASE ObservedNext
  <2>1. Observe /\ LaneStep
    BY <1>1, <1>3, <1>5, StepsAreLaneSteps DEF ObservedNext
  <2>2. CASE LanesRest
    BY <1>2, <1>3, <2>1, <2>2, RestMaps DEF ObservedInv
  <2>3. ASSUME NEW l \in Lane, LaneGrows(l) PROVE ObservedInv' /\ [Lanes!Next]_Lanes!vars
    <3>1. ServiceInv' /\ Lanes!Enqueue(l) /\ l \in Lanes!Lane
      BY <1>2, <1>3, <2>1, <2>3, GrowMaps, SamePolicy
    <3>. QED  BY <1>2, <3>1 DEF ObservedInv, Lanes!Next
  <2>4. ASSUME NEW l \in Lane, NEW i \in DOMAIN queues[l], LaneShrinks(l, i)
        PROVE  ObservedInv' /\ [Lanes!Next]_Lanes!vars
    <3>1. ServiceInv' /\ Lanes!Remove(l) /\ l \in Lanes!Lane
      BY <1>2, <1>3, <2>1, <2>4, ShrinkMaps, SamePolicy
    <3>. QED  BY <1>2, <3>1 DEF ObservedInv, Lanes!Next
  <2>5. CASE LanesEmpty
    BY <1>2, <1>3, <2>1, <2>5, EmptyMaps DEF ObservedInv, Lanes!Next
  <2>6. ASSUME NEW c, LaneServed(c) PROVE ObservedInv' /\ [Lanes!Next]_Lanes!vars
    BY <1>2, <1>3, <2>1, <2>6, ServeMaps DEF ObservedInv, Lanes!Next
  <2>. QED  BY <2>1, <2>2, <2>3, <2>4, <2>5, <2>6 DEF LaneStep
<1>. QED  BY <1>4, <1>5

\* The scheduler, with all its threads, deques, cancellations and shutdowns,
\* implements the arbitration of lane lengths: whatever pop_task_locked,
\* submit, cancel and shutdown do to the deques is what LaneArbitration allows.
THEOREM SchedulerImplementsLanes == ObservedSpec => Lanes!Spec
BY ObservedInvInit, ObservedStep, PTL DEF ObservedSpec, Lanes!Spec

\* No lane of the scheduler waits longer than the arbitration allows, whatever its
\* workers, submitters, cancellations and shutdowns do: a waiting background lane
\* is passed over at most 14 times, a normal one 9 times, an urgent one once.
THEOREM SchedulerStarvesNoLane == ObservedSpec => []Lanes!WaitIsBounded
<1>1. MaxTasks \in Nat
  BY SchedulerAssumption DEF SchedulerAssumption
<1>2. Lanes!Spec => []Lanes!WaitIsBounded
  BY <1>1, Lanes!NoStarvation
<1>. QED  BY SchedulerImplementsLanes, <1>2, PTL
=============================================================================
