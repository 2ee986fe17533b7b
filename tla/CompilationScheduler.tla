------------------------ MODULE CompilationScheduler ------------------------
(***************************************************************************)
(* The background compilation scheduler                                    *)
(* (src/jit/compilation_scheduler.cpp): worker threads, submitting threads,*)
(* cancellation, idle waits and shutdown around one mutex, three condition *)
(* variables and a second mutex for shutdown.                              *)
(*                                                                         *)
(* An action is one critical section of the scheduler's mutex, or one step *)
(* a thread takes outside it.  A thread asleep on a condition variable has *)
(* its own program counter value; a notification moves it to the value in  *)
(* which it must take the mutex again and re-test its predicate.           *)
(*                                                                         *)
(* Left out: the text of statuses, the peak and rejection counters (only   *)
(* written, and only read by stats()), and wait()/wait_for() on a ticket,  *)
(* whose predicate is that the task's state is terminal.  The job itself   *)
(* is the time between WorkerPop and JobReturn.                            *)
(***************************************************************************)
EXTENDS LanePolicy, Integers, Sequences, SequencesExt, FiniteSets

CONSTANTS
  Worker,                \* the worker threads
  Client,                \* threads that block in submit_for, wait_idle, shutdown
  Key,                   \* pairs (identity, generation)
  Request,               \* the requests that are submitted
  maximum_queued_tasks,
  maximum_queued_bytes,
  ShutdownCallers,       \* the threads that call shutdown
  MaxTasks               \* bound on the number of submissions

TaskId == 1..MaxTasks

\* The identity table holds no task under a key.
NoTask == 0

\* No thread holds shutdown_mutex.
NoThread == "none"

\* Filler for the request of a task or a client that has none.
NoRequest == CHOOSE r \in Request : TRUE

ASSUME SchedulerAssumption ==
  /\ Request # {}
  /\ Request \subseteq [key : Key, estimated_bytes : Nat \ {0}, priority : Lane]
  /\ maximum_queued_tasks \in Nat \ {0}
  /\ maximum_queued_bytes \in Nat \ {0}
  /\ MaxTasks \in Nat
  /\ Worker \cap Client = {}
  /\ NoThread \notin Worker \cup Client
  /\ ShutdownCallers \subseteq Worker \cup Client

\* Deadlock and wake-up arguments need the threads to be finitely many.
ASSUME ThreadsAssumption == IsFiniteSet(Worker) /\ IsFiniteSet(Client)

VARIABLES
  \* CompilationTask, by task id
  state,                   \* CompilationTaskState; "none" before submission
  request,                 \* identity and generation, bytes, priority
  cancellation_requested,
  \* CompilationSchedulerState
  queues,                  \* the three deques
  identities,              \* live task of each key
  queued_tasks, queued_bytes, active_workers, accepting,
  totals,                  \* submitted, started, succeeded, failed, cancelled
  next_task_id, urgent_burst, normal_burst,
  \* CompilationScheduler::Impl
  shutdown_owner,          \* holder of shutdown_mutex
  joined,
  detached,                \* workers whose std::thread was detached
  \* threads
  wpc,                     \* where each worker is in run_worker
  wtask,                   \* its local `task`
  final_state,             \* its local `final_state`
  cpc,                     \* where each client is
  creq                     \* the request a client waits to submit

taskVars == <<state, request, cancellation_requested>>
queueVars == <<queues, identities, queued_tasks, queued_bytes, next_task_id>>
burstVars == <<urgent_burst, normal_burst>>
stopVars == <<shutdown_owner, joined, detached>>
workerVars == <<wpc, wtask, final_state>>
clientVars == <<cpc, creq>>

vars == <<taskVars, queueVars, active_workers, accepting, totals, burstVars,
          stopVars, workerVars, clientVars>>

TaskState == {"none", "queued", "running", "succeeded", "failed", "cancelled"}

\* terminal()
Terminal == {"succeeded", "failed", "cancelled"}

Live == {"queued", "running"}

\* A worker's job is between its pop and its completion.
Busy == {"running", "stop_wait", "joining", "finishing"}

TypeOK ==
  /\ state \in [TaskId -> TaskState]
  /\ request \in [TaskId -> Request]
  /\ cancellation_requested \in [TaskId -> BOOLEAN]
  /\ queues \in [Lane -> Seq(TaskId)]
  /\ identities \in [Key -> TaskId \cup {NoTask}]
  /\ queued_tasks \in Nat
  /\ queued_bytes \in 0..maximum_queued_bytes
  /\ active_workers \in Nat
  /\ accepting \in BOOLEAN
  /\ totals \in [submitted : Nat, started : Nat, succeeded : Nat, failed : Nat, cancelled : Nat]
  /\ next_task_id \in 1..(MaxTasks + 1)
  /\ urgent_burst \in Nat
  /\ normal_burst \in Nat
  /\ shutdown_owner \in Worker \cup Client \cup {NoThread}
  /\ joined \in BOOLEAN
  /\ detached \subseteq Worker
  /\ wpc \in [Worker -> {"ready", "waiting", "exited"} \cup Busy]
  /\ wtask \in [Worker -> TaskId \cup {NoTask}]
  /\ final_state \in [Worker -> Terminal]
  /\ cpc \in [Client -> {"idle", "blocked", "woken", "idle_wait", "idle_woken", "joining"}]
  /\ creq \in [Client -> Request]

Init ==
  /\ state = [t \in TaskId |-> "none"]
  /\ request = [t \in TaskId |-> NoRequest]
  /\ cancellation_requested = [t \in TaskId |-> FALSE]
  /\ queues = [l \in Lane |-> <<>>]
  /\ identities = [k \in Key |-> NoTask]
  /\ queued_tasks = 0
  /\ queued_bytes = 0
  /\ active_workers = 0
  /\ accepting = TRUE
  /\ totals = [submitted |-> 0, started |-> 0, succeeded |-> 0, failed |-> 0, cancelled |-> 0]
  /\ next_task_id = 1
  /\ urgent_burst = 0
  /\ normal_burst = 0
  /\ shutdown_owner = NoThread
  /\ joined = FALSE
  /\ detached = {}
  /\ wpc = [w \in Worker |-> "ready"]
  /\ wtask = [w \in Worker |-> NoTask]
  /\ final_state = [w \in Worker |-> "failed"]
  /\ cpc = [c \in Client |-> "idle"]
  /\ creq = [c \in Client |-> NoRequest]

-----------------------------------------------------------------------------
(* Helpers: what several operations do under the mutex.                     *)

\* find_task_locked: the live task of the request's identity and generation.
Existing(r) == identities[r.key]

\* queue_has_capacity
HasCapacity(r) ==
  /\ queued_tasks < maximum_queued_tasks
  /\ r.estimated_bytes <= maximum_queued_bytes - queued_bytes

\* The predicate of wait_idle, and the test before idle.notify_all().
Idle(tasks, workers) == tasks = 0 /\ workers = 0

\* Mutant: nobody is notified.
WakeNobody(pc) == pc

\* queue_space.notify_all() in the client counters pc.
WakeSubmitters(pc) == [c \in Client |-> IF pc[c] = "blocked" THEN "woken" ELSE pc[c]]

\* Mutant: idle is never notified.
WakeIdlersNever(idle, pc) == pc

\* if (queued_tasks == 0 && active_workers == 0) idle.notify_all()
WakeIdlersIf(idle, pc) ==
  [c \in Client |-> IF idle /\ pc[c] = "idle_wait" THEN "idle_woken" ELSE pc[c]]

\* erase_task_locked: only the entry that still points at this task goes.
Erase(table, t) ==
  [k \in Key |-> IF k = request[t].key /\ table[k] = t THEN NoTask ELSE table[k]]

\* priority_lane: the deque of a request.  The enum's values index the array.
PriorityLane(r) == r.priority

\* Mutant: the byte budget is not given back.
ReleaseTasksOnly(t) ==
  /\ queued_tasks' = queued_tasks - 1
  /\ UNCHANGED queued_bytes

\* A task leaves its deque: both admission budgets shrink.
ReleaseBudget(t) ==
  /\ queued_tasks' = queued_tasks - 1
  /\ queued_bytes' = queued_bytes - request[t].estimated_bytes

\* pop_front on the chosen deque.
PopFront(l) == queues' = [queues EXCEPT ![l] = Tail(@)]

\* Mutant: a new task wakes nobody.
NotifyNoWorker == UNCHANGED wpc

\* work_available.notify_one(): some sleeping worker, if there is one.
NotifyOneWorker ==
  \/ /\ \A w \in Worker : wpc[w] # "waiting"
     /\ UNCHANGED wpc
  \/ \E w \in Worker : /\ wpc[w] = "waiting"
                       /\ wpc' = [wpc EXCEPT ![w] = "ready"]

\* Bound: every client asleep in submit_for keeps a task id in reserve.
IdsLeft ==
  next_task_id + Cardinality({c \in Client : cpc[c] \in {"blocked", "woken"}}) <= MaxTasks

-----------------------------------------------------------------------------
(* submit: admission of new work.                                           *)

\* The second half of submit, when no equivalent task is live, the scheduler
\* accepts and there is capacity: the task enters both tables.
Admit(r) ==
  /\ Existing(r) = NoTask
  /\ accepting
  /\ HasCapacity(r)
  /\ next_task_id \in TaskId
  /\ state' = [state EXCEPT ![next_task_id] = "queued"]
  /\ request' = [request EXCEPT ![next_task_id] = r]
  /\ identities' = [identities EXCEPT ![r.key] = next_task_id]
  /\ queues' = [queues EXCEPT ![PriorityLane(r)] = Append(@, next_task_id)]
  /\ queued_tasks' = queued_tasks + 1
  /\ queued_bytes' = queued_bytes + r.estimated_bytes
  /\ next_task_id' = next_task_id + 1
  /\ totals' = [totals EXCEPT !.submitted = @ + 1]
  /\ NotifyOneWorker
  /\ UNCHANGED <<cancellation_requested, wtask, final_state>>

\* Mutant: the rollback is missing, the identity stays in the table.
AdmitOutOfMemoryNoRollback(r) ==
  /\ Existing(r) = NoTask
  /\ accepting
  /\ HasCapacity(r)
  /\ next_task_id \in TaskId
  /\ next_task_id' = next_task_id + 1
  /\ identities' = [identities EXCEPT ![r.key] = next_task_id]
  /\ UNCHANGED <<taskVars, queues, queued_tasks, queued_bytes, totals, workerVars>>

\* The same, when an allocation throws bad_alloc: the id is spent and the
\* tables are as before (the inner handler erases the identity it entered).
AdmitOutOfMemory(r) ==
  /\ Existing(r) = NoTask
  /\ accepting
  /\ HasCapacity(r)
  /\ next_task_id \in TaskId
  /\ next_task_id' = next_task_id + 1
  /\ UNCHANGED <<taskVars, queues, identities, queued_tasks, queued_bytes, totals, workerVars>>

\* try_submit by any thread, and submit_for when it need not wait.  A request
\* that validate_request refuses, that finds an equivalent task, a closed
\* scheduler or no capacity returns without a change of the modelled state.
TrySubmit(r) ==
  /\ r.estimated_bytes <= maximum_queued_bytes
  /\ IdsLeft
  /\ Admit(r) \/ AdmitOutOfMemory(r)
  /\ UNCHANGED <<active_workers, accepting, burstVars, stopVars, clientVars>>

\* submit_for when the queue is full: sleep on queue_space.
SubmitFor(c, r) ==
  /\ cpc[c] = "idle"
  /\ r.estimated_bytes <= maximum_queued_bytes
  /\ IdsLeft
  /\ Existing(r) = NoTask
  /\ accepting
  /\ ~HasCapacity(r)
  /\ cpc' = [cpc EXCEPT ![c] = "blocked"]
  /\ creq' = [creq EXCEPT ![c] = r]
  /\ UNCHANGED <<taskVars, queueVars, active_workers, accepting, totals, burstVars,
                 stopVars, workerVars>>

\* The loop of submit after wait_until returned no_timeout.
SubmitResume(c) ==
  /\ cpc[c] = "woken"
  /\ \/ /\ Existing(creq[c]) # NoTask \/ ~accepting
        /\ cpc' = [cpc EXCEPT ![c] = "idle"]
        /\ creq' = [creq EXCEPT ![c] = NoRequest]
        /\ UNCHANGED <<taskVars, queueVars, totals, workerVars>>
     \/ /\ Admit(creq[c]) \/ AdmitOutOfMemory(creq[c])
        /\ cpc' = [cpc EXCEPT ![c] = "idle"]
        /\ creq' = [creq EXCEPT ![c] = NoRequest]
     \/ /\ Existing(creq[c]) = NoTask
        /\ accepting
        /\ ~HasCapacity(creq[c])
        /\ cpc' = [cpc EXCEPT ![c] = "blocked"]
        /\ UNCHANGED <<taskVars, queueVars, totals, workerVars, creq>>
  /\ UNCHANGED <<active_workers, accepting, burstVars, stopVars>>

\* wait_until returned timeout, notified or not: kDeadlineExceeded, without
\* another look at the identity table or the budgets.
SubmitTimeout(c) ==
  /\ cpc[c] \in {"blocked", "woken"}
  /\ cpc' = [cpc EXCEPT ![c] = "idle"]
  /\ creq' = [creq EXCEPT ![c] = NoRequest]
  /\ UNCHANGED <<taskVars, queueVars, active_workers, accepting, totals, burstVars,
                 stopVars, workerVars>>

-----------------------------------------------------------------------------
(* CompilationTicket::cancel by any thread that holds a ticket.             *)

CancelQueued(t) ==
  /\ state[t] = "queued"
  /\ LET lane == PriorityLane(request[t])
     IN  \E i \in DOMAIN queues[lane] :
           /\ queues[lane][i] = t
           /\ queues' = [queues EXCEPT ![lane] = RemoveAt(@, i)]
  /\ state' = [state EXCEPT ![t] = "cancelled"]
  /\ cancellation_requested' = [cancellation_requested EXCEPT ![t] = TRUE]
  /\ ReleaseBudget(t)
  /\ identities' = Erase(identities, t)
  /\ totals' = [totals EXCEPT !.cancelled = @ + 1]
  /\ cpc' = WakeIdlersIf(Idle(queued_tasks', active_workers), WakeSubmitters(cpc))
  /\ UNCHANGED <<request, next_task_id, active_workers, accepting, burstVars, stopVars,
                 workerVars, creq>>

\* Running work is only asked to stop.
CancelRunning(t) ==
  /\ state[t] = "running"
  /\ cancellation_requested' = [cancellation_requested EXCEPT ![t] = TRUE]
  /\ UNCHANGED <<state, request, queueVars, active_workers, accepting, totals, burstVars,
                 stopVars, workerVars, clientVars>>

Cancel(t) == CancelQueued(t) \/ CancelRunning(t)

-----------------------------------------------------------------------------
(* run_worker.                                                              *)

\* The wait predicate is false: sleep on work_available.
WorkerPark(w) ==
  /\ wpc[w] = "ready"
  /\ queued_tasks = 0
  /\ accepting
  /\ wpc' = [wpc EXCEPT ![w] = "waiting"]
  /\ UNCHANGED <<taskVars, queueVars, active_workers, accepting, totals, burstVars,
                 stopVars, wtask, final_state, clientVars>>

\* Nothing left and the scheduler is closed: the thread returns.
WorkerExit(w) ==
  /\ wpc[w] = "ready"
  /\ queued_tasks = 0
  /\ ~accepting
  /\ wpc' = [wpc EXCEPT ![w] = "exited"]
  /\ UNCHANGED <<taskVars, queueVars, active_workers, accepting, totals, burstVars,
                 stopVars, wtask, final_state, clientVars>>

\* pop_task_locked
WorkerPop(w) ==
  /\ wpc[w] = "ready"
  /\ queued_tasks # 0
  /\ LET nonempty == {l \in Lane : queues[l] # <<>>}
         choice == SelectLane(nonempty, urgent_burst, normal_burst)
         t == Head(queues[choice.lane])
     IN  /\ nonempty # {}
         /\ PopFront(choice.lane)
         /\ urgent_burst' = choice.urgent_burst
         /\ normal_burst' = choice.normal_burst
         /\ ReleaseBudget(t)
         /\ state' = [state EXCEPT ![t] = "running"]
         /\ wtask' = [wtask EXCEPT ![w] = t]
  /\ active_workers' = active_workers + 1
  /\ totals' = [totals EXCEPT !.started = @ + 1]
  /\ wpc' = [wpc EXCEPT ![w] = "running"]
  /\ cpc' = WakeSubmitters(cpc)
  /\ UNCHANGED <<request, cancellation_requested, identities, next_task_id, accepting,
                 stopVars, final_state, creq>>

\* The job returns or throws, and the worker decides the final state from the
\* cancellation flag as it is now, before it takes the mutex.
JobReturn(w, outcome) ==
  /\ wpc[w] = "running"
  /\ wpc' = [wpc EXCEPT ![w] = "finishing"]
  /\ final_state' = [final_state EXCEPT
       ![w] = IF cancellation_requested[wtask[w]] THEN "cancelled" ELSE outcome]
  /\ UNCHANGED <<taskVars, queueVars, active_workers, accepting, totals, burstVars,
                 stopVars, wtask, clientVars>>

\* The second critical section of run_worker, with complete_task_locked.
WorkerComplete(w) ==
  /\ wpc[w] = "finishing"
  /\ active_workers' = active_workers - 1
  /\ identities' = Erase(identities, wtask[w])
  /\ totals' = [totals EXCEPT ![final_state[w]] = @ + 1]
  /\ state' = [state EXCEPT ![wtask[w]] = final_state[w]]
  /\ cpc' = WakeSubmitters(WakeIdlersIf(Idle(queued_tasks, active_workers'), cpc))
  /\ wpc' = [wpc EXCEPT ![w] = "ready"]
  /\ wtask' = [wtask EXCEPT ![w] = NoTask]
  /\ final_state' = [final_state EXCEPT ![w] = "failed"]
  /\ UNCHANGED <<request, cancellation_requested, queues, queued_tasks, queued_bytes,
                 next_task_id, accepting, burstVars, stopVars, creq>>

-----------------------------------------------------------------------------
(* wait_idle and wait_idle_for.                                             *)

WaitIdle(c) ==
  /\ cpc[c] = "idle"
  /\ ~Idle(queued_tasks, active_workers)
  /\ cpc' = [cpc EXCEPT ![c] = "idle_wait"]
  /\ UNCHANGED <<taskVars, queueVars, active_workers, accepting, totals, burstVars,
                 stopVars, workerVars, creq>>

IdleResume(c) ==
  /\ cpc[c] = "idle_woken"
  /\ cpc' = [cpc EXCEPT ![c] =
       IF Idle(queued_tasks, active_workers) THEN "idle" ELSE "idle_wait"]
  /\ UNCHANGED <<taskVars, queueVars, active_workers, accepting, totals, burstVars,
                 stopVars, workerVars, creq>>

IdleTimeout(c) ==
  /\ cpc[c] \in {"idle_wait", "idle_woken"}
  /\ cpc' = [cpc EXCEPT ![c] = "idle"]
  /\ UNCHANGED <<taskVars, queueVars, active_workers, accepting, totals, burstVars,
                 stopVars, workerVars, creq>>

-----------------------------------------------------------------------------
(* shutdown, called by a client or from inside a job.                       *)

\* The critical section of shutdown with shutdown_mutex held by `thread`.
Close(thread, mode) ==
  /\ shutdown_owner = NoThread
  /\ ~joined
  /\ shutdown_owner' = thread
  /\ accepting' = FALSE
  /\ IF mode = "kCancel"
     THEN /\ cancellation_requested' = [t \in TaskId |->
               cancellation_requested[t] \/ \E k \in Key : identities[k] = t]
          /\ state' = [t \in TaskId |->
               IF \E l \in Lane : \E i \in DOMAIN queues[l] : queues[l][i] = t
               THEN "cancelled" ELSE state[t]]
          /\ identities' = [k \in Key |->
               IF \E l \in Lane : \E i \in DOMAIN queues[l] : queues[l][i] = identities[k]
               THEN NoTask ELSE identities[k]]
          /\ totals' = [totals EXCEPT
               !.cancelled = @ + Len(queues[0]) + Len(queues[1]) + Len(queues[2])]
          /\ queues' = [l \in Lane |-> <<>>]
          /\ queued_tasks' = 0
          /\ queued_bytes' = 0
     ELSE UNCHANGED <<cancellation_requested, state, identities, totals, queues,
                      queued_tasks, queued_bytes>>
  /\ UNCHANGED <<request, next_task_id, active_workers, burstVars, joined, detached,
                 wtask, final_state, creq>>

\* work_available.notify_all()
WakeWorkers(pc) == [w \in Worker |-> IF pc[w] = "waiting" THEN "ready" ELSE pc[w]]

\* The embedder does not call shutdown while a job of another worker is about
\* to, or the two would wait for each other: one for the mutex, one for the
\* other's thread.
NoShutdownPending == shutdown_owner = NoThread /\ \A w \in Worker : wpc[w] # "stop_wait"

Shutdown(c, mode) ==
  /\ c \in ShutdownCallers
  /\ cpc[c] = "idle"
  /\ NoShutdownPending
  /\ Close(c, mode)
  /\ wpc' = WakeWorkers(wpc)
  /\ cpc' = [WakeIdlersIf(Idle(queued_tasks', active_workers), WakeSubmitters(cpc))
               EXCEPT ![c] = "joining"]

\* Every worker was joined, or detached earlier: return and unlock.
ShutdownJoin(c) ==
  /\ cpc[c] = "joining"
  /\ \A w \in Worker : wpc[w] = "exited" \/ w \in detached
  /\ joined' = TRUE
  /\ shutdown_owner' = NoThread
  /\ cpc' = [cpc EXCEPT ![c] = "idle"]
  /\ UNCHANGED <<taskVars, queueVars, active_workers, accepting, totals, burstVars,
                 detached, workerVars, creq>>

\* A job calls shutdown: from here it needs shutdown_mutex.  A call after the
\* shutdown has finished returns at once and changes nothing.
JobCallsShutdown(w) ==
  /\ w \in ShutdownCallers
  /\ wpc[w] = "running"
  /\ NoShutdownPending
  /\ ~joined
  /\ wpc' = [wpc EXCEPT ![w] = "stop_wait"]
  /\ UNCHANGED <<taskVars, queueVars, active_workers, accepting, totals, burstVars,
                 stopVars, wtask, final_state, clientVars>>

JobShutdown(w, mode) ==
  /\ wpc[w] = "stop_wait"
  /\ Close(w, mode)
  /\ wpc' = [WakeWorkers(wpc) EXCEPT ![w] = "joining"]
  /\ cpc' = WakeIdlersIf(Idle(queued_tasks', active_workers), WakeSubmitters(cpc))

\* Mutant: the callback detaches itself and joins nobody.
JobShutdownNoJoin(w) ==
  /\ wpc[w] = "joining"
  /\ detached' = detached \cup {w}
  /\ joined' = TRUE
  /\ shutdown_owner' = NoThread
  /\ wpc' = [wpc EXCEPT ![w] = "running"]
  /\ UNCHANGED <<taskVars, queueVars, active_workers, accepting, totals, burstVars,
                 wtask, final_state, clientVars>>

\* Mutant: the calling worker joins itself too.
JobShutdownJoinsItself(w) ==
  /\ wpc[w] = "joining"
  /\ \A v \in Worker : wpc[v] = "exited"
  /\ joined' = TRUE
  /\ shutdown_owner' = NoThread
  /\ wpc' = [wpc EXCEPT ![w] = "running"]
  /\ UNCHANGED <<taskVars, queueVars, active_workers, accepting, totals, burstVars,
                 detached, wtask, final_state, clientVars>>

\* It detaches its own thread, has joined the others, and the job goes on.
JobShutdownJoin(w) ==
  /\ wpc[w] = "joining"
  /\ \A v \in Worker \ {w} : wpc[v] = "exited" \/ v \in detached
  /\ detached' = detached \cup {w}
  /\ joined' = TRUE
  /\ shutdown_owner' = NoThread
  /\ wpc' = [wpc EXCEPT ![w] = "running"]
  /\ UNCHANGED <<taskVars, queueVars, active_workers, accepting, totals, burstVars,
                 wtask, final_state, clientVars>>

-----------------------------------------------------------------------------
\* A condition variable may wake a thread that nobody notified.
SpuriousWakeup ==
  /\ \/ \E w \in Worker : /\ wpc[w] = "waiting"
                          /\ wpc' = [wpc EXCEPT ![w] = "ready"]
                          /\ UNCHANGED cpc
     \/ \E c \in Client : /\ cpc[c] \in {"blocked", "idle_wait"}
                          /\ cpc' = [cpc EXCEPT ![c] =
                               IF @ = "blocked" THEN "woken" ELSE "idle_woken"]
                          /\ UNCHANGED wpc
  /\ UNCHANGED <<taskVars, queueVars, active_workers, accepting, totals, burstVars,
                 stopVars, wtask, final_state, creq>>

JobStep(w) ==
  \/ \E outcome \in Terminal : JobReturn(w, outcome)
  \/ JobCallsShutdown(w)

WorkerStep(w) ==
  \/ WorkerPark(w) \/ WorkerExit(w) \/ WorkerPop(w)
  \/ WorkerComplete(w)
  \/ \E mode \in {"kDrain", "kCancel"} : JobShutdown(w, mode)
  \/ JobShutdownJoin(w)

ClientStep(c) == SubmitResume(c) \/ IdleResume(c) \/ ShutdownJoin(c)

ClientCall(c) ==
  \/ \E r \in Request : SubmitFor(c, r)
  \/ SubmitTimeout(c)
  \/ WaitIdle(c) \/ IdleTimeout(c)
  \/ \E mode \in {"kDrain", "kCancel"} : Shutdown(c, mode)

Next ==
  \/ \E r \in Request : TrySubmit(r)
  \/ \E t \in TaskId : Cancel(t)
  \/ \E w \in Worker : WorkerStep(w) \/ JobStep(w)
  \/ \E c \in Client : ClientStep(c) \/ ClientCall(c)
  \/ SpuriousWakeup

Spec == Init /\ [][Next]_vars

\* Threads that can run do run, jobs return (the cooperative contract), and a
\* woken thread gets its mutex; nobody is obliged to submit, cancel, time out
\* or shut down.
Fairness ==
  /\ \A w \in Worker : WF_vars(WorkerStep(w)) /\ WF_vars(JobStep(w))
  /\ \A c \in Client : WF_vars(ClientStep(c))

FairSpec == Spec /\ Fairness

-----------------------------------------------------------------------------
(* Safety.                                                                  *)

\* A task id that some deque holds.
InQueue(t) == \E l \in Lane : \E i \in DOMAIN queues[l] : queues[l][i] = t

\* The identity table and the tasks agree: a key's entry is its one live
\* (queued or running) task and every live task is the entry of its key, so
\* equal identity and generation are never compiled twice at once
\* (find_task_locked, erase_task_locked, the rollback in submit).
KeysNameLiveTasks ==
  /\ \A k \in Key : identities[k] # NoTask =>
       /\ state[identities[k]] \in Live
       /\ request[identities[k]].key = k
  /\ \A t \in TaskId : state[t] \in Live => identities[request[t].key] = t

\* A deque holds queued tasks of its own priority, in submission order and
\* none that was cancelled, and every queued task is in its lane (submit's
\* push_back, pop_front, cancel's erase, shutdown's swap).
DequesHoldQueued ==
  /\ \A l \in Lane : \A i \in DOMAIN queues[l] :
       /\ state[queues[l][i]] = "queued" /\ ~cancellation_requested[queues[l][i]]
       /\ request[queues[l][i]].priority = l
  /\ \A l \in Lane : \A i, j \in DOMAIN queues[l] : i < j => queues[l][i] < queues[l][j]
  /\ \A t \in TaskId : state[t] = "queued" => InQueue(t)

\* A running task is the local task of exactly one worker, between its pop and
\* its completion: no task is executed twice, none is dropped (run_worker).
WorkersHoldRunning ==
  /\ \A w \in Worker :
       IF wpc[w] \in Busy THEN wtask[w] \in TaskId /\ state[wtask[w]] = "running"
                          ELSE wtask[w] = NoTask
  /\ \A v, w \in Worker : wpc[v] \in Busy /\ wtask[v] = wtask[w] => v = w
  /\ \A t \in TaskId : state[t] = "running" => \E w \in Worker : wtask[w] = t

\* Every live task is in exactly one place.
OneHolder == DequesHoldQueued /\ WorkersHoldRunning

\* Cancelled or not, shared or not, a task that was admitted is found under its
\* key and is in one place until it ends.
EveryTaskHasOneHolder == KeysNameLiveTasks /\ OneHolder

InState(s) == {t \in TaskId : state[t] = s}
EstimatedBytes == [t \in TaskId |-> request[t].estimated_bytes]

\* The byte budget is spent on what is queued, and on nothing else.
BytesBalance == queued_bytes = MapThenSumSet(LAMBDA t : EstimatedBytes[t], InState("queued"))

\* The admission budgets and statistics equal what they count, whichever of
\* pop, cancel, completion, out-of-memory and shutdown happened in between.
AccountsBalance ==
  /\ queued_tasks = Cardinality(InState("queued"))
  /\ BytesBalance
  /\ active_workers = Cardinality(InState("running"))
  /\ totals.submitted = totals.succeeded + totals.failed + totals.cancelled
                        + queued_tasks + active_workers
  /\ totals.cancelled = Cardinality(InState("cancelled"))

\* A submitter asleep on queue_space has no room and the scheduler is open.
\* submit's loop ends on a third condition, an equivalent task, which is not
\* claimed here: admission notifies no submitter, so one may sleep beside the
\* task it could share, until room is made or its deadline passes.
SleepingSubmitterHasNoCapacity ==
  \A c \in Client : cpc[c] = "blocked" => accepting /\ ~HasCapacity(creq[c])

\* A thread asleep on `idle` has something to wait for.
SleepingIdlerHasWork ==
  \A c \in Client : cpc[c] = "idle_wait" => ~Idle(queued_tasks, active_workers)

\* If workers sleep, every queued task has a worker of its own on the way to
\* take it, and no worker sleeps through a shutdown: notify_one is enough.
WorkConserving ==
  (\E w \in Worker : wpc[w] = "waiting") =>
    /\ accepting
    /\ queued_tasks <= Cardinality({w \in Worker : wpc[w] = "ready"})

\* No wake-up is lost that the threads depend on: queue_space is notified by
\* every step that makes room or closes the scheduler, idle by every step that
\* ends the last task, and work_available often enough for each queued task to
\* have a worker on its way, however the sleepers and the steps interleave.
NoLostWakeup == SleepingSubmitterHasNoCapacity /\ SleepingIdlerHasWork /\ WorkConserving

\* When shutdown has returned, the only job that may still run is one that
\* called shutdown itself and was detached, and nothing is queued unless the
\* detached caller is the only worker there is: then draining is left to it.
JoinedMeansDone ==
  joined => \A t \in TaskId : state[t] \in Live =>
              \/ state[t] = "running" /\ \E w \in detached : wtask[w] = t
              \/ state[t] = "queued" /\ detached = Worker

-----------------------------------------------------------------------------
(* Liveness, under Fairness.                                                *)

\* Every accepted task completes (its ticket's wait() returns).
TasksComplete == \A t \in TaskId : state[t] \in Live ~> state[t] \in Terminal

\* A blocked submit_for or wait_idle returns even if its deadline never comes.
WaitersReturn ==
  \A c \in Client :
    cpc[c] \in {"blocked", "woken", "idle_wait", "idle_woken"} ~> cpc[c] = "idle"

\* shutdown returns, in either mode.
ShutdownReturns ==
  /\ \A c \in Client : cpc[c] = "joining" ~> cpc[c] = "idle"
  /\ \A w \in Worker : wpc[w] \in {"stop_wait", "joining"} ~> wpc[w] = "running"
=============================================================================
