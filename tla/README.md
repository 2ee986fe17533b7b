# UniJIT: a TLA+ verification project

UniJIT is an embeddable just-in-time compiler in C++: a typed SSA intermediate
representation with a reference interpreter, an optimizer and three machine-code
backends; a runtime of execution contexts, assumptions, deoptimization and
on-stack replacement; and a service layer of background compilation, tiering
and a code cache that the Lua, QuickJS and PocketPy frontends share.

This directory models what is hard to test in it: threads that interleave, one
step of several that fails, a stale value that is used, something that must
eventually happen, and a program whose meaning has to survive an optimizer, a
register allocator and three backends. Every definition is translated from the
source; `PROJECT.json` gives the lines each one stands for, every component with
its status, and the hazards with the properties that would catch them.

## 1. The system

| Component | State it keeps | Operations | What is hard |
|---|---|---|---|
| Compilation scheduler (`src/jit/compilation_scheduler.cpp`) | three deques, an identity table, byte and task budgets, burst counters, workers, tickets | `try_submit`, `submit_for`, `cancel`, `wait_idle`, `shutdown`, the worker loop | three condition variables, cancellation racing the workers, allocation failure halfway through admission, shutdown from inside a job |
| Assumptions (`src/runtime/assumption.cpp`) and the poll word (`execution_context.h`) | per token: valid flag, contexts of active invocations; per context: interrupt and wake bits | `invalidate`, activation around `CompiledFunction::invoke`, `request_interrupt` | an invalidation at any moment of an invocation; a sleeping invalidator; two signals in one word |
| Tiering (`src/jit/tiering.cpp`) | the published state (code, tier, generation), hotness counters, the compilation claim | `publish_baseline`, `publish_optimized`, `withdraw_optimized`, `try_begin_optimization`, `report_optimization_failure`, `invoke` | readers without a lock, several stores per transition, compilers and exits that arrive late |
| Code cache (`src/jit/code_cache.cpp`) | entries with stamps, the byte budget, two counters | `find`, `publish`, `invalidate`, `clear` | assumptions that fall while code is published, the eviction loop, allocation failure after evictions, the wrap of the access clock |
| Frontends (`frontend/*/jit_module.cpp`) | per function: tiered code, a ticket | call, cancel, collect, the optimization job | a claim that crosses from the script thread to a worker and back |
| Compiler and compiled functions (`src/jit/compiler.cpp`) | code, stack maps, patch cells, fast-call table | `compile`, `invoke`, `enter_osr`, `bind_fast_call`, patch-cell access | nested bindings of one context, concurrent table publication |
| Deoptimization, materialization, OSR (`src/runtime/`) | recovery records, plans, frames | reconstruct, materialize, marshal | an exit whose captured values belong to another site; failing host callbacks |
| IR: builders, verifiers, optimizers, interpreters (`src/ir/`) | nodes, blocks, descriptors, frame locals, bound memory and objects | build, verify, optimize, evaluate | an optimized program must mean what the source means, at its exits too |
| Portable package (`src/ir/package.cpp`) | bytes | encode, decode | order of checks on untrusted bytes |
| Register allocator (`src/jit/register_allocator.cpp`) | intervals, locations, stack maps | allocate, order edge moves, compute liveness | no two live values in one register, edges that permute registers, a map that misses a value |
| Backends (`src/jit/backend/*`) | a code buffer | lower | three instruction sequences for one meaning: fixed registers, traps, unaligned and exclusive accesses, exits with an epilogue of their own |
| Executable memory (`src/jit/executable_memory.cpp`) | mappings | map, make executable, release | code in use when its last owner goes |
| C embedding (`src/embedding.cpp`) | opaque handles | the C ABI | lifetimes and error paths |

How they interact: a frontend compiles a function (compiler), publishes it as a
baseline (tiering, code cache) and calls it (`invoke`, with the assumption
protocol). A hot call takes the compilation claim and submits a job to the
scheduler; the job compiles again and publishes the optimized tier. An
invalidated assumption makes running code leave at a safepoint; the exit
withdraws the tier and the interpreter takes over from the reconstructed frame.
Three locks are involved that never nest (the scheduler's mutex, the publication
mutex, a token's mutex), plus atomics read without any lock: the tier state, the
claim, the poll word, a token's flag.

## 2. Modules

The modules form five groups. Within the IR and native groups a module extends
the one before it, as the code's layers use each other.

| Group | Module | Models |
|---|---|---|
| Scheduling | `LanePolicy` | the lane choice of `pop_task_locked` |
| | `LaneArbitration`, `LaneArbitrationProofs` | abstract: lane lengths and bursts only, how long a lane can wait; theorem `NoStarvation`; the scheduler is proved to implement it |
| | `CompilationScheduler`, `MCCompilationScheduler`, `CompilationSchedulerProofs` | the whole scheduler, one critical section per action; small requests; theorems |
| Runtime | `AssumptionRuntime`, `MCAssumptionRuntime` | tokens, poll words, managed invocations, invalidators, interpreter runs |
| | `Materialization` | a rebuilt frame and its objects handed to the host in one transaction |
| | `RuntimeProofs` | theorems about both |
| | `ManagedInvocation`, `MCManagedInvocation`, `ManagedInvocationProofs` | fast-call tables, patch cells, nested invocations, executable mappings; theorems |
| Tiers | `HotnessProfile` | the counters, the threshold and the claim that the next two share |
| | `TieredCode` | tier state, hotness, claim, compilers, publishers, invokers |
| | `FrontendTiering` | one function's optimization request from the hot call to its end |
| | `TieredCodeProofs` | theorems about both |
| | `CodeCache`, `CodeCacheProofs` | lookup, publication, eviction, invalidation; theorems |
| | `SetSums` | what adding and removing an element does to a sum over a set, for the proofs about byte counters |
| IR | `WordSemantics`, `VectorSemantics` | words, the interpreter's meaning of scalar, memory and atomic nodes, lanes |
| | `NodeKinds`, `NodeRules`, `NodeEvaluation` | node kinds, what a verifier asks of each node, running one node |
| | `StraightLine`, `ControlFlow` | the two function forms: builder, verifier, interpreter |
| | `Optimizer` | both optimizers |
| Native code | `LinearScan`, `MCLinearScan`, `LinearScanProofs` | straight-line register allocation and the code emitted from it; theorems |
| | `ControlFlowAllocation`, `NativeExecution` | block-local allocation, edge moves, stack maps; the laid-out code run as moves of values |
| | `Compilation` | `Compiler::compile` and frame reconstruction |
| | `CodePipeline`, `MCCodePipeline` | a function from its builder to its native code and back, with the entry from an interpreter's frame; that, for a list of programs |
| | `NodeExecution` | abstract: what running one node promises |
| | `NativeMachine` | a processor with the instructions the backends use |
| | `X86Assembler`, `X86Lowering`, `AArch64Assembler`, `AArch64Lowering`, `RiscvAssembler`, `RiscvLowering` | the instructions each backend emits for a node |
| | `Lowering`, `MCLowering` | one node run natively, shown to implement `NodeExecution`; that, for nodes, inputs and the code the backends emit for them |

A definition whose comment calls it a variant or a mutant is a wrong version of
the definition beside it. Nothing uses it; substituting it for the definition
must break the property `PROJECT.json` names, which shows that the property
depends on that piece of code.

### CompilationScheduler

State: the task fields (`state`, `request`, `cancellation_requested`), the
scheduler's shared state (`queues`, `identities`, `queued_tasks`,
`queued_bytes`, `active_workers`, bursts, totals, `accepting`), the shutdown
state, and where each worker and client is. A step is one critical section of
the scheduler's mutex: `CompilationTicket::cancel` sets the atomic
`cancellation_requested` and takes a queued task out of its lane in one of them
(a ticket that outlived its scheduler only sets the atomic). A worker reads it
after the job and before it takes the mutex, a step of its own (`JobReturn`): a
cancellation after that changes nothing any more. A condition variable is a label of
its sleepers: notifying moves them to a woken label, `SpuriousWakeup` may do so
too. A submission may run out of memory after it has entered the identity table
(`AdmitOutOfMemory`). `JobReturn` returns any outcome: exceptions become
failures in the code and are such an outcome here. `NoShutdownPending` excludes a
shutdown from a job that competes with another shutdown: the code would deadlock
(the one waits for `shutdown_mutex`, the other joins its thread), and the
documentation asks that the scheduler be owned outside its callbacks.

### AssumptionRuntime

A thread owns one context. `Invoke` clears the diagnostics and the wake bit,
`Subscribe` enters one token's list per step, native code is seen at its polls
(`NativePoll`) and its return, `Recheck` reads one token per step and
`Unsubscribe` leaves one list per step, in reverse. `Invalidate` takes the
token's mutex, clears the flag and wakes the contexts one by one, then sleeps
until the list is empty. Subscriptions may fail for want of memory. An
interpreter run on the same context polls the same word.

### TieredCode

The published `State` is immutable; a step is one store to the state, the claim
or the flag, because readers and `report_optimization_failure` do not take the
publication mutex. Compilers follow the frontends: claim, capture the
generation, compile, publish with that generation, report failures. (The
functions also accept generation 0 for "unchecked"; no caller in the repository
compiles concurrently with it, and it is not modelled.) The backedge counter
behaves as the invocation counter and is merged with it; recording an invocation
and loading the state are one step. Generations do not wrap within the bound.

### FrontendTiering

Translated from the QuickJS module; the Lua and PocketPy modules have the same
structure. The scheduler appears as the one live task a key can have, the tier
as its claim and flag: `CompilationScheduler` and `TieredCode` model those two
in full.

### CodeCache

A publication is split where an assumption can change its course: the tokens
are invalidated without the cache's lock. One function depends on at most one
token and is compiled for one of the valid targets; `Accepts` is what `publish` asks
before it takes the lock. The history variable `handles` holds the generations that
`find` and `publish` returned, each with its function, and `fell` the last
publication that had tested its function when a token fell; `ResidentWasSound`
compares the entries with both. A token may fall after the test: that entry is
resident until a lookup retires it. The access clock wraps at `MaxClock`, as the code's does at 2^64; code
generations do not wrap within the bound. Stamps are reset when the clock wraps, so
what "least recently used" means is kept apart from them: the history variable `older`
holds the pairs of resident keys the first of which was used less recently,
`stamped` the keys used since the clock last wrapped, and `EvictsLeastRecent` compares
every eviction with both. After a wrap the code no longer knows the order of the
entries it reset, and the property claims none among them.

### LinearScan

A function is a list of nodes with a type, an effect and operands. The scan takes
one step per value, as the loop of `allocate_impl` does: release the intervals
that ended, then a free register, the register of the longest-lived value, or a
slot. The lists of free registers and of active values are sets, so the model
allows every order the code could use. The emitted code then runs node by node
on registers and stack words that hold the number of the value written there
last: a read is right when it finds the number it asks for. Calls destroy all
registers; the order of saving, storing the result and restoring is that of the
backends, which differs between calls (result first) and the atomic fallback of
AArch64 and RISC-V (result last). The result and the operands of one node are
read and written as a whole: that a single instruction reads before it writes is
not modelled, since no result shares a register with an operand of its node,
which `RegistersAreDisjoint` says.

### ManagedInvocation

One thread invokes functions; two binders bind and clear fast calls of any
function meanwhile, handles to targets come and go, the pages of a target may fail
to become executable, and memory may run out. A step is one access to shared
state: reading a table, publishing its successor, loading the entry a call will
jump to. Native code may make its fast calls in any order and number, and may
call a helper that invokes again on the same context, which the documentation of
patch cells allows. A mapping goes with its last owner: a handle, a published
table, or a table that an invocation holds. Tables are identified by their
contents, callers stay alive, and a call is recorded when it is made
(`reached`) beside what the invocation's table named when it began (`promised`).
`BindingsFollowInvocations` says what a context has bound by the frames alone:
`InnermostCells` and `InnermostTable` look for the innermost frame that brought a
binding.

### The IR modules

A node is a record; argument lists, access descriptors, vector constants and
shuffles, which the code keeps in side tables, are fields of their node. A word
has `WordBits` bits and a byte one bit, so a word keeps eight bytes, a vector its
lane counts, and every access width its meaning. The optimizers keep, as the
code does, where each value went and what each exit needs. The code has four
definitions of the scalar operations: the two interpreters' (`evaluate_binary`,
`evaluate_node`) and the folders of the two optimizers (`fold_binary` and its
companions, `fold_control_binary`); each is translated from its own lines, so
that the runs can tell them apart. Dominators are computed
by removing a block, which has the same result as the code's iteration.
Statistics, and limits that only say an index fits 32 bits, are left out.

### CodePipeline

A client picks a program of `MCCodePipeline` and makes its builder calls one by
one; a step of a program offers several calls, some of them wrong. Three programs
apply operations to constants at the edges of shifts, divisions, signs and
not-a-number, so that folding decides what they return or where they go. `Compile`
is `Compiler::compile`: limits, verification, optimization or not, allocation,
stack maps, resolution of captured values, for each of three targets. The function is then
entered (a control-flow function from an interpreter's frame, by on-stack
replacement) and three runs advance a block at a time: the function as
built, as optimized, and as laid out in native code. Helpers, memory and the poll
word answer from one repeating sequence, where -1 makes an access or a poll leave
the function, and each run records the questions it asked. In the native run a
register or slot is a cell that holds a word, a vector, half of one, or nothing the
program put there, which reads as `Noise`; calls and atomics that may fall back
to a helper destroy all registers. After a failed guard the
frame is reconstructed from the captured values, and its objects are
materialized by host callbacks each of which may fail. Straight-line native code
is not run here (`LinearScan` does that for its allocation) but its stack maps and
its captures are resolved. A site stands for a site with its resume offset.

### Lowering

`NodeExecution` is the abstract specification: a node looks at the bytes it
accesses and updates them, an atomic node indivisibly and at most once, or leaves
the function without having changed anything; other threads may write the bytes of
an atomic access. `Lowering` runs what a backend emits for the node, with
prologue, epilogue and early exits, one instruction at a time on
`NativeMachine`, for every placement of its operands in registers and slots and every
defect of the bound context an access is checked for. `ImplementsNode` is the
refinement `Promise == INSTANCE NodeExecution WITH node <- node, phase <- phase`: the
abstract memory, the bytes last observed and the count of updates are the machine's own,
and how far the node has come is told by where its code is.
The stack pointer is tracked: a call needs it aligned as the calling convention
says, a return needs it where it started with the return address in place. An
exclusive store fails when another thread intervened, and may fail without reason.
The bound on attempts is 2 (the code's 16 is the same loop, longer). RISC-V refuses an
atomic node on a processor without the A extension: such nodes are enumerated, have no
code and are not run; the targets of `CodePipeline` are taken to have it. Left out:
instruction encodings, SIMD sequences, the Windows calling convention, and memory orders
(the machine is sequentially consistent).

## 3. What the runs check

| Run | Bounds | Shows |
|---|---|---|
| `lanes` | 2 tasks per lane, bursts to 6 | `WaitIsBounded`. The bursts matter up to 4 and 2, so 6 lets every branch be taken with the counters beyond their limits; two tasks keep a lane nonempty across a pop |
| `scheduler` | 2 workers, 2 clients, 2 tasks over 2 keys, sizes 1 and 2, queue of 2 bytes, shutdown by a client or from a job | one holder per task and key (`EveryTaskHasOneHolder`), budgets (`AccountsBalance`), wake-ups for room, idleness, work and closing (`NoLostWakeup`), `JoinedMeansDone`; accepted tasks complete, sleepers return, shutdown returns. A task of 2 bytes fills the queue, so a submitter blocks and a duplicate is shared; the task limit does not bind beside the byte limit, which the same test guards |
| `assumption` | 2 threads, 2 tokens, functions with 2, 1 and 0 dependencies, 1 invalidation | quiescence, honest results, both bits of the poll word; `invalidate` returns although native code need not. Two tokens give a failure between two subscriptions |
| `tiering` | 2 compilers, 1 publisher, 2 invokers, 2 baselines, 5 invocations, 6 generations | publication, freshness, exact withdrawal, the retry delay |
| `tiering_uncounted_build` | as above | **violated**, finding 1 |
| `frontend` | 6 calls | a live job has its claim, whatever the script does |
| `frontend_shared_task` | 6 calls, no cancellation | **violated**, finding 2 |
| `code_cache` | 3 keys, 2 fingerprints, 2 targets, 1 token, sizes below, at and above the byte limit, 2 entries, 4 publications, clock wraps at 3 | the budget at every moment of a publication, eviction order; entries are for the cache's target, were handed out under their generation, and had no fallen token when they were admitted |
| `linear_scan` | all functions of 4 nodes, at most 2 operands per node, 3 types, at most one call, exit or atomic access; 2 word registers, 1 SIMD register, 5 words, 2 captured values | no register shared by live values, every read finds what was written. With these registers all four ways of placing a value are taken, and both limits are exceeded by some functions |
| `lowering` | words of 8 bits, 3 backends, 2 function forms, boundary operands, one interfering write | the emitted code never faults, agrees with the interpreter, clears sensitive slots on every path, implements `NodeExecution`, and returns |
| `code_pipeline` | 16 programs, 3 targets, 2 word and 2 SIMD registers, 4 block executions, limits that fit and that do not, 2 objects | no pass fails on a valid function, reads are computed, the optimized and the native run match the interpreter, captures are current, the frame is rebuilt, materialization is all or nothing. Two registers make every program spill; four block executions go around a loop with a changed state |
| `managed_invocation` | 1 invoking thread, 2 binders, 3 callers, 2 targets, depth 2 | a call reaches what its table named, bindings follow the innermost invocation, no update is lost |

Deadlock checking is off where every thread may simply have nothing left to do.
`lanes`, `assumption`, `lowering` and `managed_invocation` check it.

### Fairness

`CompilationScheduler`: weak fairness of each worker's and each client's own
steps (the operating system schedules a thread that can run) and of a running
job's return, which is the cooperative contract the scheduler documents for jobs. Nobody
is obliged to submit, cancel, time out or shut down, so no property leans on a
timeout. `AssumptionRuntime`: weak fairness of a managed thread's steps
including reaching its next poll, since compiled loops contain safepoints, and of the
invalidator's; native code is not assumed to return. `Lowering`: weak fairness of the
processor. Nothing is assumed of exclusive stores, which may always fail: the
helper bounds the attempts.

### Findings

1. The claim has no owner: the late failure of a compiler of a replaced baseline
   releases the new baseline's claim, and the promotion that follows is visible
   with no successful build counted, which a comment in the code rules out.
2. A hot call between the failure report of a job and the end of its task is
   deduplicated onto that ending task, and its claim is never settled: the
   function is not optimized again. (Cancelling a queued job has the same
   effect: set `AllowCancel` in `FrontendSharedTask.cfg` to see it.)

Also met while modelling, without a run of their own:

- The documentation calls the lane selection "4:2:1", while a full backlog is
  served 12:2:1, because each normal turn renews the urgent burst;
  `WaitIsBounded` gives the resulting bounds.
- `submit_for` is documented to wait until "an equivalent task appears": it looks
  for one only when it is woken, and admission wakes no submitter, so it can report
  `kDeadlineExceeded` beside an equivalent task (`SubmitTimeout`).
- A wake bit that an invalidation left in a context interrupts a later interpreter
  run that nobody interrupted (`interpreter.cpp:181`): managed invocations clear the
  bit, interpreters do not, while `doc/RUNTIME.md:86` and `doc/ASSUMPTIONS.md:34`
  keep the two signals apart.
- A helper that invalidates an assumption of the invocation it runs in waits for
  itself; `doc/ASSUMPTIONS.md:41` makes not doing so a precondition, and so does
  the model. Likewise a shutdown from a job beside another shutdown (below).
- A job on the only worker that calls `shutdown` with `kDrain` returns before the
  queue is drained (`JoinedMeansDone` allows for it).
- A nested invocation on one context clears the wake bit the outer one may still
  need. The outer code is then not stopped at its next safepoint; its
  dependencies are still checked when it returns.

## 4. What is proved

TLAPS checks these for every value of the constants, under the named
assumptions of the modules, which say that constants are numbers, that threads of
different roles are different threads, that what the model writes for a null pointer
is none of the real things, and how the constants that describe functions,
dependencies and limits are typed. A type invariant is part of each inductive
invariant and is proved with it.

- `NoStarvation` (`WaitIsBounded` of `LaneArbitration`). The number of times a lane was
  passed over is not inductive by itself; the invariant bounds it by a potential of the
  two burst counters, which each pop that passes over the lane moves. A lemma shows
  that the last two branches of `pop_task_locked` are never taken.
- `SchedulerImplementsLanes`: the scheduler implements `LaneArbitration`. `ObservedSpec`
  is the scheduler with a history variable, `skipped`, that counts for each lane how often
  it was passed over since it was last served or empty; the lengths of the deques stand for the
  abstract lanes. A submission pushes, a worker's pop pops, a cancellation of a queued
  task or a shutdown that cancels removes from lanes, and everything else stutters. The
  abstract lanes bound their lengths and bursts by constants; that the scheduler
  stays within them with `MaxTasks` for both follows from `ServiceInv` (bursts
  never exceed the number of starts, and starts and queued tasks together never exceed
  the ids given out). `SchedulerStarvesNoLane`, `NoStarvation` seen through that
  refinement, is the bound for the scheduler itself.
- `JobsKeepTheirClaim` (`LiveJobHasClaim` of `FrontendTiering`), for any number of calls,
  cancellations, failures and collections. The invariant adds `ClaimantIsAlone`: between
  taking the claim and submitting, the script's claim is its own, since no job is live
  that would settle it. The converse does not hold, a claim need not have a live job:
  that is what `frontend_shared_task` shows.
- `FramesAreAllOrNothing` (`MaterializationIsAtomic`), for frames and plans of any size
  and shape. The specification is one call of `materialize_frame` followed by its callbacks;
  `Deoptimize` and `HostCallback` of `CodePipeline` are its two actions, for the frames
  that the pipeline rebuilds. The callbacks are three loops, and the invariant
  is indexed by the place in them: at each place, which objects have handles, and exactly
  which fields and slots the host has staged. One lemma per loop shows that the next place
  counts the call just made and nothing else (`FollowingAdvances`), objects without fields and
  empty frames included; at `commit` that makes everything staged, and
  `PublishedIsComplete` shows that it is what the plan says, references among objects included.
- `InvalidationIsSafe` (type correctness, `Quiescence`), `OkResultsWereValid`
  (`OkResultWasValid`), `ManagedInterruptsWereRequested`
  (`ManagedInterruptWasRequested`) and `SleepingInvalidatorsAreOwed`
  (`SleepingInvalidatorIsOwed`). The inductive
  invariant says which tokens' lists a thread is in at each of its labels (the
  first `count` of its dependencies), that an invalidator past its first step
  has cleared its flag, that it sleeps or wakes only with the contexts still to be woken
  accounted for, and that a re-check that has passed a token saw it valid after the
  native return or will not report success.
- `InterruptsAreKept` (`InterruptIsSticky`), from type correctness.
- `PublicationIsSafe` (type correctness, `OptimizedMatchesBaseline`) and
  `PromotionsAreComplete` (`PromotionIsComplete`). The invariant ties the publication
  mutex to the labels of the thread that holds it, a compiler between its generation test
  and its store to the baseline that it compiled, and each store of a promotion to the
  ones before it, which `report_optimization_failure` does not undo.
- `FreshGenerations` (`GenerationsAreFresh`), `WithdrawalIsExact`
  (`OnlyExitedTierIsWithdrawn`) and `RetriesAreDelayed` (`RetryIsDelayed`), action
  properties, from the same invariant.
- `BudgetAlwaysHolds` (`BudgetHolds`), `ResidentsWereSound` (`ResidentWasSound`) and
  `EvictionFollowsUse` (`EvictsLeastRecent`). The cache's invariant: the byte counter is
  the sum over the entries, a publication in its eviction loop has passed its tests of
  the new function, which fits the limits and whose key is gone, no handle has its
  generation yet, and handles and entries have generations already drawn; the stamps of the
  entries that were used since the clock last wrapped are in the order of use (`older`), while
  the others have none. `ResidentsWereSound` is about the moment of the test, not later: a
  token may fall the step after it.
- `TasksHaveOneHolder` (`EveryTaskHasOneHolder`), `AccountsAlwaysBalance`
  (`AccountsBalance`), `WakeupsAreNotLost` (`NoLostWakeup`) and `ShutdownLeavesNothing`
  (`JoinedMeansDone`), for any number of workers, clients, tasks and keys, any
  limits, priorities and sizes. One invariant serves all four: deques hold exactly the queued
  tasks, each in that of its priority and in the order of their ids; a busy worker holds a running task that
  no other worker holds; the identity table names the live tasks; the counters are
  cardinalities and sums over the tasks in a state; a sleeping submitter has no room, a sleeping idler
  has work left, and sleeping workers leave no queued task without a worker on its way; and workers leave, and shutdown returns, only once the scheduler is
  closed and the deques are empty. `NoLostWakeup` needs the counters (capacity is a counter), and the
  counters need one holder per task, so none of the four is inductive without
  the others.
- `CallsReachBoundTargets` (`CallsReachTheirTargets`), `BindingsAreRestored`
  (`BindingsFollowInvocations`) and `NoUpdateIsLost` (`UpdatesAreKept`), for any threads,
  binders, functions and any depth of nesting. The invariant follows a table from the lock
  that copies it to the frames that loaded it: a table leases exactly what it points to,
  that code is published and stays so, and an update holds the mutex of a function whose
  table is still the one it loaded. Every frame remembers the bindings of the
  frames below it, which is what makes a pop restore them.
- `SumOverAdd`, `SumOverRemove` and `SumOverAgree` in `SetSums`: the sum over a finite
  set, as the community modules define it, follows an element that comes or goes. The
  definition recurses over sets and chooses an element each time, so the proof shows that the
  choice does not matter. The library's induction theorems take an operator and cannot be
  used; the induction is over cardinalities instead, from the theorem that a nonempty
  set of numbers has a least element, applied to the set of counterexamples.
- `RegistersNeverShared` (`RegistersAreDisjoint`). During the scan the invariant
  keeps three groups apart: free registers, the registers of active values (all
  different), and values whose interval has ended. It rests on a lemma that
  `note_use` returns the last use, which needs that a bounded set of numbers has a
  greatest element.
- `EveryReadIsIntact` (`ReadsAreIntact`). The invariant adds that slots do not
  overlap, that every value has a register or a slot, that a value live across a
  call has a slot, and that each live value is where the allocator put it. One
  lemma per kind of step: a result is written where nothing live is kept;
  save and restore meet each live value in its own slot.

Proving them changed three statements. `JoinedMeansDone` was too strong for a
scheduler of a single worker, which the run does not have: a job on that worker that
calls `shutdown` with `kDrain` returns from it with tasks still queued, since nobody else
can drain them (they are drained by the same worker afterwards). The property now
says so. `EvictsLeastRecent` was stated over stamps and is now stated over the
order of use. `BindingsFollowInvocations` was stated with a choice among frames and is
now a relation between frames and context. They also changed one model: `Materialization`
listed its callbacks in a sequence put together by folds, which no prover here can
reason about for plans of any length, and now has the place in the loops of
`materialize_frame` as its state, as the code does; its checks of plan and
frame are now complete.

Only model-checked: every liveness property; the refinement, the absence of faults and
the agreement with the interpreter in `Lowering` and `CodePipeline`, whose programs are
data that recursive definitions interpret, so that an induction over data would be
needed; and the two violations.

## 5. Next

Every safety property of the runs about scheduling, tiers, the runtime, register
allocation and materialization has a theorem. What is left is about programs: the
properties of `Lowering` and `CodePipeline` need an induction over data that this prover
cannot do. Models worth adding: the portable package's decoder as a builder of
functions, and the handles of the C interface.

## 6. Not modelled

- *Portable packages* (`src/ir/package*.cpp`): a codec and a digest. Their byte layout
  is outside what TLC can enumerate; what a decoder builds goes through the
  builder and verifier that are modelled.
- *The C interface* (`src/embedding.cpp`): handles around the components above, with
  argument checks and a mapping of statuses.
- *Target profiles and capabilities*: tables of what each host supports.
- *Source translators* of the three languages: pure functions of strings.
- In the backends: instruction encodings, SIMD instruction sequences (the
  IR meaning of vectors, and how vector values are allocated, moved and
  captured, are modelled), the Windows calling convention, weak memory orders.
- In the compiler: failing allocations during `compile`, and accessors.
- Status texts, statistics that nothing reads back, tests, benchmarks and release tools.
