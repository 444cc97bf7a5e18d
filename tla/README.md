# Verification of oh-my-kimi in TLA+

oh-my-kimi is a coding agent for the terminal: a loop that asks a model for the
next turn and runs the tools the model calls (`packages/agent`), inside a product
that adds sessions, resource control, subagents and durability
(`packages/coding-agent`).  This directory holds TLA+ modules of its core logic,
configurations for TLC, and proofs checked by TLAPS.

## 1. Inventory

Paths are relative to `packages/`.

| Part | State it keeps | Operations | What makes it hard | What makes it correct |
|---|---|---|---|---|
| Resource claims (`agent/src/tool-resource-claims.ts`, `builtin-tool-resource-claims.ts`) | none; a claim list per call | resolve a call to claims or to "exclusive", compare two | overlap of paths is not transitive; extension resolvers may fail | conflicts are symmetric; failures are exclusive |
| DAG scheduler (`agent/src/tool-dag-scheduler.ts`) | levels under construction, with claims accumulated by access | assignDagLevels, applyConcurrencyCap | a later call may fill an earlier level; levels are compared by accumulated claims | order of conflicts, no needless barrier, every call once, width |
| Tool batch, dag-v2 (`agent/src/agent-loop.ts`) | plans, levels, outcomes, results to emit | plan, authorize (hook), plan again, run sublevels, emit, end the turn | hooks rewrite arguments, abort at any await, listeners fail, sibling calls outlive the run | no conflicting overlap, one result per call, termination |
| Per-call timeout (`agent/src/tool-timeout*.ts`, `tool-execution-boundary.ts`) | terminal cause, child signal, committed result | race of tool, timer and abort; teardown window; late settlement | all three race; a tool may never settle | result is immutable; audit after commit |
| Agent run (`agent/src/agent.ts`, `listener-delivery.ts`, `tool-transcript-integrity.ts`) | transcript, active run, pending calls | abort, record at message_end, deliver, repair after a failure | failing listeners in the middle of an emission | the transcript is completed exactly once |
| Workload permit pool (`coding-agent/src/core/workload-permit-pool.ts`) | capacity, weight, queue, permits | acquire, release, setCapacity, evict | capacity shrinks below what is out; timeouts race grants | weight conserved, first in first out, no waiter lost |
| Shard executor (`coding-agent/src/core/workload-shard-*.ts`) | journal of transitions, projections, running shards | load, re-arm, launch, settle, quarantine | crashes between two records, abort, failing appends | passed shards never run again; journal always replays |
| Operation lifecycle (`agent/src/harness/operation-lifecycle-*.ts`) | idle, active with attempts, settling | begin, stage, attempts, abort, settle | legality depends on stage, kind and history | every operation can settle; attempts are accounted for |
| Session writes (`agent/src/harness/session-write-coordinator.ts`) | sequenced pending writes, tail of operations | enqueue, flush, persistAfterPending | watermarks taken at the call, failing heads | persistence follows acceptance |
| Effect journal (`agent/src/effects/*.ts`) | phase of each effect | dispatch, observe, recover, compensate | crash with an unknown outcome | no effect twice without a replay-safe reason |
| Durable file locks (`coding-agent/src/core/durable-file-*.ts`, `session-owner-lease.ts`), replay ledger lock (`coding-agent/src/guardrails`) | lock directories, owner files, gates | acquire, inspect, reclaim, release, transfer | crashes between two file operations, several reclaimers | mutual exclusion, dead owners are reclaimed |
| Run resource lease, lane launcher | generation and baseline; lanes | acquire, release; launch | nested leases | the baseline is restored |

Left aside: the clients of model providers (`packages/ai`), the terminal UI
(`packages/tui`), generators and checkers (`book-to-skill`, `initcheck`,
`promptguard`), session file formats and migration, MCP, extensions, RPC modes,
the landing page and scripts.  They are I/O, formats and presentation.
`PROJECT.json` lists every part with its status.

How the parts meet: `agent.ts` starts the loop and is its event sink; the loop
asks the scheduler for levels, calls the hooks and the tools, and emits events;
the sink records results at `message_end` and calls the listeners one after the
other, and a listener that throws rejects the await in the loop.  The permit pool
is shared by the bash tool, the shard runner and the lane launcher of a session.

Further meetings: the harness persists through the session write coordinator and
drives its state through the lifecycle reducer; the executor of shards records through
its journal store and takes permits from the pool; stores of durable files and of
session owners sit behind the durable file locks.

## 2. Plan and its state

| Step | Modules | State |
|---|---|---|
| Scheduler and tool batch | `ResourceClaims`, `DagSchedule`, `DagPlan`, `ToolBatch` | modelled, checked, proved |
| Permit pool | `WorkloadPermitPool` | modelled, checked, safety proved |
| Shard execution | `ShardExecution` | modelled, checked, safety proved |
| Session writes and what they promise | `SessionWrites`, `AcceptanceOrder` | modelled, checked, refinement proved |
| Operation lifecycle, the harness and what it promises | `OperationLifecycle`, `AgentHarness`, `OperationTurns` | modelled, checked, safety and both refinements proved |
| Durable file locks with crashes, and what they promise | `DurableFileLock`, `FileLock` | modelled, checked, safety and refinement proved |

Left for later: queues of steering and follow-up messages and the waits of `abort`
and `waitForIdle` in `AgentHarness`; locks of files with several keys; the effect
journal.

## 3. Modules

| Module | Models |
|---|---|
| `ResourceClaims` | resolved claims and the conflict relation |
| `DagSchedule` | the schedule as a function: the longest chain of conflicts that ends in a call is its level, and a wide level is cut into slices |
| `DagPlan` | the loops of the scheduler, one iteration per step |
| `ToolBatch` | one batch of tool calls under dag-v2, with hooks, timers, abort and failing listeners; uses `DagSchedule` where the code calls the scheduler |
| `WorkloadPermitPool` | the permit pool |
| `ShardExecution` | the executor of shards over its journal, calls that resume one another, tasks that outlive their calls, crashes |
| `SessionWrites` | the coordinator of session writes; implements `AcceptanceOrder` |
| `AcceptanceOrder` | abstract: writes are stored in the order of acceptance |
| `OperationLifecycle` | the reducer of operations, one action per command, also a specification of its own (`Lifecycle`) |
| `AgentHarness` | operations from the call to the settlement, and deferred commands; extends the reducer and implements `OperationTurns` |
| `OperationTurns` | abstract: one operation or deferred command at a time, each operation with one outcome |
| `DurableFileLock` | lock directories, gates, reclaiming, crashes; implements `FileLock` |
| `FileLock` | abstract: one holder, whose death alone takes the lock from it |
| `MC*` | values of the constants for TLC |
| `*Proofs` | theorems and proofs |

**DagPlan.** `AssignEntry` is one iteration of the loop of `assignDagLevels`;
`IsTarget` states what its inner loop finds, the position after the last
conflicting level.  `ChunkLevel` is one iteration of `applyConcurrencyCap`.
Indices are pushed in source order, so a set stands for the array.  A cap of 0
stands for an absent or invalid cap.  `DagSchedule` says the same without a loop:
the level of a call is the size of the longest chain of calls, each in conflict with
the one before it, that ends in the call, and its place (`Slot`) is that level with
the slice of the level.  `PlanMatchesSchedule` compares the two.

**ToolBatch.** `pc` is the await at which the runner is: `schedule`, `level`,
`authorize`, `sublevel`, `launch`, `join`, `grace`, `levelEnd`, `emit`, `turnEnd`,
`nextTurn`, and for the
failure path `failing`, `closing`; it ends in `provider` (another request follows),
`ended` or `rejected`.  The end of a turn takes three steps: `EndBatch` is the check of the
signal behind the batch (`agent-loop.ts:433`), `EndTurn` the emission of `turn_end` with the stops that
follow it, `NextTurn` the hooks of the turn's end and the queues, which may take for ever
and look at no signal.  `phase`, `tool`, `cause` and `outcome` describe each call:
what the executor has done with it, whether the real execution is running, who
won its race, and what was finalized.  Code between two awaits is one step.
Everything that the code awaits on an event sink may fail (`EmitStarts`,
`EmitEnd`, `EmitResult`, `EndBatch`, `EndTurn`, `EmitClosure`, `EndFailure`).  When it does, the
runner rejects at once and the executors go on, as they do under `Promise.all`.
Calls are numbered in source order; results carry their disposition and
`executionStarted`.  Abstractions: a tool's arguments are their claims; a hook
maps the claims of a call to those of `Rewritten`; the order in which the starts of
one sublevel are emitted, updates, and content are left out; a race whose sides
are both ready may go either way, where the event loop would decide.

**WorkloadPermitPool.** The methods are synchronous; `grantWhilePossible` is a
loop and takes one step per iteration while `granting` blocks everything else.
Each request calls `acquire` once.  `releaseAgain` is a repeated release, counted
up to `MaxDouble`.  A capacity of 0 stands for an invalid argument.

**ShardExecution.** `journal` holds what the file replays to, what the store's memory
holds (`unloaded` in a new process) and how many appends have failed; an append that
fails may have stored its line or half of it (`appendLine`).  `call` counts calls of
`executeWorkloadShardPlan`, `pc` is where the current one is: `rearm` (the loop that
re-arms what a crash or an abort left), `loop`, `wait` (the race), `join`.  `task[c][s]`
is `runOneShard` of a call and a shard; tasks are indexed by their call because a call that is
rejected leaves tasks behind, which go on against the journal of the next call.
`PermitGranted`, `PermitUnavailable`, `PermitAborted`, `RunnerReturns` and
`RunnerThrows` are what a task comes to at its two awaits, the append included; `leaked` counts permits
taken before an append that failed (`workload-shard-runner.ts:41`).  `starter` and
`earned` are history.

**SessionWrites.** A boundary is one call of `flush` or `persistAfterPending`; the promise
chain `operationTail` is the queue `operations`, whose head runs.  `acceptedThrough` is
the watermark read at the call (`serialize`), `Due` what the running boundary still has to
store.  `AppendEnds` may store and fail.  `turn`, `turns` and `accepted` are history.  Under the
refinement mapping the queue of pending writes is `left`, and the writes boundaries
carry themselves are `awaited`.

**OperationLifecycle, AgentHarness.** The reducer's commands are actions whose guards
are the rejections of the code; `AgentHarness` conjoins them with its own steps as the
controller does.  `pc[o]` is the await at which the call of `prompt`, `compact` or
`navigateTree` is, from `started` to `settling` and `drain`; one action is what runs
from an await to the next, and `LoopThrows`, `ReportFailure` and `ReportFails` are the failure path.
`Recover`, `MoveBack`, `Compact`, `Unrecovered` and `Restore` are the recovery from
an overflow of the context with its second attempt; `AutoCompacts` says whether the harness
is set up for it.  A provider may answer `aborted` of its own accord, and what a body throws may be
an abort itself (`Errors`, `isExplicitAbortError`), whether or not an abort was delivered.  `runWhenIdle`, `cancel`, `drain` and
`CommandEnds` are the deferred commands, one of which may begin an operation.  Not
distinguished: a hook that refuses is a fault; the coordinator is reduced to what a
flush promises (`ResolvedIsDurable`); `setModel` changes the model in the step of its
call, one microtask early; `leaf` is told relative to the last answer, and a write
that is persisted after the leaf was moved back makes it `other`, as a compaction does; a listener of
`settled` that fails changes nothing.  A compaction
differs from a navigation only in that it is never reported as `cancelled`.

**DurableFileLock.** Steps are calls of the file system: `Mkdir`, `WriteOwner`,
`Inspect`, `Wait`, `Check`, `Retire`, `LeaveGate`, `Release`, `Drain`, each with its failure,
and `Crash`.  A removal may fail before the lock is moved aside or after it: before, the lock stays in its place; after,
its name is free and the process has something left to clean up (`debris`).  A lock that a
process fails to remove is `retained` for a later try, but for a directory it has just made and
not signed (`durable-file-lock-storage.ts:208`): if that cannot be removed either (`WriteFails`,
with one or two failures), it stays and is forgotten.  A lock of a dead owner may be removed only by the
holder of its gate, which is such a lock itself, with a gate of its own.  The name of a
lock is the sequence of the tokens of the dead owners it is a gate for, so the name a process works on
(`path`) is its call stack too.  Two steps are coarser than the code: reading an owner
(the code reads twice and takes a change as unknown), and moving one's own lock
aside, which nobody else touches (`OwnDirectoryStays`).

Operators under a comment "Seeded fault" are not part of the model: each is a
wrong version of the operator after it, kept to show that a property notices.

## 4. Runs

| Run | Checks | Bounds and why they are enough |
|---|---|---|
| `dag_plan` | the plan is ordered, tight, complete, within the cap, and equals its definition | four calls out of seven kinds of resolution (exclusive, no claims, reads and writes of a directory and two files): two levels, a call that fills an earlier level and a level wider than both caps all occur |
| `tool_batch` | no conflicting overlap, source order by the emitted arguments, one result per call, audit after commit, barriers, continuation only when quiet | three calls on two resources, cap 2: a batch needs two calls to conflict and a third to be beside them; results of tools and refusals are the two that differ in their effect |
| `tool_batch_live` | an abort before the results of the batch are out ends the run, without another request; a batch ends though tools hang | two calls: one that hangs and one that does not |
| `tool_batch_order` | violated: see findings | as `tool_batch` |
| `tool_batch_envelope` | violated: see findings | as `tool_batch` |
| `tool_batch_terminate` | violated: see findings | as `tool_batch` |
| `permit_pool` | weight, first in first out, no lost waiter, every waiter settles | two light and two heavy requests, a queue of two (so that it overflows), capacities 0 to 3 |
| `permit_pool_evict` | violated: see findings | as `permit_pool` |
| `session_writes` | what a resolved boundary says is stored, order of acceptance, every boundary settles | three writes and three boundaries in every interleaving: one runs, one is reserved behind it with an older watermark, and a write comes in between; any append may fail |
| `shard_execution` | who may record an outcome, what may start, what "passed" means, that only failing appends can corrupt, that calls end | three shards, the third after the first, two at a time, one permit, two calls, two failing appends, one crash: a rejected call leaves a task behind, the next call starts its shard again, and one of the two fails to record |
| `durable_file_lock` | no live owner's directory is taken away, mutual exclusion by refinement, attempts end, a patient process gets the lock unless a directory is stuck | three processes, one of which tries twice and one of which has no deadline; two crashes (an owner, and the reclaimer that holds its gate), two failing calls of the file system (a step and its clean-up) |
| `agent_harness` | the reducer accepts every command of the harness, the leaf after recovery, completed outcomes, turns, that everything comes to rest | a prompt, a navigation begun by a deferred command, and a plain deferred command; two faults (one in the failure path of the other), aborts of the caller, of the provider and thrown ones, one write or change of model, two turns, which is what an answer after an answer needs |

Distinct states: 774,104 for the batches of three, 409,369 for the shards, 231,557 for the
writes, 201,521 for the locks, 499,709 for the harness.

Deadlock is checked in the runs of the pool.  The other systems come to an end once
nobody calls any more (the bounds of calls, attempts and writes), so their configurations
say `CHECK_DEADLOCK FALSE`; that nobody is left waiting there is what `BoundariesSettle`,
`CallEnds`, `AttemptsEnd` and `ComesToRest` are for.

**Refinements.** `ImplementsOrder` (`SessionWrites` implements `AcceptanceOrder`),
`TakesTurns` (`AgentHarness` implements `OperationTurns`) and `ImplementsLock`
(`DurableFileLock` implements `FileLock`) are checked as properties of the runs and
proved, and so is that the harness implements `Lifecycle`.

**Fairness.** `ToolBatch`: weak fairness of the runner and of every executor,
because a ready promise is resumed and a sink returns or throws.  Nothing is
assumed of tools, which may never settle, nor of the abort, nor of the hooks of the tools
and of the turn's end.  That these return and
timers fire is a premise of `BatchEnds` and not of `AbortEndsRun`; a call without a
timeout (`timeoutMs <= 0`) is outside that premise.  `WorkloadPermitPool`: weak
fairness of the loop, strong fairness of each release, because callers release in
a `finally` (`subagent-lane-launcher.ts:179`, `workload-shard-runner.ts:61`); strong,
because the loop of another call may come between.  The shard runner has one path without
a `finally`, a journal entry that fails behind the grant (`workload-shard-runner.ts:38-41`); it loses
its permit, which `ShardExecution` models (`leaked`) and `EveryWaiterSettles` does not.  Timeouts and aborts of waiters
are not assumed.  `SessionWrites`: weak fairness of the appends, which return or throw, and of
each boundary's own steps.  `ShardExecution`: weak fairness of the executor's loop, and of
some task going on while tasks are left: waits for a permit time out after two minutes
(`workload-shard-runner.ts:26`), and that the runner of a shard returns is a premise about
whoever supplies it (the repository has no caller but tests); no single task is
favoured.  `DurableFileLock`: living processes go on, time passes for those with a
deadline, and holders release in the end, as they hold the lock of a mutation around a few
synchronous calls and release it in a `finally` (`session-manager.ts:968`); the lease
of a session owner, held for as long as the session, is outside that premise.
`AgentHarness`: the bodies of operations and of
deferred commands go on, because provider, tools, listeners and storage answer or fail.
Nothing is assumed of calls, aborts, crashes, cancellations or faults.

**Findings.**
1. `EnvelopeTellsExecution`: after a failing listener the calls that are running are
   closed with `executionStarted: false` (`tool-transcript-integrity.ts:187`), while
   `types.ts:567` says the flag records whether execution began; such a call is running at the
   failure and may have settled when its envelope is written.  Only such closures err, and
   only by denying an execution (`EnvelopesNeverOverstate`).
2. `HeadDoesNotFit`: `evict` does not look at the queue again
   (`workload-permit-pool.ts:182`), so a waiter that fits may stay queued behind a head
   that timed out.  It is not lost (`NoLostWakeup`), it is late.  No other method leaves
   one behind (`EvictionAloneStrands`).
3. `FinalConflictsRunInSourceOrder`: the plan is made again within one candidate
   level only (`agent-loop.ts:1185`), so hooks can reverse the order of two
   conflicting calls of different levels.  They never overlap
   (`NoConflictingOverlap`); within a candidate level the order holds by the arguments the
   calls run with (`LevelsKeepSourceOrder`), and across levels by the emitted arguments
   (`EmittedConflictsAreSettled`), so what can be reversed is only a conflict that a hook made.
4. `TerminatesOnlyTogether`: termination is decided by level (`agent-loop.ts:1066`),
   while `packages/agent/README.md:499` speaks of the batch.  It takes every result of one
   level, and what is then skipped has not been executed (`TerminatesByOneLevel`).

**Observed while modelling**, and part of the models without being a violation of a
stated property:
- A damaged journal is moved aside and the next call starts from nothing
  (`workload-shard-executor.ts:71`): what had passed runs again, although the store's comment
  (`workload-shard-store.ts:20`) asks for an explicit repair.  `PassedIsEarned` therefore speaks
  of the time since the journal was begun.
- A task that outlived its rejected call may run beside the new attempt of its shard; it
  never records over it (`OutcomeOfItsRun`).  A command that exited with 0 and whose
  record fails to append is told as failed.
- A rejection while the executor is at its race is told only at the end, when all tasks
  are joined.
- A process that dies between making a lock directory and writing the owner file leaves
  a lock that nobody may reclaim; so does a living process that failed to move its lock aside, until it
  acquires again; and so does, for as long as it lives, one that failed to sign a directory and
  then to remove it (`durable-file-lock-storage.ts:201-211`), as it retains only what it has signed.
  `PatientAcquire` exempts the three (`Stuck`).
- An operation may be reported as aborted though nobody asked for it: when the provider
  answers so (`operation-outcome.ts:39`), or when the body throws an abort of its own
  (`operation-outcome.ts:115`).  Tests of the repository say so too.  `TakesTurns` therefore promises only the other direction,
  that a delivered abort is never followed by `completed`.
- `packages/agent/README.md:510` says that terminal abort paths "stop before hooks, queue
  polling, or another provider request".  That holds of an abort that is there when the results of the
  batch are out (`AbortEndsRun`).  One that comes during `turn_end`, `prepareNextTurn`, `shouldStopAfterTurn` or the
  queues is looked at no more before the next request (`agent-loop.ts:547-586`, `:512`), and a hook
  that never returns there keeps the aborted run alive.
- A process that reclaims a lock fails with an error of the file system when a new owner
  has made the directory and not yet its owner file.
- If the model is changed while the model's answer is under way, recovery and the lifecycle
  judge the answer by two models (`agent-harness.ts:737`); the leaf may then stay
  before the answer.  `OwnCommandsAccepted` and `RecoveryKeepsLeaf` name this exception
  (`ModelChangedUnderAnswer`).
- A write accepted while the final flush runs is still pending when the operation
  settles, next to a comment that says otherwise (`agent-harness.ts:249`).

## 5. Proofs

`DagPlanProofs` proves for any number of calls, any claims, any cap and any
reflexive and symmetric overlap: `PlanTypeCorrect`, `ConflictsAreOrdered`,
`BarriersAreNeeded`, `ChunksAreNarrow`, `ChunksAreOrdered`, `PlanIsComplete` and
`PlanIsSchedule`: every invariant of `dag_plan`.  The central lemma,
`LevelCheckIsPairwise`, says that comparing a call with the claims a level has
accumulated by access is the same as comparing it with every call of the level;
it needs the invariant that the accumulated claims are exactly those of the calls
placed (`LevelInv`).  `ConflictAdvancesLevel` is not inductive without it, nor
without the fact that every entry placed so far is in exactly one level
(`PlacedExactlyOnce`), because a call may join any level.  The chunks are related
to the levels by `ChunkInv`: chunks come from the levels before `current`, in order.  That the loops
compute the schedule needs no induction over the calls: `LevelsAreDepths` is inductive,
since a new call is behind all earlier calls it conflicts with and just behind one of
them, as its depth is; and every chunk is one part of a level by rank (`ChunksAreParts`),
in the order of levels and parts.  A division of the calls with these two properties is
the schedule (`ScheduleIsUnique` of `DagScheduleProofs`).

`DagScheduleProofs` proves `ScheduleIsSound` for any resolution of finitely many calls
and any cap: every set of the schedule is free of conflicts, the sets are disjoint
and hold every call, and of two calls in conflict the later one is in a later set.
The argument is `ConflictDeepens`: a longest chain that ends in the earlier call
goes on to the later one.

`ToolBatchProofs` proves for any number of calls, any claims, any effect of the hooks
and any cap what `tool_batch` checks: `TypeOK`, `NoConflictingOverlap`,
`ContinuesOnlyWhenQuiet`, `StartsBehindBarrier`, `ConflictsRunInSourceOrder`,
`OneResultPerCall` and `LateAuditsCommittedResult`; and what is true in place of the
claims that findings 1, 3 and 4 refute: `EnvelopesNeverOverstate`, `LevelsKeepSourceOrder`,
`EmittedConflictsAreSettled` and `TerminatesByOneLevel`.  It uses the scheduler only through
`ScheduleIsSound`.  The inductive invariant has seven layers, each resting on ones before it.
- `BatchInv`: a call that has not been launched has no tool, no cause and no outcome
  (`Unlaunched`); what is left of the levels and of the sublevels is disjoint, free of
  conflicts and not yet launched (`LevelsAhead`, `SublevelsAhead`); a tool that runs
  although its executor has returned has timed out (`RunsOnAfterTimeout`); and where
  the runner starts a sublevel nothing runs (`Barrier`).  No two tools overlap because
  those that run together come from one sublevel, whose calls do not conflict; the
  barrier is what keeps a tool that outlived its timeout from meeting the next one.
- `OrderInv`: every call is final or still ahead (`NothingLost`), and what is ahead is
  in the order of the plan (`LevelsInOrder`, `SublevelsWithin`, `LevelIsNext`).  Hooks
  change the claims only within a level, so whatever conflicts with the level in work by
  the emitted claims and comes before it is final.
- `ResultInv`: the transcript names each call at most once, and the results still to
  be emitted are those of the calls it does not name, so that emission, or closure after a
  failure, makes it complete.
- `AuditInv`: the executors of a level have been joined when its results are
  emitted (`ExecutorsJoined`), a result tells who won the race (`ResultsTell`), and a
  late settlement finds the result committed (`CommittedFirst`).
- `LevelInv`: levels are those of the plan (`LevelsOfPlan`), no tool of a level starts
  before all its hooks have been called (`LevelAuthorized`), so that the sublevels are
  planned by final arguments and stay in their order (`SublevelsInOrder`).
- `EnvelopeInv`: the flag of an outcome, taken when the race of its call is decided, tells
  whether execution began (`OutcomesTell`); it reaches the transcript unchanged
  (`PendingTells`), and a tool that has begun never becomes one that has not.
- `StopInv`: the level that ends has had all its hooks called (`LevelEnds`), so that all of
  it is final unless the run was aborted; a batch it terminated is never taken up again
  (`TerminatedByLevel`).

TLC has checked these layers as invariants of the instance of `tool_batch` too, all but
`LevelKeepsSourceOrder` (the conjunct of `LevelInv` that `LevelsKeepSourceOrder` states) on all of its
states, that one on 547 thousand of them.

`WorkloadPermitPoolProofs` proves for any finite set of requests, any capacities
and any cap of the queue: `PoolTypeCorrect`, `WeightIsConserved`,
`WakeupsAreNotLost`, `QueueIsFaithful`, `CapacityIsRespected`, `NobodyOvertakes`, and,
in place of what finding 2 refutes, `EvictionAloneStrands`.  The three state
invariants are proved together (`PoolInv`): `NoLostWakeup` needs the weight to be
conserved, since a head that does not fit an idle pool would have to be heavier
than the capacity, which the loop rejects; it needs the queue to hold each waiter
once, so that an eviction removes nobody else.

`SessionWritesProofs` proves for any writes and any boundaries: `WritesTypeCorrect`,
`ResolvedWritesAreDurable`, `CoordinatorImplementsOrder`, `ChainGoesOn`, and, of the abstract
specification, `StorageInOrder`.  The inductive invariant says where each write is: in
the queue of pending writes in the order of its turn (`QueueOK`, `TurnsOK`), carried by
exactly one boundary (`DirectOK`), or done with; that watermarks never exceed what has been accepted
(`MarksOK`); that the chain of boundaries is in the order of the calls, so that their
watermarks grow along it (`ChainOK`); and that the append under way is that of the first
open write (`AppendOK`, `KeptOK`).  The last is what makes each append a `Store` of `AcceptanceOrder`.

`AgentHarnessProofs` proves for any operations, commands, writes, turns and faults:
`HarnessTypeCorrect`, `HarnessObeysLifecycle` (the harness implements the reducer's
`Lifecycle`), `HarnessCommandsAccepted`, `LeafIsKept`, `CompletionIsEarned`,
`HarnessTakesTurns`, `NoneIsForgotten`; and of the reducer alone `LifecycleTypeCorrect` and
`LifecycleAccounts` (its history of attempts accounts for its stage).  The invariant ties each
place of an operation to the lifecycle state the reducer must be in there (`StageAt`), to
what has been decided (`VerdictAt`) and to the leaf (`LeafAt`); operations that are not at a place of
a running one are new or done (`PlacesOK`, `OperationsOK`), and deferred commands wait
in order (`QueueOK`).  That none of them is forgotten needs one more invariant (`WaitInv`): a
queue that is not empty is attended by a drain, or by an operation that drains when it ends,
and whatever a drain waits for has begun.

`ShardExecutionProofs` proves for any shards, dependencies, width, permits, calls,
faults and crashes: `ShardTypeCorrect`, `PassedHasPassed`, `FaultlessStaysClean`,
`OutcomesAreOwn`, `DependenciesComeFirst` and `LimitsAreKept`.  Every transition of the journal is
summarised by one lemma (`Worked`: what the file and the memory may become) and every
step of a task by another (`TaskStep`), so that each conjunct of the invariant is
proved once per summary.  An attempt identifies the call that started it (`AttemptOK`),
which is why an outcome can only come from its own task; what is recorded as passed has been earned
(`EarnedOK`); and as long as no append has failed the file, the memory, the current
call and its tasks agree (`AgreeOK`), which is why no transition is refused.  The limits of
width and permits are counted over all calls, since tasks outlive theirs and a failed append loses
a permit (`LimitsInv`); the shards launched in one go fit because their ranks among the ready
ones are different numbers below the room that is left (`LaunchFits`).

`DurableFileLockProofs` proves for any processes, attempts, failures and crashes, and any
depth of gates: `LockTypeCorrect`, `LiveOwnersKeepTheirs`, `ReclaimersRetireWhatTheySaw`,
`GatesExclude`, `LockExcludes`, and that the directories implement `FileLock`
(`DirectoriesImplementLock`).  No process decides anything alone here: a reclaimer reads an owner,
takes a gate named after that owner's token, checks again and moves the directory aside,
and may die at each point and leave the gate to be reclaimed in the same way.  What
makes it sound is that every name on a process's path is behind the token of an owner
that is dead (`PathsCondemned`): a dead owner makes no directory again and a token is never used
twice (`TokensUsed`), so what a reclaimer found under its gate is still there when it moves
it (`RetireeStays`), and nobody else can be at the same place, as they would need the same gate.
Around this, `ControlInv` ties each place of a process to its path (`PathMatchesPc`,
`RetainedAlone`) and `OwnerInv` ties owners to their directories (`OwnDirectoryStays`,
`WrittenWhenReady`).  Every step has one of seven effects on the directories (`Steady`,
`Makes`, `Signs`, `GivesUp`, `TakesAway`, `Dies`, `Forgets`), and each conjunct is proved once per effect.
The holders of the abstract lock are those who believe to hold it, those who died holding
it, and those whose owner file is left in a directory they forgot; `LockExcludes` follows because
each owns the directory of the lock.

The invariants of these four modules have been checked by TLC on the instances of
their runs as well.

Assumed are only the constants' types (the `ASSUME`s of the modules) and that the overlap
of resources is reflexive and symmetric.

Only model-checked: everything under fairness (`AbortEndsRun`, `BatchEnds`, `EveryWaiterSettles`,
`BoundariesSettle`, `CallEnds`, `AttemptsEnd`, `PatientAcquire`, `ComesToRest`), which is out of
reach of the proof system.  Four theorems state the part of it that is safety, that nobody is
left to wait for nobody: `WakeupsAreNotLost` (pool), `ChainGoesOn` (boundaries), `LimitsAreKept` (the loop of
a call) and `NoneIsForgotten` (deferred commands).  What fairness adds is that those they wait for go on.

## 6. Not modelled

- *Tool batch*: the waves-v1 executors (a rollback path), the memo of the schedules, the
  policy `ignore` for late settlements, streaming of the provider's message, validation
  of result content.
- *Session writes*: a boundary asked for from within the call of another's first append is
  rejected and changes nothing (`session-write-coordinator.ts:157`); the model has no such calls.
- *Harness*: the queues of steering, follow-up and next-turn messages, the waits of
  `abort` and `waitForIdle`, hooks that change data, branch summaries, and writes made while
  no operation runs (these are in `SessionWrites`).
- *Shards*: a journal of another plan and invalid plans (the call is refused and changes
  nothing), a quarantine that fails, several stores of one journal, and a session without
  a permit pool, which is a pool that always grants.
- *Locks*: files with several keys and the transfer of locks, the lease of a session
  owner, reused process ids, owners on other hosts, and reads that are torn.
- *Whole components*: the effect journal, the replay ledger lock, the run resource lease,
  the lane launcher, session storage, compaction and the run journal, MCP, extensions and modes, providers,
  terminal UI and tools; `PROJECT.json` gives the reason for each.

The mapped lines are a small share of the repository.  Most of its 231 thousand
lines are generated tables of models, terminal UI, wire formats of providers, session
file formats, HTML export, package management and scripts: code whose correctness is
in data and presentation, with no state shared between actors for these methods to
speak about.  The parts above are the ones in which the order of steps matters.
