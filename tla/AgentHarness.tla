----------------------------- MODULE AgentHarness -----------------------------
(***************************************************************************)
(* One harness, its operations and the commands deferred until it is idle  *)
(* (packages/agent/src/harness/agent-harness.ts and deferred-commands.ts). *)
(*                                                                         *)
(* An operation is the chain of awaits of one call of prompt, compact or   *)
(* navigateTree; an action is what runs from one await to the next, and    *)
(* everybody else may act in between.  A listener, the provider, a tool    *)
(* or the session may fail at every await, which MaxFaults bounds.  The    *)
(* turns of an attempt are as long as the provider goes on, which MaxTurns *)
(* bounds.  The coordinator of session writes is reduced to what a flush   *)
(* promises (ResolvedIsDurable of SessionWrites): what was accepted before *)
(* it is persisted, or the flush fails.                                    *)
(***************************************************************************)
EXTENDS OperationLifecycle, FiniteSets

CONSTANTS
  Command,         \* calls of runWhenIdle
  Starts,          \* the operation each command begins, or NoOperation
  AutoCompacts,    \* compaction is enabled and getApiKeyAndHeaders was given
  MaxWrites,       \* bound: writes of listeners and changes of the model
  MaxFaults,       \* bound: awaits that fail
  MaxTurns         \* bound: turns of an attempt

ASSUME HarnessAssumption ==
  /\ Starts \in [Command -> Operation \cup {NoOperation}]
  /\ \A c, d \in Command : Starts[c] = Starts[d] => c = d \/ Starts[c] = NoOperation
  /\ AutoCompacts \in BOOLEAN
  /\ {MaxWrites, MaxFaults} \subseteq Nat /\ MaxTurns \in Nat \ {0}

VARIABLES
  pc,              \* where each operation is
  run,             \* the variables of the operation that runs, its outcome included
  writes,          \* how many are pending, and how many of them the flush is to persist
  leaf,            \* where the session's leaf is, seen from the last answer
  model,           \* the context window of the model: answers can be too long for "small"
  commands,
  status,          \* of each deferred command
  draining,
  faults, given

own == <<run, writes, leaf>>
deferred == <<commands, status, draining>>
environment == <<model, given>>
vars == <<state, pc, own, deferred, environment, faults>>

Fault == faults < MaxFaults /\ faults' = faults + 1

NoFault == UNCHANGED faults

Goto(o, label) == pc' = [pc EXCEPT ![o] = label]

\* What an operation leaves alone while its body runs.
BodyOnly == UNCHANGED <<deferred, environment>>

-------------------------------------------------------------------------------
(* The session: flushes. *)

\* A flush takes its watermark when it is called.
Flushing(o, label) ==
  /\ Goto(o, label)
  /\ writes' = [writes EXCEPT !.due = writes.pending]

Persist(n) ==
  /\ writes' = [pending |-> writes.pending - n, due |-> writes.due - n]
  /\ leaf' = IF n > 0 THEN "other" ELSE leaf

Flushed == Persist(writes.due) /\ NoFault

FlushFails == Fault /\ \E n \in 0..(writes.due - 1) : Persist(n)

-------------------------------------------------------------------------------
(* Beginning an operation, and the deferred commands. *)

NewRun == [answer |-> "none", turnModel |-> "none", turns |-> 0, bodyError |-> "none",
           failing |-> FALSE, noted |-> FALSE, unrestored |-> FALSE, outcome |-> "none"]

\* begin of the controller; places are those of the operations at the call.
BeginOperation(o, places) ==
  /\ reduceBegin(o)
  /\ pc' = [places EXCEPT ![o] = "started"]

\* prompt, compact or navigateTree, called by anybody: refused unless idle.
runOperation(o) ==
  /\ pc[o] = "new" /\ \A c \in Command : Starts[c] # o
  /\ IF state.tag = "idle"
     THEN BeginOperation(o, pc)
     ELSE Goto(o, "done") /\ UNCHANGED state
  /\ UNCHANGED <<own, deferred, environment, faults>>

\* Seeded fault: the loop goes on without looking whether the harness is idle.
MayStartAnytime(queue) == queue # <<>>

\* The loop of drain goes on with the first entry only while the harness is idle.
MayStart(queue) == queue # <<>> /\ state.tag = "idle"

\* From the head of the loop of drain to its next await, or out of it.
drainLoop(places, queue, statuses) ==
  IF MayStart(queue)
  THEN LET first == Head(queue) IN
       /\ draining' = TRUE
       /\ commands' = Tail(queue)
       /\ status' = [statuses EXCEPT ![first] = "running"]
       /\ IF Starts[first] # NoOperation
          THEN BeginOperation(Starts[first], places)
          ELSE pc' = places /\ UNCHANGED state
  ELSE /\ draining' = FALSE
       /\ commands' = queue /\ status' = statuses /\ pc' = places
       /\ UNCHANGED state

\* A drain that is going on takes care of what is called meanwhile.
drain(places, queue, statuses) ==
  IF draining
  THEN /\ commands' = queue /\ status' = statuses /\ pc' = places
       /\ UNCHANGED <<state, draining>>
  ELSE drainLoop(places, queue, statuses)

runWhenIdle(c) ==
  /\ status[c] = "new"
  /\ drain(pc, Append(commands, c), [status EXCEPT ![c] = "queued"])
  /\ UNCHANGED <<own, environment, faults>>

Without(queue, i) == SubSeq(queue, 1, i - 1) \o SubSeq(queue, i + 1, Len(queue))

cancel(c) ==
  /\ status[c] = "queued"
  /\ \E i \in DOMAIN commands : commands[i] = c /\ commands' = Without(commands, i)
  /\ status' = [status EXCEPT ![c] = "done"]
  /\ UNCHANGED <<state, pc, own, draining, environment, faults>>

\* A command completes or fails, one that began an operation with the operation.
CommandEnds(c) ==
  /\ status[c] = "running"
  /\ Starts[c] # NoOperation => pc[Starts[c]] = "done"
  /\ drainLoop(pc, commands, [status EXCEPT ![c] = "done"])
  /\ UNCHANGED <<own, environment, faults>>

-------------------------------------------------------------------------------
(* The body of a prompt: attempts and their turns. *)

\* An error thrown out of the body, with what the catch of the operation keeps.
BodyFails(o, label, error) ==
  /\ Goto(o, label)
  /\ run' = [run EXCEPT !.bodyError = error]

\* The session, a callback or the provider may throw what is itself an abort, whether
\* or not an abort was delivered; what listeners and hooks throw is a failure.
Errors == {"failed", "aborted"}

BodyThrows(o, label) == \E error \in Errors : BodyFails(o, label, error)

\* operation_started has been told; the state of the turn is taken from the model.
Started(o) ==
  /\ pc[o] = "started"
  /\ \/ NoFault /\ isPromptFamily(o) /\ Goto(o, "attempt") /\ UNCHANGED state
        /\ run' = [run EXCEPT !.turnModel = model]
     \/ NoFault /\ ~ isPromptFamily(o) /\ Goto(o, "structural")
        /\ reduceStage(o, "structural_running") /\ UNCHANGED run
     \/ Fault /\ BodyFails(o, "finish", "failed") /\ UNCHANGED state
     \/ Fault /\ isPromptFamily(o) /\ BodyThrows(o, "finish") /\ UNCHANGED state
  /\ UNCHANGED <<writes, leaf>> /\ BodyOnly

\* runAttempt up to its body; a failing attempt_started listener skips the body.
BeginAttempt(o, from, reason) ==
  /\ pc[o] = from /\ reduceAttemptBegin(o, reason)
  /\ LET begun == [run EXCEPT !.answer = "none", !.failing = FALSE] IN
     \/ NoFault /\ Goto(o, "turn") /\ run' = begun
     \/ Fault /\ Goto(o, "endAttempt") /\ run' = [begun EXCEPT !.bodyError = "failed"]
  /\ UNCHANGED <<writes, leaf>> /\ BodyOnly

\* Answers after which the loop ends at once, and those it may go on after.
Terminal == {"error", "overflow", "aborted"}

\* The answer of the provider has been appended to the session; it may be aborted of
\* the provider's own accord, and may be none although an abort was delivered.
Answered(o) ==
  /\ pc[o] = "turn"
  /\ \E answer \in {"more", "stop", "long"} \cup Terminal :
       /\ answer = "more" => run.turns + 1 < MaxTurns
       /\ run' = [run EXCEPT !.answer = answer, !.turns = @ + 1]
  /\ leaf' = "answer"
  /\ Goto(o, "turnEnd")
  /\ UNCHANGED <<state, writes>> /\ NoFault /\ BodyOnly

\* Seeded fault: an error of the report leaves the attempt open.
ThrowPastAttempt(o) ==
  /\ Goto(o, IF run.failing THEN "finish" ELSE "report")
  /\ run' = [run EXCEPT !.bodyError = IF run.failing THEN "failed" ELSE @]

\* What an error inside the loop leads to: the failure report, or the end of the
\* attempt when it is the report that fails.
Throw(o) ==
  /\ Goto(o, IF run.failing THEN "endAttempt" ELSE "report")
  /\ run' = [run EXCEPT !.bodyError = IF run.failing THEN "failed" ELSE @]

LoopThrows(o) ==
  /\ pc[o] = "turn" /\ Fault /\ Throw(o)
  /\ UNCHANGED <<state, writes, leaf>> /\ BodyOnly

\* emitRunFailure: a failure message is the answer; then the end of a turn.
ReportFailure(o) ==
  /\ pc[o] = "report"
  /\ \E answer \in IF state.abortRequested THEN {"aborted"} ELSE {"error", "overflow"} :
       run' = [run EXCEPT !.answer = answer, !.failing = TRUE]
  /\ leaf' = "answer"
  /\ Goto(o, "turnEnd")
  /\ UNCHANGED <<state, writes>> /\ NoFault /\ BodyOnly

ReportFails(o) ==
  /\ pc[o] = "report" /\ Fault
  /\ BodyFails(o, "endAttempt", "failed")
  /\ UNCHANGED <<state, writes, leaf>> /\ BodyOnly

\* turn_end is told; its flush runs also behind a failing listener.
TurnEnd(o) ==
  /\ pc[o] = "turnEnd"
  /\ \/ NoFault /\ run' = [run EXCEPT !.noted = FALSE]
     \/ Fault /\ run' = [run EXCEPT !.noted = TRUE]
  /\ Flushing(o, "turnFlush")
  /\ UNCHANGED <<state, leaf>> /\ BodyOnly

SavePoint(o) ==
  IF state.stage = "attempt_running" THEN reduceStage(o, "save_point") ELSE UNCHANGED state

TurnFlushed(o) ==
  /\ pc[o] = "turnFlush"
  /\ SavePoint(o)
  /\ \/ Flushed /\ IF run.noted THEN Throw(o) ELSE Goto(o, "savePoint") /\ UNCHANGED run
     \/ FlushFails /\ Throw(o)
  /\ BodyOnly

\* save_point is told; the loop prepares the next turn or tells agent_end, and both
\* begin with a flush.
TurnOver(o) ==
  /\ pc[o] = "savePoint"
  /\ \/ NoFault /\ UNCHANGED run
        /\ \/ run.answer \notin Terminal /\ Flushing(o, "nextFlush")
           \/ run.answer \in Terminal \cup {"more"} /\ Flushing(o, "endFlush")
     \/ Fault /\ Throw(o) /\ UNCHANGED writes
  /\ UNCHANGED <<state, leaf>> /\ BodyOnly

\* prepareNextTurn behind its flush.
NextFlushed(o) ==
  /\ pc[o] = "nextFlush"
  /\ \/ /\ Flushed /\ Goto(o, "prepare") /\ UNCHANGED run
        /\ IF state.stage = "save_point" THEN reduceStage(o, "attempt_running") ELSE UNCHANGED state
     \/ FlushFails /\ Throw(o) /\ UNCHANGED state
  /\ BodyOnly

\* The state of the next turn is taken from the model.  There is a next turn after
\* calls of tools, and after any other answer when messages were queued.
Prepare(o) ==
  /\ pc[o] = "prepare"
  /\ \/ NoFault /\ run' = [run EXCEPT !.turnModel = model]
        /\ \/ run.turns < MaxTurns /\ Goto(o, "turn") /\ UNCHANGED writes
           \/ run.answer # "more" /\ Flushing(o, "endFlush")
     \/ Fault /\ Throw(o) /\ UNCHANGED writes
  /\ UNCHANGED <<state, leaf>> /\ BodyOnly

EndFlushed(o) ==
  /\ pc[o] = "endFlush"
  /\ \/ Flushed /\ Goto(o, "endAttempt") /\ UNCHANGED run
     \/ FlushFails /\ Throw(o)
  /\ UNCHANGED state /\ BodyOnly

\* agent_end is told behind its flush.
AgentEndFails(o) ==
  /\ pc[o] = "endFlush" /\ Fault /\ Throw(o)
  /\ Persist(writes.due)
  /\ UNCHANGED state /\ BodyOnly

\* isContextOverflow
Overflows(answer, window) == answer = "overflow" \/ (answer = "long" /\ window = "small")

\* classifyAttemptOutcome and classifyAttemptFailure
Classified ==
  IF run.bodyError # "none" THEN run.bodyError
  ELSE IF run.answer = "aborted" THEN "aborted"
  ELSE IF Overflows(run.answer, run.turnModel) THEN "overflow"
  ELSE IF run.answer = "error" THEN "failed" ELSE "completed"

\* The attempt is closed, attempt_finished is told, and a flush follows.
EndAttempt(o) ==
  /\ pc[o] = "endAttempt" /\ reduceAttemptEnd(o, Classified)
  /\ \/ NoFault /\ run' = [run EXCEPT !.noted = FALSE, !.turns = 0]
     \/ Fault /\ run' = [run EXCEPT !.noted = TRUE, !.turns = 0]
  /\ Flushing(o, "attemptFlush")
  /\ UNCHANGED leaf /\ BodyOnly

InRecovery == Len(state.attempts) = 2

\* Whether the attempt failed before its flush.  Errors that come together are raised
\* as one, which is no abort; one by itself stays what it is.
Failing == run.noted \/ run.bodyError # "none"

AttemptFlushed(o) ==
  /\ pc[o] = "attemptFlush"
  /\ LET place == IF InRecovery THEN "restore" ELSE "finish" IN
     \/ Flushed /\ ~ Failing /\ UNCHANGED run
        /\ Goto(o, IF InRecovery THEN "finish" ELSE "recover")
     \/ Flushed /\ Failing /\ BodyFails(o, place, IF run.noted THEN "failed" ELSE run.bodyError)
     \/ FlushFails /\ BodyFails(o, place, "failed")
     \/ FlushFails /\ ~ Failing /\ BodyThrows(o, place)
  /\ UNCHANGED state /\ BodyOnly

-------------------------------------------------------------------------------
(* Recovery from an overflow. *)

\* recoverContextOverflow looks at the model of now, and at the leaf.
Overflowed == AutoCompacts /\ Overflows(run.answer, model)

Recover(o) ==
  /\ pc[o] = "recover"
  /\ \/ NoFault /\ UNCHANGED run
        /\ Goto(o, IF Overflowed /\ leaf = "answer" THEN "moveBack" ELSE "finish")
     \/ Fault /\ Overflowed /\ BodyThrows(o, "finish")
  /\ UNCHANGED <<state, writes, leaf>> /\ BodyOnly

\* The leaf is moved before the answer; only then is the stage asked for, outside
\* of the region whose catch moves the leaf back.
MoveBack(o) ==
  /\ pc[o] = "moveBack"
  /\ \/ /\ NoFault /\ leaf' = "parent"
        /\ IF StageLegal(o, "recovering_overflow")
           THEN reduceStage(o, "recovering_overflow") /\ Goto(o, "compact") /\ UNCHANGED run
           ELSE BodyFails(o, "finish", "failed") /\ UNCHANGED state
     \/ Fault /\ BodyThrows(o, "finish") /\ UNCHANGED <<state, leaf>>
  /\ UNCHANGED writes /\ BodyOnly

\* runCompaction: nothing to compact, compacted, or thrown before or after the commit,
\* with a delivered abort also without a fault.
Compact(o) ==
  /\ pc[o] = "compact"
  /\ \/ NoFault /\ Goto(o, "unrecovered") /\ UNCHANGED <<run, leaf>>
     \/ /\ NoFault /\ leaf' = "other" /\ Goto(o, "retry")
        /\ run' = [run EXCEPT !.turnModel = model]
     \/ Fault /\ leaf' \in {leaf, "other"} /\ BodyThrows(o, "restore")
     \/ /\ state.abortRequested /\ NoFault
        /\ BodyFails(o, "restore", "aborted") /\ UNCHANGED leaf
  /\ UNCHANGED <<state, writes>> /\ BodyOnly

\* Nothing was compacted: the leaf goes back to the answer, which is the result.
Unrecovered(o) ==
  /\ pc[o] = "unrecovered"
  /\ \/ NoFault /\ leaf' = "answer" /\ Goto(o, "finish") /\ UNCHANGED run
     \/ Fault /\ BodyThrows(o, "restore") /\ UNCHANGED leaf
  /\ UNCHANGED <<state, writes>> /\ BodyOnly

\* Seeded fault: the catch rethrows without moving the leaf.
RestoreNothing(o) ==
  /\ pc[o] = "restore" /\ Goto(o, "finish")
  /\ UNCHANGED <<state, own, faults>> /\ BodyOnly

\* The catch: the leaf goes back; if that fails, its error replaces the first.
Restore(o) ==
  /\ pc[o] = "restore"
  /\ \/ NoFault /\ leaf' = "answer" /\ Goto(o, "finish") /\ UNCHANGED run
     \/ /\ Fault /\ Goto(o, "finish") /\ UNCHANGED leaf
        /\ \E error \in Errors : run' = [run EXCEPT !.bodyError = error, !.unrestored = TRUE]
  /\ UNCHANGED <<state, writes>> /\ BodyOnly

-------------------------------------------------------------------------------
(* The bodies of compact and navigateTree. *)

\* Nothing was committed: a navigation was cancelled or goes nowhere, or a hook, the
\* provider or the session refused.
StructureEnds(o) ==
  /\ pc[o] = "structural"
  /\ \/ NoFault /\ Kind[o] = "navigation" /\ Goto(o, "finish")
        /\ \E answer \in {"cancelled", "stop"} : run' = [run EXCEPT !.answer = answer]
     \/ Fault /\ BodyThrows(o, "finish")
  /\ UNCHANGED <<state, writes, leaf>> /\ BodyOnly

CommitBegins(o) ==
  /\ pc[o] = "structural" /\ reduceStage(o, "committing")
  /\ Goto(o, "commit")
  /\ UNCHANGED <<own, faults>> /\ BodyOnly

\* The session is written and the change is told; the change stays if telling fails.
Commit(o) ==
  /\ pc[o] = "commit"
  /\ \/ NoFault /\ leaf' = "other" /\ Goto(o, "finish") /\ UNCHANGED run
     \/ Fault /\ leaf' \in {leaf, "other"} /\ BodyThrows(o, "finish")
  /\ UNCHANGED <<state, writes>> /\ BodyOnly

-------------------------------------------------------------------------------
(* Settling. *)

Finish(o) ==
  /\ pc[o] = "finish"
  /\ Flushing(o, "finalFlush")
  /\ UNCHANGED <<state, run, leaf>> /\ NoFault /\ BodyOnly

\* Seeded fault: a result is an outcome before the failure of the flush is.
ResolvedByResult(flushFailed) ==
  IF run.bodyError # "none" THEN run.bodyError
  ELSE IF run.answer \in {"aborted", "cancelled"} THEN run.answer
  ELSE IF flushFailed /\ run.answer \notin {"stop", "more", "long"} THEN "failed"
  ELSE IF run.answer \in Terminal THEN "failed"
  ELSE IF state.abortRequested THEN "aborted" ELSE "completed"

\* resolveOperationOutcome: flush, body, result, signal.
resolveOperationOutcome(flushFailed) ==
  IF flushFailed THEN "failed"
  ELSE IF run.bodyError # "none" THEN run.bodyError
  ELSE IF run.answer \in {"aborted", "cancelled"} THEN run.answer
  ELSE IF run.answer \in {"error", "overflow"} THEN "failed"
  ELSE IF state.abortRequested THEN "aborted" ELSE "completed"

\* Behind the final flush the outcome is fixed and settling begins.
FinalFlushed(o) ==
  /\ pc[o] = "finalFlush" /\ reduceSettleBegin(o)
  /\ \/ Flushed /\ run' = [run EXCEPT !.outcome = resolveOperationOutcome(FALSE)]
     \/ FlushFails /\ run' = [run EXCEPT !.outcome = resolveOperationOutcome(TRUE)]
  /\ Goto(o, "settling") /\ BodyOnly

\* settled is told, which may fail and changes nothing then; who waits is released.
SettleFinish(o) ==
  /\ pc[o] = "settling" /\ reduceSettleFinish(o)
  /\ run' = NewRun /\ leaf' = "other" /\ writes' = [writes EXCEPT !.due = 0]
  /\ Goto(o, "drain")
  /\ UNCHANGED <<deferred, environment, faults>>

\* Seeded fault: the commands wait for the next one that is registered.
DrainForgotten(o) ==
  /\ pc[o] = "drain"
  /\ Goto(o, "done")
  /\ UNCHANGED <<state, own, deferred, environment, faults>>

\* The call drains the commands, without waiting for them, and answers.
Drain(o) ==
  /\ pc[o] = "drain"
  /\ drain([pc EXCEPT ![o] = "done"], commands, status)
  /\ UNCHANGED <<own, environment, faults>>

-------------------------------------------------------------------------------
(* What listeners and callers do meanwhile. *)

\* A write through the session facade while a prompt is active.
Write ==
  /\ state.tag = "active" /\ isPromptFamily(state.operation) /\ given < MaxWrites
  /\ given' = given + 1
  /\ writes' = [writes EXCEPT !.pending = @ + 1]
  /\ UNCHANGED <<state, pc, run, leaf, deferred, model, faults>>

\* setModel; while an operation is active the change of the session is queued.
setModel ==
  /\ given < MaxWrites
  /\ given' = given + 1
  /\ model' = IF model = "small" THEN "large" ELSE "small"
  /\ writes' = IF state.tag = "active" THEN [writes EXCEPT !.pending = @ + 1] ELSE writes
  /\ UNCHANGED <<state, pc, run, leaf, deferred, faults>>

\* requestAbort and abort deliver the signal to the operation they find, unless they
\* are refused while it is a structural one; abort waits for its settlement then.
requestAbort ==
  /\ \E o \in Operation : isPromptFamily(o) /\ reduceAbortRequest(o)
  /\ UNCHANGED <<pc, own, deferred, environment, faults>>

-------------------------------------------------------------------------------

Init ==
  /\ LifecycleInit
  /\ pc = [o \in Operation |-> "new"]
  /\ run = NewRun
  /\ writes = [pending |-> 0, due |-> 0]
  /\ leaf = "other"
  /\ model = "large"
  /\ commands = <<>> /\ status = [c \in Command |-> "new"] /\ draining = FALSE
  /\ faults = 0 /\ given = 0

\* What the operation does of its own.
Body(o) ==
  \/ Started(o)
  \/ BeginAttempt(o, "attempt", "initial") \/ BeginAttempt(o, "retry", "context_overflow_recovery")
  \/ Answered(o) \/ LoopThrows(o) \/ ReportFailure(o) \/ ReportFails(o)
  \/ TurnEnd(o) \/ TurnFlushed(o) \/ TurnOver(o) \/ NextFlushed(o) \/ Prepare(o)
  \/ EndFlushed(o) \/ AgentEndFails(o) \/ EndAttempt(o) \/ AttemptFlushed(o)
  \/ Recover(o) \/ MoveBack(o) \/ Compact(o) \/ Unrecovered(o) \/ Restore(o)
  \/ StructureEnds(o) \/ CommitBegins(o) \/ Commit(o)
  \/ Finish(o) \/ FinalFlushed(o) \/ SettleFinish(o) \/ Drain(o)

Next ==
  \/ \E o \in Operation : runOperation(o) \/ Body(o)
  \/ \E c \in Command : runWhenIdle(c) \/ cancel(c) \/ CommandEnds(c)
  \/ Write \/ setModel \/ requestAbort

Spec == Init /\ [][Next]_vars

\* Listeners, hooks, the provider, tools and the session answer; so do commands.
Fairness ==
  /\ \A o \in Operation : WF_vars(Body(o))
  /\ \A c \in Command : WF_vars(CommandEnds(c))

FairSpec == Spec /\ Fairness

-------------------------------------------------------------------------------

TypeOK ==
  /\ LifecycleTypeOK
  /\ pc \in [Operation -> {"new", "started", "attempt", "turn", "report", "turnEnd",
       "turnFlush", "savePoint", "nextFlush", "prepare", "endFlush", "endAttempt",
       "attemptFlush", "recover", "moveBack", "compact", "unrecovered", "retry", "restore",
       "structural", "commit", "finish", "finalFlush", "settling", "drain", "done"}]
  /\ run \in [answer : {"none", "more", "stop", "long", "cancelled"} \cup Terminal,
              turnModel : {"none", "small", "large"}, turns : Nat,
              bodyError : {"none", "failed", "aborted"},
              failing : BOOLEAN, noted : BOOLEAN, unrestored : BOOLEAN,
              outcome : {"none", "completed", "aborted", "cancelled", "failed"}]
  /\ writes \in [pending : Nat, due : Nat] /\ writes.due <= writes.pending
  /\ leaf \in {"other", "answer", "parent"}
  /\ model \in {"small", "large"}
  /\ commands \in Seq(Command) /\ draining \in BOOLEAN
  /\ status \in [Command -> {"new", "queued", "running", "done"}]

\* The answer overflows the model the harness has now, and not the model the turn
\* used, which has been changed meanwhile.
ModelChangedUnderAnswer == run.answer = "long" /\ run.turnModel = "large"

\* The reducer accepts each command the operation gives at the stage the operation
\* has reached, whatever failed, was aborted or was told before; the one exception
\* is the recovery of an answer judged by two models (agent-harness.ts:737).
OwnCommandsAccepted ==
  \A o \in Operation :
    /\ pc[o] = "attempt" => AttemptBeginLegal(o, "initial")
    /\ pc[o] = "retry" => AttemptBeginLegal(o, "context_overflow_recovery")
    /\ pc[o] \in {"turn", "endAttempt"} => AttemptEndLegal(o)
    /\ pc[o] = "structural" => StageLegal(o, "committing")
    /\ pc[o] = "moveBack" => StageLegal(o, "recovering_overflow") \/ ModelChangedUnderAnswer
    /\ pc[o] \in {"finish", "finalFlush"} => SettleBeginLegal(o)
    /\ pc[o] = "settling" => SettleFinishLegal(o)

\* No operation settles with the session's leaf before its answer, unless the leaf
\* could not be moved back or the model was changed under the answer.
RecoveryKeepsLeaf ==
  state.tag = "settling" /\ leaf = "parent" => run.unrestored \/ ModelChangedUnderAnswer

\* An operation reported as completed has persisted what was accepted before its
\* final flush, its last attempt neither failed nor was aborted, and no abort was
\* delivered to it.
CompletedIsEarned ==
  run.outcome = "completed" =>
    /\ writes.due = 0
    /\ ~ state.abortRequested
    /\ state.attempts # <<>> => state.attempts[Len(state.attempts)] \in {"completed", "overflow"}

Turns == INSTANCE OperationTurns WITH
  current <- state.operation,
  stopped <- state.abortRequested,
  outcome <- run.outcome,
  running <- {c \in Command : status[c] = "running"}

\* Whatever is called when, operations and deferred commands take turns, and each
\* operation settles with one outcome, which is not "completed" once an abort has been
\* delivered.
TakesTurns == Turns!Spec

\* When nobody calls any more, every operation that has begun has settled and every
\* deferred command that was not cancelled has been run: none is left behind by an
\* operation that failed, or by a drain that found the harness busy.
ComesToRest ==
  <>[](state.tag = "idle" /\ \A c \in Command : status[c] \in {"new", "done"})

===============================================================================
