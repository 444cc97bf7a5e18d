-------------------------- MODULE OperationLifecycle --------------------------
(***************************************************************************)
(* The lifecycle of the operations of one harness as a reducer over        *)
(* commands (packages/agent/src/harness/operation-lifecycle-reducer.ts).   *)
(* A command is an action; the reducer rejects it when it is not enabled.  *)
(* Sequence numbers stand for the identity of an operation and are left    *)
(* out, as are identifiers of attempts: an attempt is its place.           *)
(***************************************************************************)
EXTENDS Naturals, Sequences

CONSTANTS
  Operation,
  NoOperation,
  Kind             \* "prompt" for the prompt family, or "compaction" or "navigation"

ASSUME LifecycleAssumption ==
  /\ NoOperation \notin Operation
  /\ Kind \in [Operation -> {"prompt", "compaction", "navigation"}]

VARIABLES
  state            \* the lifecycle state the controller owns

Stages == {"preparing", "attempt_running", "save_point", "recovering_overflow",
           "structural_running", "committing"}

AttemptOutcomes == {"completed", "overflow", "aborted", "failed"}

Idle == [tag |-> "idle", operation |-> NoOperation, stage |-> "preparing", attempt |-> FALSE,
         attempts |-> <<>>, abortRequested |-> FALSE]

Active(o) == state.tag = "active" /\ state.operation = o

isPromptFamily(o) == Kind[o] = "prompt"

-------------------------------------------------------------------------------

reduceBegin(o) ==
  /\ state.tag = "idle"
  /\ state' = [Idle EXCEPT !.tag = "active", !.operation = o]

lastAttemptOverflowed ==
  state.attempts # <<>> /\ state.attempts[Len(state.attempts)] = "overflow"

isLegalStageMove(to) ==
  \/ state.stage = "attempt_running" /\ to = "save_point" /\ state.attempt
  \/ state.stage = "save_point" /\ to = "attempt_running" /\ state.attempt
  \/ /\ state.stage = "preparing" /\ to = "recovering_overflow"
     /\ isPromptFamily(state.operation) /\ ~ state.attempt /\ lastAttemptOverflowed
  \/ state.stage = "preparing" /\ to = "structural_running" /\ ~ isPromptFamily(state.operation)
  \/ state.stage = "structural_running" /\ to = "committing"

StageLegal(o, to) == Active(o) /\ isLegalStageMove(to)

reduceStage(o, to) ==
  /\ StageLegal(o, to)
  /\ state' = [state EXCEPT !.stage = to]

AttemptBeginLegal(o, reason) ==
  /\ Active(o) /\ ~ state.attempt /\ isPromptFamily(o)
  /\ \/ state.stage = "preparing" /\ state.attempts = <<>> /\ reason = "initial"
     \/ /\ state.stage = "recovering_overflow" /\ state.attempts # <<>>
        /\ reason = "context_overflow_recovery"

reduceAttemptBegin(o, reason) ==
  /\ AttemptBeginLegal(o, reason)
  /\ state' = [state EXCEPT !.stage = "attempt_running", !.attempt = TRUE]

AttemptEndLegal(o) ==
  Active(o) /\ state.attempt /\ state.stage \in {"attempt_running", "save_point"}

reduceAttemptEnd(o, outcome) ==
  /\ AttemptEndLegal(o)
  /\ state' = [state EXCEPT !.stage = "preparing", !.attempt = FALSE,
                            !.attempts = Append(@, outcome)]

reduceAbortRequest(o) ==
  /\ Active(o)
  /\ state' = [state EXCEPT !.abortRequested = TRUE]

SettleBeginLegal(o) == Active(o) /\ ~ state.attempt

reduceSettleBegin(o) ==
  /\ SettleBeginLegal(o)
  /\ state' = [state EXCEPT !.tag = "settling"]

SettleFinishLegal(o) == state.tag = "settling" /\ state.operation = o

reduceSettleFinish(o) ==
  /\ SettleFinishLegal(o)
  /\ state' = Idle

LifecycleInit == state = Idle

LifecycleNext ==
  \E o \in Operation :
    \/ reduceBegin(o)
    \/ \E to \in Stages : reduceStage(o, to)
    \/ \E reason \in {"initial", "context_overflow_recovery"} : reduceAttemptBegin(o, reason)
    \/ \E outcome \in AttemptOutcomes : reduceAttemptEnd(o, outcome)
    \/ reduceAbortRequest(o) \/ reduceSettleBegin(o) \/ reduceSettleFinish(o)

Lifecycle == LifecycleInit /\ [][LifecycleNext]_state

-------------------------------------------------------------------------------

LifecycleTypeOK ==
  state \in [tag : {"idle", "active", "settling"}, operation : Operation \cup {NoOperation},
             stage : Stages, attempt : BOOLEAN, attempts : Seq(AttemptOutcomes),
             abortRequested : BOOLEAN]

\* Whatever commands come in whatever order, an attempt is open exactly in the
\* stages that run one, each attempt but the last was closed by an overflow that a
\* recovery answered, and an operation that is no prompt never has an attempt.
AttemptsAreAccounted ==
  /\ state.tag = "idle" <=> state.operation = NoOperation
  /\ state.attempt <=> state.stage \in {"attempt_running", "save_point"}
  /\ state.tag = "settling" => ~ state.attempt
  /\ \A i \in DOMAIN state.attempts : i < Len(state.attempts) => state.attempts[i] = "overflow"
  /\ state.attempt /\ state.attempts # <<>> => lastAttemptOverflowed
  /\ state.stage = "recovering_overflow" => lastAttemptOverflowed
  /\ state.tag # "idle" /\ state.operation \in Operation /\ ~ isPromptFamily(state.operation)
       => state.attempts = <<>> /\ ~ state.attempt

===============================================================================
