------------------------------ MODULE ToolBatch ------------------------------
(***************************************************************************)
(* One batch of tool calls of the agent loop under the dag-v2 scheduler    *)
(* (packages/agent/src: agent-loop, tool-timeout, tool-timeout-settlement, *)
(* tool-execution-boundary; packages/agent/src/agent for the failure path).*)
(*                                                                         *)
(* The runner is the async function that owns the batch; pc is the await   *)
(* at which it is.  Between two awaits anything else may happen: the user  *)
(* aborts the run, a timer fires, a tool settles, sibling calls go on.     *)
(* Every await on an event sink may fail, because a listener throws; the   *)
(* run then rejects, and the agent closes the transcript while the sibling *)
(* calls it no longer waits for go on.                                     *)
(***************************************************************************)
EXTENDS DagSchedule

CONSTANTS
  N,                   \* number of calls in the batch
  Planned,             \* claims a call may be planned with
  Rewritten(_),        \* claims it may have after the beforeToolCall hook
  Plannable,           \* sets of calls that planToolCall accepts
  Refusals,            \* dispositions of a call that the hook refuses
  OwnResults,          \* disposition and terminate flag of a tool's own result
  maxToolConcurrency

Call == 1..N

ASSUME BatchAssumption ==
  /\ N \in Nat
  /\ Planned \subseteq Resolution
  /\ \A r \in Planned : Rewritten(r) \subseteq Resolution
  /\ Plannable \subseteq SUBSET Call
  /\ Refusals \subseteq {"blocked", "failed"}
  /\ OwnResults \subseteq {"completed", "failed"} \X BOOLEAN
  /\ maxToolConcurrency \in Nat

VARIABLES
  planned,     \* claims of the arguments the model emitted
  plannable,   \* calls with a tool and valid arguments
  claims,      \* claims of the arguments after the hooks
  aborted,     \* signal.aborted of the run
  pc,          \* where the runner waits
  levels,      \* candidate levels not begun
  level,       \* the candidate level in work
  unauthorized,\* its calls that beforeToolCall has not seen
  sublevels,   \* its final sublevels not begun
  group,       \* the sublevel in work
  phase,       \* what the executor has done with each call
  tool,        \* the real execution of each call
  cause,       \* who won, or will win, the race of each call
  outcome,     \* the finalized outcome of each call
  stop,        \* why later levels are skipped
  pending,     \* results still to be emitted
  transcript,  \* results in the transcript of the agent
  committed,   \* calls whose commitTerminal ran
  late         \* calls whose late settlement was reported

call == <<phase, tool, cause, outcome>>
plan == <<planned, plannable, levels, level, unauthorized, sublevels>>
log  == <<pending, transcript, committed, late>>
vars == <<plan, claims, aborted, pc, group, call, stop, log>>

Disposition == {"completed", "failed", "blocked", "aborted", "timeout", "skipped"}

Result == [call : Call, disposition : Disposition, started : BOOLEAN]

Outcome == [disposition : Disposition \cup {"none"}, started : BOOLEAN, terminate : BOOLEAN]

NoOutcome == [disposition |-> "none", started |-> FALSE, terminate |-> FALSE]

\* The runner has rejected or returned: nobody waits for the calls any more.
Abandoned == pc \in {"failing", "closing", "ended", "rejected"}

Over == pc \in {"provider", "ended", "rejected"}

-------------------------------------------------------------------------------
(* Planning: immediate failures carry no claims and fold into the first level. *)

schedulePlannedDagLevels ==
  LET scheduled == scheduleDagLevels(planned, plannable, maxToolConcurrency)
      immediate == Call \ plannable
  IN  IF immediate = {} THEN scheduled
      ELSE IF scheduled = <<>> THEN <<immediate>>
      ELSE [scheduled EXCEPT ![1] = @ \cup immediate]

Schedule ==
  /\ pc = "schedule"
  /\ levels' = IF aborted THEN <<>> ELSE schedulePlannedDagLevels
  /\ pc' = "level"
  /\ UNCHANGED <<planned, plannable, level, unauthorized, sublevels>>
  /\ UNCHANGED <<claims, aborted, group, call, stop, log>>

-------------------------------------------------------------------------------
(* Closing the batch: one result for every call, in source order. *)

BatchResult(i) ==
  IF outcome[i].disposition # "none"
  THEN [call |-> i, disposition |-> outcome[i].disposition, started |-> outcome[i].started]
  ELSE [call |-> i, disposition |-> IF aborted THEN "aborted" ELSE "skipped", started |-> FALSE]

\* A call with no outcome has a result only if the batch was aborted or skipped.
CloseBatch(reason) ==
  LET resulting == {i \in Call : outcome[i].disposition # "none" \/ aborted \/ reason # "no"}
  IN  /\ stop' = reason
      /\ pending' = {BatchResult(i) : i \in resulting}
      /\ pc' = "emit"

\* Seeded fault: the next level is authorized as if it were the one before.
BeginLevelStale ==
  /\ pc = "level" /\ ~ aborted /\ levels # <<>>
  /\ unauthorized' = Head(levels)
  /\ levels' = Tail(levels)
  /\ pc' = "authorize"
  /\ UNCHANGED <<planned, plannable, level, sublevels, claims, aborted, group, call, stop, log>>

\* The loop over the candidate levels of executeToolCallsDagLevels.
BeginLevel ==
  /\ pc = "level" /\ ~ aborted /\ levels # <<>>
  /\ level' = Head(levels)
  /\ unauthorized' = Head(levels)
  /\ levels' = Tail(levels)
  /\ pc' = "authorize"
  /\ UNCHANGED <<planned, plannable, sublevels, claims, aborted, group, call, stop, log>>

EndLevels ==
  /\ pc = "level" /\ (aborted \/ levels = <<>>)
  /\ CloseBatch("no")
  /\ UNCHANGED <<plan, claims, aborted, group, call, transcript, committed, late>>

\* shouldTerminateToolBatch over the outcomes of a set of calls.
AllTerminate(S) == S # {} /\ \A i \in S : outcome[i].terminate

LevelOutcomes == {i \in level : outcome[i].disposition # "none"}

EndLevel ==
  /\ pc = "levelEnd"
  /\ CASE aborted -> CloseBatch("no")
       [] ~ aborted /\ stop = "unsettled" -> CloseBatch("unsettled")
       [] ~ aborted /\ stop = "no" /\ AllTerminate(LevelOutcomes) -> CloseBatch("terminated")
       [] OTHER -> pc' = "level" /\ UNCHANGED <<stop, pending>>
  /\ UNCHANGED <<plan, claims, aborted, group, call, transcript, committed, late>>

-------------------------------------------------------------------------------
(* runDagLevelCalls: authorize, plan again, run the final sublevels. *)

\* The end of one round of the authorization loop.
AfterAuthorizing(i) ==
  /\ unauthorized' = unauthorized \ {i}
  /\ pc' = IF aborted THEN "levelEnd" ELSE pc
  /\ UNCHANGED <<planned, plannable, levels, level, sublevels, aborted, group, tool, cause, stop, log>>

Immediate(i, disposition) ==
  /\ phase' = [phase EXCEPT ![i] = "final"]
  /\ outcome' = [outcome EXCEPT ![i].disposition = disposition]
  /\ UNCHANGED claims

\* Seeded fault: a pending hook is not raced with the abort.
RefuseWithoutRace(i) ==
  /\ pc = "authorize"
  /\ i \in unauthorized /\ \A j \in unauthorized : i <= j
  /\ i \notin plannable /\ Immediate(i, "failed")
  /\ AfterAuthorizing(i)

\* A plan that failed, a run that is aborted: no hook is called.
RefuseCall(i) ==
  /\ pc = "authorize"
  /\ i \in unauthorized /\ \A j \in unauthorized : i <= j
  /\ \/ i \notin plannable /\ Immediate(i, "failed")
     \/ i \in plannable /\ aborted /\ Immediate(i, "aborted")
  /\ AfterAuthorizing(i)

\* beforeToolCall returns: it blocks the call, fails, or leaves arguments with
\* the claims of Rewritten.
HookReturns(i) ==
  /\ pc = "authorize" /\ ~ aborted
  /\ i \in unauthorized /\ \A j \in unauthorized : i <= j
  /\ i \in plannable
  /\ \/ \E disposition \in Refusals : Immediate(i, disposition)
     \/ /\ phase' = [phase EXCEPT ![i] = "prepared"]
        /\ \E r \in Rewritten(planned[i]) : claims' = [claims EXCEPT ![i] = r]
        /\ UNCHANGED outcome
  /\ AfterAuthorizing(i)

\* Seeded fault: the claims from before the hooks are taken.
RescheduleStale ==
  /\ pc = "authorize" /\ unauthorized = {}
  /\ IF aborted
     THEN pc' = "levelEnd" /\ UNCHANGED sublevels
     ELSE /\ pc' = "sublevel"
          /\ sublevels' = scheduleDagLevels(planned, {i \in level : phase[i] = "prepared"},
                                            maxToolConcurrency)
  /\ UNCHANGED <<planned, plannable, levels, level, unauthorized>>
  /\ UNCHANGED <<claims, aborted, group, call, stop, log>>

\* Post-hook claims are planned again, within the candidate level only.
RescheduleRunnable ==
  /\ pc = "authorize" /\ unauthorized = {}
  /\ IF aborted
     THEN pc' = "levelEnd" /\ UNCHANGED sublevels
     ELSE /\ pc' = "sublevel"
          /\ sublevels' = scheduleDagLevels(claims, {i \in level : phase[i] = "prepared"},
                                            maxToolConcurrency)
  /\ UNCHANGED <<planned, plannable, levels, level, unauthorized>>
  /\ UNCHANGED <<claims, aborted, group, call, stop, log>>

EndSublevels ==
  /\ pc = "sublevel" /\ (aborted \/ sublevels = <<>>)
  /\ pc' = "levelEnd"
  /\ UNCHANGED <<plan, claims, aborted, group, call, stop, log>>

\* emitToolExecutionStart for every call of the sublevel.
EmitStarts ==
  /\ pc = "sublevel" /\ ~ aborted /\ sublevels # <<>>
  /\ group' = Head(sublevels)
  /\ sublevels' = Tail(sublevels)
  /\ pc' \in {"launch", "failing"}
  /\ UNCHANGED <<planned, plannable, levels, level, unauthorized>>
  /\ UNCHANGED <<claims, aborted, call, stop, log>>

\* The executors of a sublevel run to their first await one after the other; a
\* run aborted while the starts were emitted starts no tool.
Launch ==
  /\ pc = "launch"
  /\ pc' = "join"
  /\ IF aborted
     THEN /\ phase' = [i \in Call |-> IF i \in group THEN "finalizing" ELSE phase[i]]
          /\ cause' = [i \in Call |-> IF i \in group THEN "aborted" ELSE cause[i]]
          /\ UNCHANGED tool
     ELSE /\ phase' = [i \in Call |-> IF i \in group THEN "racing" ELSE phase[i]]
          /\ tool' = [i \in Call |-> IF i \in group THEN "running" ELSE tool[i]]
          /\ UNCHANGED cause
  /\ UNCHANGED <<plan, claims, aborted, group, outcome, stop, log>>

\* Seeded fault: Promise.race over the sublevel.
JoinFirst ==
  /\ pc = "join" /\ \E i \in group : phase[i] = "final"
  /\ pc' = IF aborted THEN "levelEnd" ELSE "grace"
  /\ UNCHANGED <<plan, claims, aborted, group, call, stop, log>>

\* Promise.all over the sublevel.
Join ==
  /\ pc = "join" /\ \A i \in group : phase[i] = "final"
  /\ pc' = IF aborted THEN "levelEnd" ELSE "grace"
  /\ UNCHANGED <<plan, claims, aborted, group, call, stop, log>>

\* hasUnsettledTimeout: a timed-out tool has 250 ms to settle.
Unsettled == {i \in group : outcome[i].disposition = "timeout" /\ tool[i] = "running"}

\* Seeded fault: a sublevel that timed out is left behind.
NoGrace ==
  /\ pc = "grace"
  /\ pc' = "sublevel"
  /\ UNCHANGED <<plan, claims, aborted, group, call, stop, log>>

GraceSettled ==
  /\ pc = "grace" /\ Unsettled = {}
  /\ pc' = "sublevel"
  /\ UNCHANGED <<plan, claims, aborted, group, call, stop, log>>

GraceExpires ==
  /\ pc = "grace" /\ Unsettled # {}
  /\ pc' = "levelEnd"
  /\ stop' = "unsettled"
  /\ UNCHANGED <<plan, claims, aborted, group, call, log>>

-------------------------------------------------------------------------------
(* One call: runToolCallWithTimeout, then finalizeExecutedToolCall. *)

ToolSettles(i) ==
  /\ tool[i] = "running"
  /\ tool' = [tool EXCEPT ![i] = "settled"]
  /\ UNCHANGED <<plan, claims, aborted, pc, group, phase, cause, outcome, stop, log>>

TimerFires(i) ==
  /\ phase[i] = "racing" /\ cause[i] = "none"
  /\ cause' = [cause EXCEPT ![i] = "timeout"]
  /\ UNCHANGED <<plan, claims, aborted, pc, group, phase, tool, outcome, stop, log>>

\* Seeded fault: the terminal cause does not take part in the race.
RaceReal(i) ==
  /\ phase[i] = "racing"
  /\ tool[i] = "settled" /\ cause' = [cause EXCEPT ![i] = "real"]
  /\ phase' = [phase EXCEPT ![i] = "finalizing"]
  /\ UNCHANGED <<plan, claims, aborted, pc, group, tool, outcome, stop, log>>

\* Promise.race; when both sides have settled either may be seen first.
RaceSettles(i) ==
  /\ phase[i] = "racing"
  /\ \/ tool[i] = "settled" /\ cause' = [cause EXCEPT ![i] = "real"]
     \/ cause[i] # "none" /\ UNCHANGED cause
  /\ phase' = [phase EXCEPT ![i] = "finalizing"]
  /\ UNCHANGED <<plan, claims, aborted, pc, group, tool, outcome, stop, log>>

Finalized(i, disposition, terminate) ==
  /\ phase' = [phase EXCEPT ![i] = "ending"]
  /\ outcome' = [outcome EXCEPT ![i] = [disposition |-> disposition,
                                        started |-> tool[i] # "idle",
                                        terminate |-> terminate]]
  /\ UNCHANGED <<plan, claims, aborted, pc, group, tool, cause, stop, log>>

FinalizeTerminal(i) ==
  /\ phase[i] = "finalizing"
  /\ \/ cause[i] = "timeout" /\ Finalized(i, "timeout", FALSE)
     \/ cause[i] # "timeout" /\ (cause[i] = "aborted" \/ aborted) /\ Finalized(i, "aborted", FALSE)

\* The tool's own result, as afterToolCall leaves it.
AfterHookReturns(i) ==
  /\ phase[i] = "finalizing" /\ cause[i] = "real" /\ ~ aborted
  /\ \E r \in OwnResults : Finalized(i, r[1], r[2])

\* emitToolExecutionEnd; a failure rejects Promise.all, if anyone still waits.
EmitEnd(i) ==
  /\ phase[i] = "ending"
  /\ phase' = [phase EXCEPT ![i] = "final"]
  /\ IF Abandoned THEN UNCHANGED pc ELSE pc' \in {pc, "failing"}
  /\ UNCHANGED <<plan, claims, aborted, group, tool, cause, outcome, stop, log>>

\* Seeded fault: the audit event does not wait for commitTerminal.
LateSettlementAtOnce(i) ==
  /\ cause[i] \in {"timeout", "aborted"} /\ phase[i] # "racing"
  /\ tool[i] = "settled"
  /\ i \notin late
  /\ late' = late \cup {i}
  /\ UNCHANGED <<plan, claims, aborted, pc, group, call, stop, pending, transcript, committed>>

\* Audit event of a tool that settles after its result was committed.
LateSettlement(i) ==
  /\ cause[i] \in {"timeout", "aborted"} /\ phase[i] # "racing"
  /\ tool[i] = "settled"
  /\ i \in committed \ late
  /\ late' = late \cup {i}
  /\ UNCHANGED <<plan, claims, aborted, pc, group, call, stop, pending, transcript, committed>>

-------------------------------------------------------------------------------
(* The results, the end of the turn, and the failure path of the agent. *)

\* message_start, message_end: results go out in source order; the agent records
\* one at message_end, before it calls the listeners.
Emitted(r, onFailure) ==
  /\ \A s \in pending : r.call <= s.call
  /\ \/ /\ transcript' = Append(transcript, r)
        /\ pending' = pending \ {r}
        /\ pc' \in {pc, onFailure}
     \/ pc' = onFailure /\ UNCHANGED <<transcript, pending>>

EmitResult ==
  /\ pc = "emit"
  /\ \E r \in pending : Emitted(r, "failing") /\ committed' = committed \cup {r.call}
  /\ UNCHANGED <<plan, claims, aborted, group, call, stop, late>>

\* runToolBatchForTurn looks at the signal once, when the results are out: an abort
\* ends the run there.
EndBatch ==
  /\ pc = "emit" /\ pending = {}
  /\ IF aborted THEN pc' \in {"ended", "failing"} ELSE pc' = "turnEnd"
  /\ UNCHANGED <<plan, claims, aborted, group, call, stop, log>>

\* Seeded fault: an unsettled timeout skips calls but does not stop the run.
EndTurnUnsettled ==
  /\ pc = "turnEnd"
  /\ pc' \in {"ended", "failing", "nextTurn"}
  /\ UNCHANGED <<plan, claims, aborted, group, call, stop, log>>

\* turn_end is emitted; an unsettled timeout and the limit of turns stop the run.
EndTurn ==
  /\ pc = "turnEnd"
  /\ \/ pc' \in {"ended", "failing"}
     \/ stop # "unsettled" /\ pc' = "nextTurn"
  /\ UNCHANGED <<plan, claims, aborted, group, call, stop, log>>

\* prepareNextTurn, shouldStopAfterTurn and the queues return: they fail, stop the run,
\* as a terminating batch with empty queues does, or let another provider request
\* follow.  Nothing races them with the abort or looks at the signal after them.
NextTurn ==
  /\ pc = "nextTurn"
  /\ pc' \in {"ended", "failing", "provider"}
  /\ UNCHANGED <<plan, claims, aborted, group, call, stop, log>>

Missing == {i \in Call : \A k \in DOMAIN transcript : transcript[k].call # i}

\* Seeded fault: the failure path closes calls that have a result.
CloseEveryCall ==
  /\ pc = "failing"
  /\ pc' = "closing"
  /\ pending' = {[call |-> i, disposition |-> "aborted", started |-> FALSE] : i \in Call}
  /\ UNCHANGED <<plan, claims, aborted, group, call, stop, transcript, committed, late>>

\* handleRunFailure: planFailureTermination repairs the transcript.
HandleFailure ==
  /\ pc = "failing"
  /\ pc' = "closing"
  /\ pending' = {[call |-> i, disposition |-> "aborted", started |-> FALSE] : i \in Missing}
  /\ UNCHANGED <<plan, claims, aborted, group, call, stop, transcript, committed, late>>

EmitClosure ==
  /\ pc = "closing"
  /\ \E r \in pending : Emitted(r, "rejected")
  /\ UNCHANGED <<plan, claims, aborted, group, call, stop, committed, late>>

\* The failure assistant message, turn_end and agent_end.
EndFailure ==
  /\ pc = "closing" /\ pending = {}
  /\ pc' \in {"ended", "rejected"}
  /\ UNCHANGED <<plan, claims, aborted, group, call, stop, log>>

\* Agent.abort: every race that has no cause yet is lost to the abort.
Abort ==
  /\ ~ aborted /\ ~ Over
  /\ aborted' = TRUE
  /\ cause' = [i \in Call |-> IF phase[i] = "racing" /\ cause[i] = "none"
                              THEN "aborted" ELSE cause[i]]
  /\ UNCHANGED <<plan, claims, pc, group, phase, tool, outcome, stop, log>>

-------------------------------------------------------------------------------

Init ==
  /\ planned \in [Call -> Planned]
  /\ plannable \in Plannable
  /\ claims = planned
  /\ aborted = FALSE
  /\ pc = "schedule"
  /\ levels = <<>> /\ level = {} /\ unauthorized = {} /\ sublevels = <<>> /\ group = {}
  /\ phase = [i \in Call |-> "planned"]
  /\ tool = [i \in Call |-> "idle"]
  /\ cause = [i \in Call |-> "none"]
  /\ outcome = [i \in Call |-> NoOutcome]
  /\ stop = "no"
  /\ pending = {} /\ transcript = <<>>
  /\ committed = {} /\ late = {}

\* What the runner does at its awaits, hooks apart.
Runner ==
  \/ Schedule \/ BeginLevel \/ EndLevels \/ EndLevel
  \/ RescheduleRunnable \/ EndSublevels \/ EmitStarts \/ Launch
  \/ Join \/ GraceSettled \/ GraceExpires
  \/ EmitResult \/ EndBatch \/ EndTurn \/ HandleFailure \/ EmitClosure \/ EndFailure
  \/ \E i \in Call : RefuseCall(i)

\* What the executor of one call does, tool, timer and hook apart.
Executor(i) == RaceSettles(i) \/ FinalizeTerminal(i) \/ EmitEnd(i)

Next ==
  \/ Runner \/ NextTurn
  \/ \E i \in Call : HookReturns(i) \/ Executor(i) \/ AfterHookReturns(i)
  \/ \E i \in Call : ToolSettles(i) \/ TimerFires(i) \/ LateSettlement(i)
  \/ Abort

Spec == Init /\ [][Next]_vars
\* The runner, the executors and the emitted events make progress.  Hooks return
\* and timers fire only under the premises of BatchEnds; nothing makes a tool
\* settle.
Fairness == WF_vars(Runner) /\ \A i \in Call : WF_vars(Executor(i))

FairSpec == Spec /\ Fairness

-------------------------------------------------------------------------------

TypeOK ==
  /\ planned \in [Call -> Planned] /\ claims \in [Call -> Resolution]
  /\ plannable \subseteq Call /\ aborted \in BOOLEAN
  /\ pc \in {"schedule", "level", "authorize", "sublevel", "launch", "join", "grace",
             "levelEnd", "emit", "turnEnd", "nextTurn", "failing", "closing", "provider", "ended", "rejected"}
  /\ levels \in Seq(SUBSET Call) /\ sublevels \in Seq(SUBSET Call)
  /\ level \subseteq Call /\ unauthorized \subseteq level /\ group \subseteq Call
  /\ phase \in [Call -> {"planned", "prepared", "racing", "finalizing", "ending", "final"}]
  /\ tool \in [Call -> {"idle", "running", "settled"}]
  /\ cause \in [Call -> {"none", "real", "timeout", "aborted"}]
  /\ outcome \in [Call -> Outcome]
  /\ stop \in {"no", "unsettled", "terminated"}
  /\ pending \subseteq Result /\ transcript \in Seq(Result)
  /\ committed \subseteq Call /\ late \subseteq Call

\* Two tools that run at the same time do not conflict, by the claims of the
\* arguments they really run with, whatever the hooks rewrote, also when one of
\* them timed out, was aborted, or runs on after the run has rejected.
NoConflictingOverlap ==
  \A i, j \in Call : i # j /\ tool[i] = "running" /\ tool[j] = "running" =>
    ~ resolutionsConflict(claims[i], claims[j])

\* A tool starts only in a run that is not aborted and after every tool of the
\* sublevels before its own has settled.
StartsBehindBarrier ==
  [][\A i \in Call : tool[i] = "idle" /\ tool'[i] = "running" =>
       ~ aborted /\ \A j \in Call : tool[j] # "running"]_vars

\* Of two calls whose emitted arguments conflict the later one never starts
\* before the earlier one is decided, whatever the hooks make of them.
ConflictsRunInSourceOrder ==
  \A i, j \in Call :
    /\ i < j /\ tool[j] # "idle"
    /\ resolutionsConflict(planned[i], planned[j])
    => phase[i] = "final"

\* "dag-v2 ... preserves source order, and places conflicting calls in later
\* levels ... re-plans with post-hook arguments so a hook cannot silently
\* invalidate the original claim plan" (coding-agent/docs/runtime-algorithms.md):
\* of two calls that conflict by the arguments they run with, the earlier one does
\* not start after the later one.
FinalConflictsRunInSourceOrder ==
  \A i, j \in Call :
    /\ i < j /\ tool[i] = "running" /\ phase[j] = "final" /\ tool[j] # "idle"
    => ~ resolutionsConflict(claims[i], claims[j])

\* The transcript holds at most one result per call, in source order, also when
\* the failure path completes it; when the run has ended or goes on, it holds one
\* for every call.
OneResultPerCall ==
  /\ \A k, l \in DOMAIN transcript : k < l => transcript[k].call < transcript[l].call
  /\ pc \in {"ended", "provider"} => Missing = {}

\* "executionStarted records whether AgentTool.execute actually began"
\* (ToolResultEnvelope in packages/agent/src/types.ts).
EnvelopeTellsExecution ==
  \A k \in DOMAIN transcript : transcript[k].started <=> tool[transcript[k].call] # "idle"

\* "This only takes effect when every finalized tool result in the batch is
\* terminating" (packages/agent/README.md, on terminate).
TerminatesOnlyTogether ==
  stop = "terminated" => AllTerminate({i \in Call : outcome[i].disposition # "none"})

\* The run goes on to another provider request only if no tool of the batch is
\* still running: none may change the workspace behind the model's back.
ContinuesOnlyWhenQuiet ==
  pc = "provider" => \A i \in Call : tool[i] # "running"

\* A late settlement is reported only of a call whose timeout or abort is in the
\* transcript, except while the failure path has not completed the transcript.
LateAuditsCommittedResult ==
  pc \notin {"failing", "closing", "rejected"} =>
    \A i \in late : \E k \in DOMAIN transcript :
      transcript[k].call = i /\ transcript[k].disposition \in {"timeout", "aborted"}

\* An abort that comes before the batch has told its results ends the run, without
\* another provider request, though the hooks of the tools, the tools and the timers
\* never return ("Terminal abort paths stop before hooks, queue polling, or another
\* provider request", packages/agent/README.md).  One that comes later does not: the
\* hooks of the turn's end are not raced with it, and a provider request may follow.
AbortEndsRun ==
  aborted /\ pc \notin {"turnEnd", "nextTurn", "provider"} ~> pc \in {"ended", "rejected"}

\* If hooks return and timers fire, the batch ends though tools never settle.
BatchEnds ==
  (/\ WF_vars(NextTurn)
   /\ \A i \in Call : WF_vars(HookReturns(i)) /\ WF_vars(AfterHookReturns(i))
                      /\ WF_vars(TimerFires(i))) => <>Over

===============================================================================
