---------------------------- MODULE ShardExecution ----------------------------
(***************************************************************************)
(* The executor of a plan of workload shards                               *)
(* (packages/coding-agent/src/core/workload-shard-executor, -runner, -plan *)
(* and -store): a journal on disk, the store that has it in memory, calls  *)
(* of executeWorkloadShardPlan that resume one another, and the tasks they *)
(* launch, each of which may outlive its call.                             *)
(*                                                                         *)
(* The journal is append-only; it is represented by what its records       *)
(* replay to.  Code between two awaits is one step, except the loop that   *)
(* re-arms shards: while it runs (pc = "rearm") only a crash intervenes.   *)
(***************************************************************************)
EXTENDS Integers, FiniteSets

CONSTANTS
  N,                 \* shards, in the order of the plan
  dependencyIds,     \* the dependencies of each shard
  Width,             \* effectiveConcurrency
  Permits,           \* capacity of the shared permit pool
  MaxCalls,          \* bound: calls of executeWorkloadShardPlan
  MaxFaults,         \* bound: appends that fail
  MaxCrashes         \* bound: crashes of the process

Shard == 1..N
Call  == 1..MaxCalls

ASSUME ShardAssumption ==
  /\ N \in Nat \ {0} /\ MaxCalls \in Nat \ {0}
  /\ Width \in Nat \ {0} /\ Permits \in Nat \ {0}
  /\ MaxFaults \in Nat /\ MaxCrashes \in Nat
  /\ dependencyIds \in [Shard -> SUBSET Shard]

VARIABLES
  journal,           \* the file, the store's memory of it, and the failed appends
  pc,                \* where the current call is
  call,              \* how many calls have been made
  rearm,             \* shards the current call has still to re-arm
  remaining,         \* shards the current call has not launched
  projections,       \* what each call knows of each shard
  task,              \* runOneShard of each call and shard
  aborted,           \* the signal of each call
  leaked,            \* permits that nobody will release
  verdict,           \* what the last call came to
  crashes,
  starter,           \* history: the call that started the latest attempt
  earned             \* history: shards whose command has exited with 0

vars == <<journal, pc, call, rearm, remaining, projections, task, aborted, leaked,
          verdict, crashes, starter, earned>>

State == {"pending", "running", "passed", "failed", "aborted", "interrupted"}

Entry == [state : State, attempt : Nat]

Live == {"acquire", "running"}

Untouched == [s \in Shard |-> [state |-> "pending", attempt |-> 0]]

NoPlan   == [kind |-> "absent", shards |-> Untouched]
Damaged  == [kind |-> "damaged", shards |-> Untouched]
Unloaded == [kind |-> "unloaded", shards |-> Untouched]

-------------------------------------------------------------------------------
(* The journal. *)

LEGAL_TRANSITIONS ==
  {<<"pending", "running">>} \cup ({"running"} \X {"passed", "failed", "aborted", "interrupted"})
    \cup ({"failed", "aborted", "interrupted"} \X {"pending"})

\* What a record says of a shard that was in state p.
Moved(p, state) ==
  [state |-> state, attempt |-> p.attempt + (IF state = "running" THEN 1 ELSE 0)]

\* Seeded fault: the attempt of a record is not compared.
ReplaysAnyAttempt(p, e) == <<p.state, e.state>> \in LEGAL_TRANSITIONS

\* reduceShardRecords accepts the record e of a shard that was in state p.
Replays(p, e) == <<p.state, e.state>> \in LEGAL_TRANSITIONS /\ e = Moved(p, e.state)

\* A line is numbered and chained by what the store remembers: if the file holds
\* something else, it no longer loads.
FileWith(j, content) == IF j.file = j.memory THEN content ELSE Damaged

\* appendLine: the line is written and remembered; or the write fails, having
\* written nothing, the line, or a part of it, and is not remembered.
appendLine(j, content) ==
  {[ok |-> TRUE, journal |-> [j EXCEPT !.file = FileWith(j, content), !.memory = content]]}
    \cup {[ok |-> FALSE, journal |-> [j EXCEPT !.file = f, !.faults = j.faults + 1]] :
            f \in IF j.faults < MaxFaults THEN {j.file, FileWith(j, content), Damaged} ELSE {}}

\* The results of applyTransition for a shard that its call knows as p: the
\* projection of the call follows only a record that was appended.
applyTransition(j, p, s, state) ==
  {[ok |-> o.ok, journal |-> o.journal, entry |-> IF o.ok THEN Moved(p, state) ELSE p] :
     o \in IF Replays(j.memory.shards[s], Moved(p, state))
           THEN appendLine(j, [kind |-> "sound", shards |-> [j.memory.shards EXCEPT ![s] = Moved(p, state)]])
           ELSE {[ok |-> FALSE, journal |-> j]}}

-------------------------------------------------------------------------------
(* The executor. *)

\* The call returns or rejects.
Return(v) ==
  /\ pc' = "idle" /\ verdict' = v

\* What a call re-arms: planShardResume under the policies of the caller.
Resumed(shards, retryFailed, resumeAborted) ==
  {s \in Shard : shards[s].state \in {"running", "interrupted"}
                    \cup (IF retryFailed THEN {"failed"} ELSE {})
                    \cup (IF resumeAborted THEN {"aborted"} ELSE {})}

\* A store that has not loaded the journal yet does so.
Loaded(j) == IF j.memory.kind = "unloaded" THEN [j EXCEPT !.memory = j.file] ELSE j

\* The call starts: an absent journal gets the plan, a damaged one is moved aside.
executeWorkloadShardPlan(retryFailed, resumeAborted) ==
  /\ pc = "idle" /\ call < MaxCalls
  /\ call' = call + 1
  /\ LET j == Loaded(journal) IN
     IF j.memory.kind = "damaged"
     THEN /\ journal' = [journal EXCEPT !.file = NoPlan]
          /\ earned' = {}
          /\ Return("blocked")
          /\ UNCHANGED <<rearm, remaining, projections>>
     ELSE \E o \in IF j.memory.kind = "sound" THEN {[ok |-> TRUE, journal |-> j]}
                    ELSE appendLine(j, [kind |-> "sound", shards |-> Untouched]) :
          /\ journal' = o.journal
          /\ projections' = [projections EXCEPT ![call + 1] = j.memory.shards]
          /\ rearm' = Resumed(j.memory.shards, retryFailed, resumeAborted)
          /\ remaining' = {}
          /\ IF o.ok THEN pc' = "rearm" /\ verdict' = "none" ELSE Return("rejected")
          /\ UNCHANGED earned
  /\ UNCHANGED <<task, aborted, leaked, crashes, starter>>

\* Seeded fault: a shard left running is armed again without the interruption.
RearmShardAtOnce(s) ==
  /\ pc = "rearm" /\ s \in rearm
  /\ \E o \in applyTransition(journal, projections[call][s], s, "pending") :
       /\ journal' = o.journal
       /\ projections' = [projections EXCEPT ![call][s] = o.entry]
       /\ rearm' = rearm \ {s}
       /\ IF o.ok THEN UNCHANGED <<pc, verdict>> ELSE Return("rejected")
  /\ UNCHANGED <<call, remaining, task, aborted, leaked, crashes, starter, earned>>

\* One record of the loop that re-arms: a shard that a crash left running is first
\* interrupted.
RearmShard(s) ==
  /\ pc = "rearm" /\ s \in rearm
  /\ LET p == projections[call][s]
         state == IF p.state = "running" THEN "interrupted" ELSE "pending"
     IN \E o \in applyTransition(journal, p, s, state) :
          /\ journal' = o.journal
          /\ projections' = [projections EXCEPT ![call][s] = o.entry]
          /\ rearm' = IF state = "pending" THEN rearm \ {s} ELSE rearm
          /\ IF o.ok THEN UNCHANGED <<pc, verdict>> ELSE Return("rejected")
  /\ UNCHANGED <<call, remaining, task, aborted, leaked, crashes, starter, earned>>

Rearmed ==
  /\ pc = "rearm" /\ rearm = {}
  /\ remaining' = {s \in Shard : projections[call][s].state # "passed"}
  /\ pc' = "loop"
  /\ UNCHANGED <<journal, call, rearm, projections, task, aborted, leaked, verdict, crashes,
                 starter, earned>>

Running == {s \in Shard : task[call][s] \in Live}

\* Seeded fault: dependencies that have not failed yet are good enough.
readyEarly ==
  {s \in remaining : /\ projections[call][s].state = "pending"
                     /\ \A d \in dependencyIds[s] : projections[call][d].state \in {"running", "passed"}}

ready ==
  {s \in remaining : /\ projections[call][s].state = "pending"
                     /\ \A d \in dependencyIds[s] : projections[call][d].state = "passed"}

\* The first of the ready shards, as many as the width leaves room for.
launchable ==
  {s \in ready : Cardinality({t \in ready : t < s}) + Cardinality(Running) < Width}

Launch ==
  /\ remaining # {} /\ ~ aborted[call] /\ launchable # {}
  /\ remaining' = remaining \ launchable
  /\ task' = [task EXCEPT ![call] = [s \in Shard |-> IF s \in launchable THEN "acquire" ELSE @[s]]]
  /\ UNCHANGED pc

\* Nothing can be launched: wait for a task to wake the loop.
WaitTurn ==
  /\ remaining # {} /\ ~ aborted[call] /\ launchable = {} /\ Running # {}
  /\ pc' = "wait"
  /\ UNCHANGED <<remaining, task>>

LeaveLoop ==
  /\ remaining = {} \/ aborted[call] \/ (launchable = {} /\ Running = {})
  /\ pc' = "join"
  /\ UNCHANGED <<remaining, task>>

Loop ==
  /\ pc = "loop"
  /\ Launch \/ WaitTurn \/ LeaveLoop
  /\ UNCHANGED <<journal, call, rearm, projections, aborted, leaked, verdict, crashes, starter, earned>>

\* Seeded fault: passed unless something failed or was aborted.
aggregateOptimistically ==
  LET state == {projections[call][s].state : s \in Shard} IN
  IF "aborted" \in state \/ aborted[call] THEN "aborted"
  ELSE IF "failed" \in state THEN "failed" ELSE "passed"

aggregateVerdict ==
  LET state == {projections[call][s].state : s \in Shard} IN
  IF state = {"passed"} THEN "passed"
  ELSE IF "aborted" \in state \/ aborted[call] THEN "aborted" ELSE "failed"

\* Promise.all is done.
Join ==
  /\ pc = "join" /\ Running = {}
  /\ Return(aggregateVerdict)
  /\ UNCHANGED <<journal, call, rearm, remaining, projections, task, aborted, leaked, crashes,
                 starter, earned>>

-------------------------------------------------------------------------------
(* The tasks. *)

\* Seeded fault: a task that rejects does not wake the loop.
EndQuietly(c, s, ok) ==
  /\ task' = [task EXCEPT ![c][s] = "ended"]
  /\ IF c # call THEN UNCHANGED <<pc, verdict>>
     ELSE CASE pc = "wait" /\ ok -> pc' = "loop" /\ UNCHANGED verdict
            [] pc = "join" /\ ~ ok -> Return("rejected")
            [] OTHER -> UNCHANGED <<pc, verdict>>

\* The task of a shard ends, with a rejection if ok is false.  It wakes the loop of
\* its call before it rejects, so a rejection is noticed by Promise.all only.
End(c, s, ok) ==
  /\ task' = [task EXCEPT ![c][s] = "ended"]
  /\ IF c # call THEN UNCHANGED <<pc, verdict>>
     ELSE CASE pc = "wait" -> pc' = "loop" /\ UNCHANGED verdict
            [] pc = "join" /\ ~ ok -> Return("rejected")
            [] OTHER -> UNCHANGED <<pc, verdict>>

TaskFrame == UNCHANGED <<call, rearm, remaining, aborted, crashes>>

Free == Permits - leaked - Cardinality({x \in Call \X Shard : task[x[1]][x[2]] = "running"})

\* The permit is granted and the record of the attempt appended, outside the try
\* whose finally releases the permit.
PermitGranted(c, s) ==
  /\ pc # "rearm" /\ task[c][s] = "acquire" /\ Free > 0
  /\ \E o \in applyTransition(journal, projections[c][s], s, "running") :
       /\ journal' = o.journal
       /\ projections' = [projections EXCEPT ![c][s] = o.entry]
       /\ IF o.ok THEN /\ task' = [task EXCEPT ![c][s] = "running"]
                       /\ starter' = [starter EXCEPT ![s] = c]
                       /\ UNCHANGED <<pc, verdict, leaked>>
                  ELSE /\ leaked' = leaked + 1
                       /\ End(c, s, FALSE)
                       /\ UNCHANGED starter
  /\ TaskFrame /\ UNCHANGED earned

\* No permit, for a timeout or a full queue: the shard is recorded failed.
PermitUnavailable(c, s) ==
  /\ pc # "rearm" /\ task[c][s] = "acquire"
  /\ \E r \in applyTransition(journal, projections[c][s], s, "running") :
     \E o \in IF r.ok THEN applyTransition(r.journal, r.entry, s, "failed") ELSE {r} :
       /\ journal' = o.journal
       /\ projections' = [projections EXCEPT ![c][s] = o.entry]
       /\ starter' = IF r.ok THEN [starter EXCEPT ![s] = c] ELSE starter
       /\ End(c, s, o.ok)
  /\ TaskFrame /\ UNCHANGED <<leaked, earned>>

\* The wait for a permit is aborted: the shard stays pending.
PermitAborted(c, s) ==
  /\ pc # "rearm" /\ task[c][s] = "acquire" /\ aborted[c]
  /\ End(c, s, TRUE)
  /\ TaskFrame /\ UNCHANGED <<journal, projections, starter, leaked, earned>>

terminalStateFor(c, exit) ==
  IF aborted[c] THEN "aborted" ELSE IF exit = 0 THEN "passed" ELSE "failed"

\* The runner returns an exit code.  If the record cannot be appended, the catch
\* tries to append a failure.
RunnerReturns(c, s, exit) ==
  /\ pc # "rearm" /\ task[c][s] = "running"
  /\ \E r \in applyTransition(journal, projections[c][s], s, terminalStateFor(c, exit)) :
     \E o \in IF r.ok THEN {r} ELSE applyTransition(r.journal, r.entry, s, terminalStateFor(c, 1)) :
       /\ journal' = o.journal
       /\ projections' = [projections EXCEPT ![c][s] = o.entry]
       /\ End(c, s, o.ok)
  /\ earned' = IF exit = 0 THEN earned \cup {s} ELSE earned
  /\ TaskFrame /\ UNCHANGED <<leaked, starter>>

\* The runner throws.
RunnerThrows(c, s) ==
  /\ pc # "rearm" /\ task[c][s] = "running"
  /\ \E o \in applyTransition(journal, projections[c][s], s, terminalStateFor(c, 1)) :
       /\ journal' = o.journal
       /\ projections' = [projections EXCEPT ![c][s] = o.entry]
       /\ End(c, s, o.ok)
  /\ TaskFrame /\ UNCHANGED <<leaked, starter, earned>>

-------------------------------------------------------------------------------

\* The caller aborts the signal of its call.
Abort ==
  /\ pc \in {"loop", "wait", "join"} /\ ~ aborted[call]
  /\ aborted' = [aborted EXCEPT ![call] = TRUE]
  /\ UNCHANGED <<journal, pc, call, rearm, remaining, projections, task, leaked, verdict, crashes,
                 starter, earned>>

AnyLive == \E c \in Call, s \in Shard : task[c][s] \in Live

\* The process dies, perhaps while it writes a line.
Crash ==
  /\ call > 0 /\ crashes < MaxCrashes
  /\ crashes' = crashes + 1
  /\ \E torn \in IF journal.faults < MaxFaults /\ (pc # "idle" \/ AnyLive) THEN BOOLEAN ELSE {FALSE} :
       journal' = [file   |-> IF torn THEN Damaged ELSE journal.file,
                   memory |-> Unloaded,
                   faults |-> journal.faults + (IF torn THEN 1 ELSE 0)]
  /\ pc' = "idle" /\ verdict' = "none"
  /\ task' = [c \in Call |-> [s \in Shard |-> "none"]]
  /\ projections' = [c \in Call |-> Untouched]
  /\ aborted' = [c \in Call |-> FALSE]
  /\ starter' = [s \in Shard |-> 0]
  /\ leaked' = 0 /\ rearm' = {} /\ remaining' = {}
  /\ UNCHANGED <<call, earned>>

Init ==
  /\ journal = [file |-> NoPlan, memory |-> Unloaded, faults |-> 0]
  /\ pc = "idle" /\ call = 0 /\ verdict = "none"
  /\ rearm = {} /\ remaining = {}
  /\ projections = [c \in Call |-> Untouched]
  /\ task = [c \in Call |-> [s \in Shard |-> "none"]]
  /\ aborted = [c \in Call |-> FALSE]
  /\ leaked = 0 /\ crashes = 0
  /\ starter = [s \in Shard |-> 0]
  /\ earned = {}

Executor == Rearmed \/ Loop \/ Join \/ \E s \in Shard : RearmShard(s)

Task(c, s) ==
  \/ PermitGranted(c, s) \/ PermitUnavailable(c, s) \/ PermitAborted(c, s)
  \/ RunnerThrows(c, s) \/ \E exit \in {0, 1} : RunnerReturns(c, s, exit)

Next ==
  \/ \E retryFailed, resumeAborted \in BOOLEAN : executeWorkloadShardPlan(retryFailed, resumeAborted)
  \/ Executor \/ Abort \/ Crash
  \/ \E c \in Call, s \in Shard : Task(c, s)

Spec == Init /\ [][Next]_vars

\* A ready loop goes on.  Waits for a permit time out; that the runner returns is what
\* whoever supplies it sees to.  It is enough that, while tasks are left, one of them
\* goes on.
Fairness == WF_vars(Executor) /\ WF_vars(\E c \in Call, s \in Shard : Task(c, s))

FairSpec == Spec /\ Fairness

-------------------------------------------------------------------------------

Content == [kind : {"absent", "sound", "damaged", "unloaded"}, shards : [Shard -> Entry]]

TypeOK ==
  /\ journal \in [file : Content, memory : Content, faults : 0..MaxFaults]
  /\ journal.file.kind # "unloaded" /\ journal.memory.kind # "damaged"
  /\ pc \in {"idle", "rearm", "loop", "wait", "join"}
  /\ call \in 0..MaxCalls /\ crashes \in 0..MaxCrashes
  /\ rearm \in SUBSET Shard /\ remaining \in SUBSET Shard /\ earned \in SUBSET Shard
  /\ projections \in [Call -> [Shard -> Entry]]
  /\ task \in [Call -> [Shard -> Live \cup {"none", "ended"}]]
  /\ aborted \in [Call -> BOOLEAN]
  /\ leaked \in 0..Permits
  /\ verdict \in {"none", "passed", "failed", "aborted", "blocked", "rejected"}
  /\ starter \in [Shard -> 0..MaxCalls]

\* The journal takes the outcome of an attempt from the task that started it and in
\* the step in which that task ends: a task that outlived its call never records
\* over a newer attempt of its shard.
OutcomeOfItsRun ==
  [][\A s \in Shard :
       /\ journal.memory.shards[s].state = "running"
       /\ journal'.memory.shards[s].state \in {"passed", "failed", "aborted"}
       => task[starter[s]][s] = "running" /\ task'[starter[s]][s] = "ended"]_vars

\* A command starts only when the journal has it running, after its dependencies
\* passed and without having passed itself, also in calls that resume and in tasks
\* of calls that are over.
RunsOnlyDue ==
  [][\A c \in Call, s \in Shard :
       task[c][s] # "running" /\ task'[c][s] = "running" =>
         /\ journal.memory.shards[s].state # "passed"
         /\ journal'.memory.shards[s].state = "running"
         /\ \A d \in dependencyIds[s] : journal'.memory.shards[d].state = "passed"]_vars

\* "passed" requires that the command of every shard has exited with 0 since the
\* journal was begun, over all calls, crashes and failing appends.
PassedIsEarned == verdict = "passed" => earned = Shard

\* Without a failing append no sequence of crashes, aborts and resumptions leads
\* into a journal that does not load, a transition that is refused, or a permit that
\* is never released.
FaultlessIsClean ==
  journal.faults = 0 =>
    journal.file.kind # "damaged" /\ verdict \notin {"blocked", "rejected"} /\ leaked = 0

\* A call ends, whatever its tasks come to, also when they cannot record it.
CallEnds == pc # "idle" ~> pc = "idle"

===============================================================================
