------------------------- MODULE AgentHarnessProofs -------------------------
(***************************************************************************)
(* The lifecycle keeps its accounts under every sequence of commands; the  *)
(* harness only ever gives it commands it accepts, and so reports, for any *)
(* operations, deferred commands, faults and turns, what it has earned.    *)
(***************************************************************************)
EXTENDS AgentHarness, TLAPS

-------------------------------------------------------------------------------
(* The lifecycle by itself. *)

\* The reducer keeps the type of its state.
LEMMA LifecycleNextType == LifecycleTypeOK /\ [LifecycleNext]_state => LifecycleTypeOK'
<1> SUFFICES ASSUME LifecycleTypeOK, LifecycleNext PROVE LifecycleTypeOK'
  BY DEF LifecycleTypeOK
<1> USE DEF LifecycleTypeOK
<1>1. ASSUME NEW o \in Operation, reduceBegin(o) PROVE LifecycleTypeOK'
  <2>1. state' = [tag |-> "active", operation |-> o, stage |-> "preparing", attempt |-> FALSE,
                  attempts |-> <<>>, abortRequested |-> FALSE]
    BY <1>1 DEF reduceBegin, Idle
  <2>2. <<>> \in Seq(AttemptOutcomes) /\ "preparing" \in Stages
    BY DEF Stages
  <2>3. QED
    BY <2>1, <2>2
<1>2. ASSUME NEW o \in Operation, NEW to \in Stages, reduceStage(o, to) PROVE LifecycleTypeOK'
  BY <1>2 DEF reduceStage
<1>3. ASSUME NEW o \in Operation, NEW reason, reduceAttemptBegin(o, reason) PROVE LifecycleTypeOK'
  BY <1>3 DEF reduceAttemptBegin, Stages
<1>4. ASSUME NEW o \in Operation, NEW outcome \in AttemptOutcomes, reduceAttemptEnd(o, outcome)
      PROVE  LifecycleTypeOK'
  <2>1. Append(state.attempts, outcome) \in Seq(AttemptOutcomes)
    OBVIOUS
  <2>2. QED
    BY <1>4, <2>1 DEF reduceAttemptEnd, Stages
<1>5. ASSUME NEW o \in Operation, reduceAbortRequest(o) PROVE LifecycleTypeOK'
  BY <1>5 DEF reduceAbortRequest
<1>6. ASSUME NEW o \in Operation, reduceSettleBegin(o) PROVE LifecycleTypeOK'
  BY <1>6 DEF reduceSettleBegin
<1>7. ASSUME NEW o \in Operation, reduceSettleFinish(o) PROVE LifecycleTypeOK'
  BY <1>7 DEF reduceSettleFinish, Idle, Stages
<1>8. QED
  BY <1>1, <1>2, <1>3, <1>4, <1>5, <1>6, <1>7 DEF LifecycleNext

\* The state before anything begins, field by field.
LEMMA IdleFields ==
  /\ Idle.tag = "idle" /\ Idle.operation = NoOperation /\ Idle.stage = "preparing"
  /\ Idle.attempt = FALSE /\ Idle.attempts = <<>> /\ Idle.abortRequested = FALSE
  BY DEF Idle

\* The reducer keeps the accounts.
LEMMA LifecycleNextAccounts ==
  LifecycleTypeOK /\ AttemptsAreAccounted /\ [LifecycleNext]_state => AttemptsAreAccounted'
<1> SUFFICES ASSUME LifecycleTypeOK, AttemptsAreAccounted, LifecycleNext PROVE AttemptsAreAccounted'
  BY DEF AttemptsAreAccounted, lastAttemptOverflowed
<1> USE DEF AttemptsAreAccounted, lastAttemptOverflowed, LifecycleTypeOK
<1>1. ASSUME NEW o \in Operation, reduceBegin(o) PROVE AttemptsAreAccounted'
  BY <1>1, LifecycleAssumption DEF reduceBegin, Idle
<1>2. ASSUME NEW o \in Operation, NEW to \in Stages, reduceStage(o, to) PROVE AttemptsAreAccounted'
  BY <1>2 DEF reduceStage, StageLegal, isLegalStageMove, Active
<1>3. ASSUME NEW o \in Operation, NEW reason, reduceAttemptBegin(o, reason) PROVE AttemptsAreAccounted'
  BY <1>3 DEF reduceAttemptBegin, AttemptBeginLegal, Active
<1>4. ASSUME NEW o \in Operation, NEW outcome \in AttemptOutcomes, reduceAttemptEnd(o, outcome)
      PROVE  AttemptsAreAccounted'
  <2> DEFINE s == state.attempts
  <2>1. /\ s \in Seq(AttemptOutcomes) /\ Len(s) \in Nat /\ DOMAIN s = 1..Len(s)
        /\ Len(Append(s, outcome)) = Len(s) + 1 /\ DOMAIN Append(s, outcome) = 1..(Len(s) + 1)
        /\ \A i \in 1..Len(s) : Append(s, outcome)[i] = s[i]
    OBVIOUS
  <2>2. s = <<>> => Len(s) = 0
    OBVIOUS
  <2>3. \A i \in 1..Len(s) : s[i] = "overflow"
    <3>1. s # <<>> => s[Len(s)] = "overflow"
      BY <1>4 DEF reduceAttemptEnd, AttemptEndLegal
    <3>2. QED
      BY <2>1, <2>2, <3>1
  <2>4. /\ state'.attempts = Append(s, outcome) /\ state'.stage = "preparing" /\ state'.attempt = FALSE
        /\ state'.tag = state.tag /\ state'.operation = state.operation
    BY <1>4 DEF reduceAttemptEnd
  <2>5. \A i \in DOMAIN state'.attempts : i < Len(state'.attempts) => state'.attempts[i] = "overflow"
    BY <2>1, <2>3, <2>4
  <2>6. state.attempt /\ state.tag = "active" /\ state.operation = o
    BY <1>4 DEF reduceAttemptEnd, AttemptEndLegal, Active
  <2>7. QED
    BY <2>4, <2>5, <2>6
<1>5. ASSUME NEW o \in Operation, reduceAbortRequest(o) PROVE AttemptsAreAccounted'
  BY <1>5 DEF reduceAbortRequest
<1>6. ASSUME NEW o \in Operation, reduceSettleBegin(o) PROVE AttemptsAreAccounted'
  BY <1>6 DEF reduceSettleBegin, SettleBeginLegal, Active
<1>7. ASSUME NEW o \in Operation, reduceSettleFinish(o) PROVE AttemptsAreAccounted'
  BY <1>7 DEF reduceSettleFinish, Idle
<1>8. QED
  BY <1>1, <1>2, <1>3, <1>4, <1>5, <1>6, <1>7 DEF LifecycleNext

\* The first state of the lifecycle.
LEMMA LifecycleFirst == LifecycleInit => LifecycleTypeOK /\ AttemptsAreAccounted
  BY DEF LifecycleInit, LifecycleTypeOK, AttemptsAreAccounted, lastAttemptOverflowed, Idle, Stages

\* The lifecycle state has its type, whatever commands come in whatever order.
THEOREM LifecycleTypeCorrect == Lifecycle => []LifecycleTypeOK
  BY LifecycleFirst, LifecycleNextType, PTL DEF Lifecycle

\* The reducer never loses count of the attempts of an operation: every attempt
\* but the last overflowed, and none is open outside of the stages that run one.
THEOREM LifecycleAccounts == Lifecycle => []AttemptsAreAccounted
  BY LifecycleFirst, LifecycleNextType, LifecycleNextAccounts, PTL DEF Lifecycle

-------------------------------------------------------------------------------
(* The parts of the invariant. *)

AttemptPlaces == {"turn", "report", "turnEnd", "turnFlush", "savePoint", "nextFlush", "prepare",
                  "endFlush", "endAttempt"}

AfterAttempt == {"attemptFlush", "recover", "moveBack"}

Recovering == {"compact", "unrecovered", "retry"}

Ending == {"finish", "finalFlush"}

ActivePlaces == {"started", "attempt", "structural", "commit", "restore"}
  \cup AttemptPlaces \cup AfterAttempt \cup Recovering \cup Ending

\* The operation that has a place in its body is the one the lifecycle knows.
PlacesOK ==
  \A o \in Operation :
    /\ pc[o] \in ActivePlaces <=> Active(o)
    /\ pc[o] = "settling" <=> SettleFinishLegal(o)

\* What the lifecycle knows at each place.
StageAt(o) ==
  /\ pc[o] \in {"started", "attempt"} => state.stage = "preparing" /\ state.attempts = <<>>
  /\ pc[o] \in {"attempt", "restore"} \cup AttemptPlaces \cup AfterAttempt \cup Recovering
       => isPromptFamily(o)
  /\ pc[o] \in {"structural", "commit"} => ~ isPromptFamily(o)
  /\ pc[o] \in ActivePlaces => (state.attempt <=> pc[o] \in AttemptPlaces)
  /\ pc[o] \in AfterAttempt => state.stage = "preparing" /\ state.attempts # <<>>
  /\ pc[o] \in Recovering => state.stage = "recovering_overflow"
  /\ pc[o] = "structural" => state.stage = "structural_running"

\* What the operation knows of its last attempt at each place.
VerdictAt(o) ==
  /\ pc[o] \in {"attempt"} \cup AttemptPlaces \cup AfterAttempt \cup Recovering => run.turnModel # "none"
  /\ pc[o] \in {"recover", "moveBack"} => run.bodyError = "none"
  /\ pc[o] = "moveBack" => run.answer \in {"overflow", "long"}
  /\ pc[o] = "restore" => run.bodyError # "none"
  /\ pc[o] \in AfterAttempt \cup Ending \cup {"compact", "unrecovered"} /\ run.bodyError = "none" /\ state.attempts # <<>>
       => state.attempts[Len(state.attempts)] = Classified

\* Where the session's leaf may be before the answer.
LeafAt(o) ==
  leaf = "parent" /\ pc[o] \in ActivePlaces \cup {"settling"} =>
    \/ pc[o] \in {"compact", "unrecovered", "restore"}
    \/ pc[o] \in Ending \cup {"settling"} /\ (run.unrestored \/ ModelChangedUnderAnswer)

OperationsOK == \A o \in Operation : StageAt(o) /\ VerdictAt(o) /\ LeafAt(o)

\* Between operations everything is as it was, but for the session.
IdleOK == state.tag = "idle" => state = Idle /\ run = NewRun /\ leaf # "parent"

\* An outcome is fixed exactly while the operation settles.
OutcomeOK == run.outcome # "none" <=> state.tag = "settling"

\* The queue holds each waiting command once; the drain runs one at a time.
QueueOK ==
  /\ \A i \in 1..Len(commands) : status[commands[i]] = "queued"
  /\ \A i, j \in 1..Len(commands) : i # j => commands[i] # commands[j]
  /\ \A c \in Command : status[c] = "running" => draining
  /\ draining => \E c \in Command : status[c] = "running"
  /\ \A c, d \in Command : status[c] = "running" /\ status[d] = "running" => c = d

-------------------------------------------------------------------------------
(* The harness gives the reducer its commands. *)

\* What an attempt comes to is an outcome of an attempt.
LEMMA ClassifiedType ==
  ASSUME TypeOK
  PROVE  Classified \in AttemptOutcomes
  BY DEF TypeOK, Classified, AttemptOutcomes

\* A drain changes the lifecycle by beginning an operation only.
LEMMA DrainLoopBegins ==
  ASSUME NEW places, NEW queue \in Seq(Command), NEW statuses, drainLoop(places, queue, statuses)
  PROVE  (\E o \in Operation : reduceBegin(o)) \/ UNCHANGED state
<1>1. CASE MayStart(queue)
  <2>1. Head(queue) \in Command
    BY <1>1 DEF MayStart
  <2>2. Starts[Head(queue)] \in Operation \cup {NoOperation}
    BY <2>1, HarnessAssumption
  <2>3. QED
    BY <1>1, <2>2 DEF drainLoop, BeginOperation
<1>2. QED
  BY <1>1 DEF drainLoop

\* Every step of an operation's body gives the reducer one command, or none.
LEMMA BodyCommands ==
  ASSUME TypeOK, NEW o \in Operation, Body(o)
  PROVE  LifecycleNext \/ UNCHANGED state
<1>1. ASSUME NEW to \in Stages, reduceStage(o, to) PROVE LifecycleNext
  BY <1>1 DEF LifecycleNext
<1>2. {"structural_running", "save_point", "attempt_running", "recovering_overflow", "committing"}
        \subseteq Stages
  BY DEF Stages
<1>3. ASSUME NEW from, NEW reason \in {"initial", "context_overflow_recovery"}, BeginAttempt(o, from, reason)
      PROVE  LifecycleNext
  BY <1>3 DEF BeginAttempt, LifecycleNext
<1>4. ASSUME EndAttempt(o) PROVE LifecycleNext
  BY <1>4, ClassifiedType DEF EndAttempt, LifecycleNext
<1>5. ASSUME FinalFlushed(o) \/ SettleFinish(o) PROVE LifecycleNext
  BY <1>5 DEF FinalFlushed, SettleFinish, LifecycleNext
<1>6. ASSUME Started(o) \/ TurnFlushed(o) \/ NextFlushed(o) \/ MoveBack(o) \/ CommitBegins(o)
      PROVE  LifecycleNext \/ UNCHANGED state
  BY <1>1, <1>2, <1>6 DEF Started, TurnFlushed, SavePoint, NextFlushed, MoveBack, CommitBegins
<1>7. ASSUME \/ Answered(o) \/ LoopThrows(o) \/ ReportFailure(o) \/ ReportFails(o)
             \/ TurnEnd(o) \/ TurnOver(o) \/ Prepare(o) \/ EndFlushed(o) \/ AgentEndFails(o)
             \/ AttemptFlushed(o) \/ Recover(o) \/ Compact(o) \/ Unrecovered(o) \/ Restore(o)
             \/ StructureEnds(o) \/ Commit(o) \/ Finish(o)
      PROVE  UNCHANGED state
  BY <1>7 DEF Answered, LoopThrows, ReportFailure, ReportFails, TurnEnd, TurnOver, Prepare, EndFlushed,
              AgentEndFails, AttemptFlushed, Recover, Compact, Unrecovered, Restore, StructureEnds,
              Commit, Finish
<1>8. ASSUME Drain(o) PROVE LifecycleNext \/ UNCHANGED state
  <2>1. CASE draining
    BY <1>8, <2>1 DEF Drain, drain
  <2>2. CASE ~ draining
    <3>1. drainLoop([pc EXCEPT ![o] = "done"], commands, status) /\ commands \in Seq(Command)
      BY <1>8, <2>2 DEF Drain, drain, TypeOK
    <3>2. QED
      BY <3>1, DrainLoopBegins DEF LifecycleNext
  <2>3. QED
    BY <2>1, <2>2
<1>9. QED
  BY <1>3, <1>4, <1>5, <1>6, <1>7, <1>8 DEF Body

\* Every step of the harness gives the reducer one command, or none.
LEMMA StepCommands ==
  ASSUME TypeOK, [Next]_vars
  PROVE  [LifecycleNext]_state
<1>1. ASSUME NEW o \in Operation, runOperation(o) PROVE LifecycleNext \/ UNCHANGED state
  BY <1>1 DEF runOperation, BeginOperation, LifecycleNext
<1>2. ASSUME NEW c \in Command, runWhenIdle(c) PROVE LifecycleNext \/ UNCHANGED state
  <2>1. Append(commands, c) \in Seq(Command)
    BY DEF TypeOK
  <2>2. CASE draining
    BY <1>2, <2>2 DEF runWhenIdle, drain
  <2>3. CASE ~ draining
    <3>1. drainLoop(pc, Append(commands, c), [status EXCEPT ![c] = "queued"])
      BY <1>2, <2>3 DEF runWhenIdle, drain
    <3>2. QED
      BY <2>1, <3>1, DrainLoopBegins DEF LifecycleNext
  <2>4. QED
    BY <2>2, <2>3
<1>3. ASSUME NEW c \in Command, CommandEnds(c) PROVE LifecycleNext \/ UNCHANGED state
  <2>1. drainLoop(pc, commands, [status EXCEPT ![c] = "done"]) /\ commands \in Seq(Command)
    BY <1>3 DEF CommandEnds, TypeOK
  <2>2. QED
    BY <2>1, DrainLoopBegins DEF LifecycleNext
<1>4. CASE requestAbort
  BY <1>4 DEF requestAbort, LifecycleNext
<1>5. CASE Write \/ setModel \/ (\E c \in Command : cancel(c)) \/ UNCHANGED vars
  BY <1>5 DEF Write, setModel, cancel, vars
<1>6. QED
  BY <1>1, <1>2, <1>3, <1>4, <1>5, BodyCommands DEF Next

-------------------------------------------------------------------------------
(* Type correctness. *)

Places == {"new", "settling", "drain", "done"} \cup ActivePlaces

RunType == [answer : {"none", "more", "stop", "long", "cancelled"} \cup Terminal,
            turnModel : {"none", "small", "large"}, turns : Nat,
            bodyError : {"none", "failed", "aborted"},
            failing : BOOLEAN, noted : BOOLEAN, unrestored : BOOLEAN,
            outcome : {"none", "completed", "aborted", "cancelled", "failed"}]

\* The parts of the type invariant.
LEMMA TypeParts ==
  TypeOK <=>
    /\ LifecycleTypeOK /\ pc \in [Operation -> Places] /\ run \in RunType
    /\ writes \in [pending : Nat, due : Nat] /\ writes.due <= writes.pending
    /\ leaf \in {"other", "answer", "parent"} /\ model \in {"small", "large"}
    /\ commands \in Seq(Command) /\ draining \in BOOLEAN
    /\ status \in [Command -> {"new", "queued", "running", "done"}]
<1>1. Places = {"new", "started", "attempt", "turn", "report", "turnEnd",
       "turnFlush", "savePoint", "nextFlush", "prepare", "endFlush", "endAttempt",
       "attemptFlush", "recover", "moveBack", "compact", "unrecovered", "retry", "restore",
       "structural", "commit", "finish", "finalFlush", "settling", "drain", "done"}
  BY DEF Places, ActivePlaces, AttemptPlaces, AfterAttempt, Recovering, Ending
<1>2. QED
  BY <1>1 DEF TypeOK, RunType

\* An operation starts with a run of the type.
LEMMA NewRunType == NewRun \in RunType
  BY DEF NewRun, RunType

\* A run whose attempt is over.
LEMMA TurnsCleared ==
  ASSUME NEW r \in RunType, NEW b \in BOOLEAN
  PROVE  [r EXCEPT !.noted = b, !.turns = 0] \in RunType
<1>1. [r EXCEPT !.noted = b] \in RunType
  BY DEF RunType
<1>2. \A q \in RunType : [q EXCEPT !.turns = 0] \in RunType
  BY DEF RunType
<1>3. [r EXCEPT !.noted = b, !.turns = 0] = [[r EXCEPT !.noted = b] EXCEPT !.turns = 0]
  OBVIOUS
<1>4. QED
  BY <1>1, <1>2, <1>3

\* What a flush does to the writes and to the leaf.
LEMMA PersistTypes ==
  ASSUME writes \in [pending : Nat, due : Nat], writes.due <= writes.pending,
         leaf \in {"other", "answer", "parent"}, NEW n \in 0..writes.due, Persist(n)
  PROVE  /\ writes' \in [pending : Nat, due : Nat] /\ writes'.due <= writes'.pending
         /\ writes'.due = writes.due - n
         /\ leaf' \in {"other", leaf} /\ leaf' \in {"other", "answer", "parent"}
  BY DEF Persist

\* A flush that is under way, whether it fails or not.
LEMMA FlushTypes ==
  ASSUME writes \in [pending : Nat, due : Nat], writes.due <= writes.pending,
         leaf \in {"other", "answer", "parent"}, Flushed \/ FlushFails \/ Persist(writes.due)
  PROVE  /\ writes' \in [pending : Nat, due : Nat] /\ writes'.due <= writes'.pending
         /\ leaf' \in {"other", leaf} /\ leaf' \in {"other", "answer", "parent"}
<1>1. writes.due \in 0..writes.due /\ 0..(writes.due - 1) \subseteq 0..writes.due
  OBVIOUS
<1>2. \E n \in 0..writes.due : Persist(n)
  BY <1>1 DEF Flushed, FlushFails
<1>3. QED
  BY <1>2, PersistTypes

\* A flush begins.
LEMMA FlushingTypes ==
  ASSUME writes \in [pending : Nat, due : Nat], NEW o, NEW label, Flushing(o, label)
  PROVE  writes' \in [pending : Nat, due : Nat] /\ writes'.due <= writes'.pending
  BY DEF Flushing

\* A drain keeps the types of the commands.
LEMMA DrainLoopTypes ==
  ASSUME NEW places \in [Operation -> Places], NEW queue \in Seq(Command),
         NEW statuses \in [Command -> {"new", "queued", "running", "done"}],
         drainLoop(places, queue, statuses)
  PROVE  /\ pc' \in [Operation -> Places] /\ commands' \in Seq(Command) /\ draining' \in BOOLEAN
         /\ status' \in [Command -> {"new", "queued", "running", "done"}]
<1>1. CASE MayStart(queue)
  <2>1. Head(queue) \in Command /\ Tail(queue) \in Seq(Command)
    BY <1>1 DEF MayStart
  <2>2. "started" \in Places
    BY DEF Places, ActivePlaces
  <2>3. Starts[Head(queue)] \in Operation \cup {NoOperation}
    BY <2>1, HarnessAssumption
  <2>4. QED
    BY <1>1, <2>1, <2>2, <2>3 DEF drainLoop, BeginOperation
<1>2. QED
  BY <1>1 DEF drainLoop

\* The same for a drain that may find another one going on.
LEMMA DrainTypes ==
  ASSUME NEW places \in [Operation -> Places], NEW queue \in Seq(Command),
         NEW statuses \in [Command -> {"new", "queued", "running", "done"}],
         draining \in BOOLEAN, drain(places, queue, statuses)
  PROVE  /\ pc' \in [Operation -> Places] /\ commands' \in Seq(Command) /\ draining' \in BOOLEAN
         /\ status' \in [Command -> {"new", "queued", "running", "done"}]
<1>1. CASE draining
  BY <1>1 DEF drain
<1>2. CASE ~ draining
  BY <1>2, DrainLoopTypes DEF drain
<1>3. QED
  BY <1>1, <1>2

\* Places and runs of a step of a body.
LEMMA BodyTypes ==
  ASSUME TypeOK, NEW o \in Operation, Body(o)
  PROVE  pc' \in [Operation -> Places] /\ run' \in RunType
<1> USE TypeParts
<1>1. /\ pc \in [Operation -> Places] /\ run \in RunType /\ model \in {"small", "large"}
  OBVIOUS
<1>2. \A place \in Places : Goto(o, place) => pc' \in [Operation -> Places]
  BY <1>1 DEF Goto
<1>3. ActivePlaces \cup {"settling", "drain", "done"} \subseteq Places
  BY DEF Places
<1>4. /\ \A place \in ActivePlaces, error \in Errors :
           BodyFails(o, place, error) => pc' \in [Operation -> Places] /\ run' \in RunType
      /\ \A place \in ActivePlaces :
           BodyThrows(o, place) => pc' \in [Operation -> Places] /\ run' \in RunType
      /\ {"failed", "aborted"} = Errors /\ run.bodyError \in {"none"} \cup Errors
  BY <1>1, <1>2, <1>3 DEF BodyFails, BodyThrows, Errors, RunType
<1>5. Throw(o) => pc' \in [Operation -> Places] /\ run' \in RunType
  BY <1>1, <1>2, <1>3 DEF Throw, RunType, ActivePlaces, AttemptPlaces
<1> DEFINE OK == pc' \in [Operation -> Places] /\ run' \in RunType
<1> USE DEF ActivePlaces, AttemptPlaces, AfterAttempt, Recovering, Ending, Flushing
<1>6. ASSUME NEW from, NEW reason, BeginAttempt(o, from, reason) PROVE OK
  BY <1>1, <1>2, <1>3, <1>6 DEF BeginAttempt, RunType
<1>7. ASSUME Started(o) PROVE OK
  BY <1>1, <1>2, <1>3, <1>4, <1>7 DEF Started, RunType
<1>8. ASSUME Answered(o) PROVE OK
  <2>1. pc' \in [Operation -> Places]
    BY <1>2, <1>3, <1>8 DEF Answered
  <2>2. PICK answer \in {"more", "stop", "long"} \cup Terminal :
          run' = [run EXCEPT !.answer = answer, !.turns = run.turns + 1]
    BY <1>8 DEF Answered
  <2>3. run.turns + 1 \in Nat
    BY <1>1 DEF RunType
  <2>4. run' \in RunType
    BY <1>1, <2>2, <2>3 DEF RunType
  <2>5. QED
    BY <2>1, <2>4
<1>9. ASSUME LoopThrows(o) \/ AgentEndFails(o) PROVE OK
  BY <1>5, <1>9 DEF LoopThrows, AgentEndFails
<1>10. ASSUME ReportFailure(o) PROVE OK
  <2>1. pc' \in [Operation -> Places]
    BY <1>2, <1>3, <1>10 DEF ReportFailure
  <2>2. PICK answer \in {"aborted", "error", "overflow"} :
          run' = [run EXCEPT !.answer = answer, !.failing = TRUE]
    BY <1>10 DEF ReportFailure
  <2>3. run' \in RunType
    BY <1>1, <2>2 DEF RunType, Terminal
  <2>4. QED
    BY <2>1, <2>3
<1>11. ASSUME ReportFails(o) PROVE OK
  BY <1>4, <1>11 DEF ReportFails
<1>12. ASSUME TurnEnd(o) PROVE OK
  BY <1>1, <1>2, <1>3, <1>12 DEF TurnEnd, RunType
<1>13. ASSUME TurnFlushed(o) \/ TurnOver(o) \/ NextFlushed(o) \/ EndFlushed(o) PROVE OK
  BY <1>1, <1>2, <1>3, <1>5, <1>13 DEF TurnFlushed, TurnOver, NextFlushed, EndFlushed
<1>14. ASSUME Prepare(o) PROVE OK
  BY <1>1, <1>2, <1>3, <1>5, <1>14 DEF Prepare, RunType
<1>15. ASSUME EndAttempt(o) PROVE OK
  <2>1. pc' \in [Operation -> Places]
    BY <1>2, <1>3, <1>15 DEF EndAttempt
  <2>2. \/ run' = [run EXCEPT !.noted = FALSE, !.turns = 0]
        \/ run' = [run EXCEPT !.noted = TRUE, !.turns = 0]
    BY <1>15 DEF EndAttempt
  <2>3. run' \in RunType
    BY <1>1, <2>2, TurnsCleared
  <2>4. QED
    BY <2>1, <2>3
<1>16. ASSUME AttemptFlushed(o) \/ Recover(o) \/ MoveBack(o) \/ Unrecovered(o) PROVE OK
  <2>1. CASE AttemptFlushed(o)
    <3>1. PICK place \in {"restore", "finish"} :
            \/ \E error \in Errors : BodyFails(o, place, error)
            \/ UNCHANGED run /\ (Goto(o, place) \/ Goto(o, "recover"))
      BY <1>4, <2>1 DEF AttemptFlushed, Failing, BodyThrows
    <3>2. QED
      BY <1>1, <1>2, <1>3, <1>4, <3>1
  <2>2. CASE Recover(o) \/ MoveBack(o) \/ Unrecovered(o)
    BY <1>1, <1>2, <1>3, <1>4, <2>2 DEF Recover, MoveBack, Unrecovered
  <2>3. QED
    BY <1>16, <2>1, <2>2
<1>17. ASSUME Compact(o) PROVE OK
  BY <1>1, <1>2, <1>3, <1>4, <1>17 DEF Compact, RunType
<1>18. ASSUME Restore(o) PROVE OK
  BY <1>1, <1>2, <1>3, <1>18 DEF Restore, Errors, RunType
<1>19. ASSUME StructureEnds(o) PROVE OK
  BY <1>1, <1>2, <1>3, <1>4, <1>19 DEF StructureEnds, RunType
<1>20. ASSUME CommitBegins(o) \/ Commit(o) \/ Finish(o) PROVE OK
  BY <1>1, <1>2, <1>3, <1>4, <1>20 DEF CommitBegins, Commit, Finish, own
<1>21. ASSUME FinalFlushed(o) PROVE OK
  <2>1. \A b \in BOOLEAN : resolveOperationOutcome(b) \in {"completed", "aborted", "cancelled", "failed"}
    BY <1>1 DEF resolveOperationOutcome, RunType
  <2>2. QED
    BY <1>1, <1>2, <1>3, <1>21, <2>1 DEF FinalFlushed, RunType
<1>22. ASSUME SettleFinish(o) PROVE OK
  BY <1>2, <1>3, <1>22, NewRunType DEF SettleFinish
<1>23. ASSUME Drain(o) PROVE OK
  <2>1. [pc EXCEPT ![o] = "done"] \in [Operation -> Places]
    BY <1>1, <1>3
  <2>2. QED
    BY <1>1, <1>23, <2>1, DrainTypes DEF Drain, own
<1>24. QED
  BY <1>6, <1>7, <1>8, <1>9, <1>10, <1>11, <1>12, <1>13, <1>14, <1>15, <1>16, <1>17, <1>18, <1>19,
     <1>20, <1>21, <1>22, <1>23 DEF Body

\* Writes and leaf of a step of a body.
LEMMA BodyWrites ==
  ASSUME TypeOK, NEW o \in Operation, Body(o)
  PROVE  /\ writes' \in [pending : Nat, due : Nat] /\ writes'.due <= writes'.pending
         /\ leaf' \in {"other", "answer", "parent"}
<1> DEFINE OK == /\ writes' \in [pending : Nat, due : Nat] /\ writes'.due <= writes'.pending
                 /\ leaf' \in {"other", "answer", "parent"}
<1>1. /\ writes \in [pending : Nat, due : Nat] /\ writes.due <= writes.pending
      /\ leaf \in {"other", "answer", "parent"}
  BY TypeParts
<1>2. ASSUME UNCHANGED writes, leaf' \in {leaf, "other", "answer", "parent"} PROVE OK
  BY <1>1, <1>2
<1>3. ASSUME NEW label, Flushing(o, label), UNCHANGED leaf PROVE OK
  BY <1>1, <1>3, FlushingTypes
<1>4. ASSUME Flushed \/ FlushFails \/ Persist(writes.due) PROVE OK
  BY <1>1, <1>4, FlushTypes
<1> HIDE DEF OK
<1>5. ASSUME \/ Started(o) \/ LoopThrows(o) \/ ReportFails(o) \/ Answered(o) \/ ReportFailure(o)
             \/ Recover(o) \/ MoveBack(o) \/ Compact(o) \/ Unrecovered(o) \/ Restore(o)
             \/ StructureEnds(o) \/ CommitBegins(o) \/ Commit(o)
             \/ \E from, reason \in {"attempt", "initial", "retry", "context_overflow_recovery"} :
                  BeginAttempt(o, from, reason)
      PROVE  OK
  BY <1>2, <1>5 DEF Started, LoopThrows, ReportFails, Answered, ReportFailure, Recover, MoveBack,
                    Compact, Unrecovered, Restore, StructureEnds, CommitBegins, Commit, BeginAttempt, own
<1>6. ASSUME TurnEnd(o) \/ EndAttempt(o) \/ Finish(o) PROVE OK
  BY <1>3, <1>6 DEF TurnEnd, EndAttempt, Finish
<1>7. ASSUME TurnOver(o) \/ Prepare(o) PROVE OK
  BY <1>2, <1>3, <1>7 DEF TurnOver, Prepare
<1>8. ASSUME TurnFlushed(o) \/ NextFlushed(o) \/ EndFlushed(o) \/ AgentEndFails(o) \/ AttemptFlushed(o)
             \/ FinalFlushed(o)
      PROVE  OK
  BY <1>4, <1>8 DEF TurnFlushed, NextFlushed, EndFlushed, AgentEndFails, AttemptFlushed, FinalFlushed
<1>9. ASSUME SettleFinish(o) PROVE OK
  BY <1>1, <1>9 DEF SettleFinish, OK
<1>10. ASSUME Drain(o) PROVE OK
  BY <1>2, <1>10 DEF Drain, own
<1>11. QED
  BY <1>5, <1>6, <1>7, <1>8, <1>9, <1>10 DEF Body, OK

\* A body leaves the commands, the model and the writes of others alone; a drain
\* is the business of the commands.
LEMMA BodyLeaves ==
  ASSUME NEW o \in Operation, Body(o)
  PROVE  environment' = environment /\ (Drain(o) \/ deferred' = deferred)
  BY DEF Body, BodyOnly, Started, BeginAttempt, Answered, LoopThrows, ReportFailure, ReportFails,
         TurnEnd, TurnFlushed, TurnOver, NextFlushed, Prepare, EndFlushed, AgentEndFails, EndAttempt,
         AttemptFlushed, Recover, MoveBack, Compact, Unrecovered, Restore, StructureEnds, CommitBegins,
         Commit, Finish, FinalFlushed, SettleFinish, Drain

\* The part of the queue without one of its commands.
LEMMA WithoutType ==
  ASSUME NEW queue \in Seq(Command), NEW i \in DOMAIN queue
  PROVE  /\ Without(queue, i) \in Seq(Command)
         /\ Len(Without(queue, i)) = Len(queue) - 1
         /\ \A k \in 1..(Len(queue) - 1) :
              Without(queue, i)[k] = IF k < i THEN queue[k] ELSE queue[k + 1]
<1> DEFINE front == SubSeq(queue, 1, i - 1)
           back == SubSeq(queue, i + 1, Len(queue))
<1>1. Len(queue) \in Nat /\ i \in 1..Len(queue)
  OBVIOUS
<1>2. front \in Seq(Command) /\ Len(front) = i - 1 /\ \A k \in 1..(i - 1) : front[k] = queue[k]
  BY <1>1
<1>3. /\ back \in Seq(Command) /\ Len(back) = Len(queue) - i
      /\ \A k \in 1..(Len(queue) - i) : back[k] = queue[i + k]
  BY <1>1
<1> HIDE DEF front, back
<1>4. /\ front \o back \in Seq(Command) /\ Len(front \o back) = Len(front) + Len(back)
      /\ \A k \in 1..(Len(front) + Len(back)) :
           (front \o back)[k] = IF k <= Len(front) THEN front[k] ELSE back[k - Len(front)]
  BY <1>2, <1>3, SMTT(30)
<1>5. ASSUME NEW k \in 1..(Len(queue) - 1)
      PROVE  (front \o back)[k] = IF k < i THEN queue[k] ELSE queue[k + 1]
  <2>1. CASE k < i
    BY <1>1, <1>2, <1>3, <1>4, <2>1, SMTT(30)
  <2>2. CASE ~ k < i
    <3>1. k - (i - 1) \in 1..(Len(queue) - i) /\ i + (k - (i - 1)) = k + 1
      BY <1>1, <2>2
    <3>2. (front \o back)[k] = back[k - (i - 1)]
      <4>1. k \in 1..(Len(front) + Len(back)) /\ ~ k <= Len(front) /\ Len(front) = i - 1
        BY <1>1, <1>2, <1>3, <2>2
      <4>2. QED
        BY <1>4, <4>1
    <3>3. back[k - (i - 1)] = queue[i + (k - (i - 1))]
      BY <1>3, <3>1
    <3>4. QED
      BY <2>2, <3>1, <3>2, <3>3
  <2>3. QED
    BY <2>1, <2>2
<1>6. Len(front \o back) = Len(queue) - 1
  BY <1>1, <1>2, <1>3, <1>4
<1>7. Without(queue, i) = front \o back
  BY DEF Without, front, back
<1>8. QED
  BY <1>4, <1>5, <1>6, <1>7

\* Every step keeps the types.
LEMMA NextType == TypeOK /\ [Next]_vars => TypeOK'
<1> SUFFICES ASSUME TypeOK, [Next]_vars PROVE TypeOK'
  OBVIOUS
<1>1. LifecycleTypeOK'
  BY StepCommands, LifecycleNextType, TypeParts
<1>2. /\ pc \in [Operation -> Places] /\ run \in RunType
      /\ writes \in [pending : Nat, due : Nat] /\ writes.due <= writes.pending
      /\ leaf \in {"other", "answer", "parent"} /\ model \in {"small", "large"}
      /\ commands \in Seq(Command) /\ draining \in BOOLEAN
      /\ status \in [Command -> {"new", "queued", "running", "done"}]
  BY TypeParts
<1> DEFINE OK ==
     /\ pc' \in [Operation -> Places] /\ run' \in RunType
     /\ writes' \in [pending : Nat, due : Nat] /\ writes'.due <= writes'.pending
     /\ leaf' \in {"other", "answer", "parent"} /\ model' \in {"small", "large"}
     /\ commands' \in Seq(Command) /\ draining' \in BOOLEAN
     /\ status' \in [Command -> {"new", "queued", "running", "done"}]
<1>3. {"started", "done"} \subseteq Places
  BY DEF Places, ActivePlaces
<1>4. ASSUME NEW o \in Operation, Body(o) PROVE OK
  <2>1. /\ pc' \in [Operation -> Places] /\ run' \in RunType
        /\ writes' \in [pending : Nat, due : Nat] /\ writes'.due <= writes'.pending
        /\ leaf' \in {"other", "answer", "parent"}
    BY <1>4, BodyTypes, BodyWrites
  <2>2. CASE deferred' = deferred
    BY <1>2, <1>4, <2>1, <2>2, BodyLeaves DEF deferred, environment
  <2>3. CASE Drain(o)
    <3>1. [pc EXCEPT ![o] = "done"] \in [Operation -> Places]
      BY <1>2, <1>3
    <3>2. drain([pc EXCEPT ![o] = "done"], commands, status) /\ model' = model
      BY <2>3 DEF Drain, environment
    <3>3. QED
      BY <1>2, <2>1, <3>1, <3>2, DrainTypes
  <2>4. QED
    BY <1>4, <2>2, <2>3, BodyLeaves
<1>5. ASSUME NEW o \in Operation, runOperation(o) PROVE OK
  BY <1>2, <1>3, <1>5 DEF runOperation, BeginOperation, Goto, own, deferred, environment
<1>6. ASSUME NEW c \in Command, runWhenIdle(c) PROVE OK
  <2>1. /\ Append(commands, c) \in Seq(Command)
        /\ [status EXCEPT ![c] = "queued"] \in [Command -> {"new", "queued", "running", "done"}]
    BY <1>2
  <2>2. drain(pc, Append(commands, c), [status EXCEPT ![c] = "queued"])
          /\ UNCHANGED <<run, writes, leaf, model>>
    BY <1>6 DEF runWhenIdle, own, environment
  <2>3. QED
    BY <1>2, <2>1, <2>2, DrainTypes
<1>7. ASSUME NEW c \in Command, CommandEnds(c) PROVE OK
  <2>1. [status EXCEPT ![c] = "done"] \in [Command -> {"new", "queued", "running", "done"}]
    BY <1>2
  <2>2. drainLoop(pc, commands, [status EXCEPT ![c] = "done"]) /\ UNCHANGED <<run, writes, leaf, model>>
    BY <1>7 DEF CommandEnds, own, environment
  <2>3. QED
    BY <1>2, <2>1, <2>2, DrainLoopTypes
<1>8. ASSUME NEW c \in Command, cancel(c) PROVE OK
  <2>1. \E i \in DOMAIN commands : commands' = Without(commands, i)
    BY <1>8 DEF cancel
  <2>2. commands' \in Seq(Command)
    BY <1>2, <2>1, WithoutType
  <2>3. QED
    BY <1>2, <1>8, <2>2 DEF cancel, own, environment
<1>9. ASSUME Write \/ setModel \/ requestAbort \/ UNCHANGED vars PROVE OK
  BY <1>2, <1>9 DEF Write, setModel, requestAbort, own, deferred, environment, vars
<1>10. OK
  BY <1>4, <1>5, <1>6, <1>7, <1>8, <1>9 DEF Next
<1>11. QED
  BY <1>1, <1>10 DEF TypeOK, RunType, Places, ActivePlaces, AttemptPlaces, AfterAttempt, Recovering, Ending

-------------------------------------------------------------------------------
(* What the commands do to the state of the lifecycle. *)

\* A move of the stage.
LEMMA StageEffect ==
  ASSUME LifecycleTypeOK, NEW o, NEW to, reduceStage(o, to)
  PROVE  /\ Active(o) /\ isLegalStageMove(to)
         /\ state'.tag = state.tag /\ state'.operation = state.operation /\ state'.stage = to
         /\ state'.attempt = state.attempt /\ state'.attempts = state.attempts
         /\ state'.abortRequested = state.abortRequested
  BY DEF reduceStage, StageLegal, LifecycleTypeOK

\* The beginning of an attempt.
LEMMA AttemptBeginEffect ==
  ASSUME LifecycleTypeOK, NEW o, NEW reason, reduceAttemptBegin(o, reason)
  PROVE  /\ Active(o)
         /\ state'.tag = state.tag /\ state'.operation = state.operation
         /\ state'.stage = "attempt_running" /\ state'.attempt /\ state'.attempts = state.attempts
         /\ state'.abortRequested = state.abortRequested
  BY DEF reduceAttemptBegin, AttemptBeginLegal, LifecycleTypeOK

\* The end of an attempt.
LEMMA AttemptEndEffect ==
  ASSUME LifecycleTypeOK, NEW o, NEW outcome \in AttemptOutcomes, reduceAttemptEnd(o, outcome)
  PROVE  /\ Active(o)
         /\ state'.tag = state.tag /\ state'.operation = state.operation
         /\ state'.stage = "preparing" /\ ~ state'.attempt
         /\ state'.attempts # <<>> /\ state'.attempts[Len(state'.attempts)] = outcome
         /\ state'.abortRequested = state.abortRequested
<1>1. state'.attempts = Append(state.attempts, outcome) /\ state.attempts \in Seq(AttemptOutcomes)
  BY DEF reduceAttemptEnd, LifecycleTypeOK
<1>2. state'.attempts # <<>> /\ state'.attempts[Len(state'.attempts)] = outcome
  BY <1>1
<1>3. QED
  BY <1>2 DEF reduceAttemptEnd, AttemptEndLegal, LifecycleTypeOK

-------------------------------------------------------------------------------
(* The steps of a body. *)

\* One operation at a time has a place in its body.
LEMMA Alone ==
  ASSUME PlacesOK, NEW o \in Operation, NEW p \in Operation,
         pc[o] \in ActivePlaces \cup {"settling"}, pc[p] \in ActivePlaces \cup {"settling"}
  PROVE  p = o
  BY DEF PlacesOK, Active, SettleFinishLegal

\* The places of settling and of rest are not those of a body.
LEMMA PlacesApart ==
  /\ {"new", "settling", "drain", "done"} \cap ActivePlaces = {}
  /\ "structural" \notin AttemptPlaces \cup AfterAttempt \cup Recovering \cup Ending
  BY DEF ActivePlaces, AttemptPlaces, AfterAttempt, Recovering, Ending

\* What holds of the operation that is in its body.
Inside(o) ==
  /\ pc[o] \in ActivePlaces /\ state.tag = "active" /\ state.operation = o
  /\ run.outcome = "none"
  /\ StageAt(o) /\ VerdictAt(o) /\ LeafAt(o)

OpsInv == PlacesOK /\ OperationsOK /\ IdleOK /\ OutcomeOK /\ CompletedIsEarned

\* The invariant as the operation in its body sees it.
LEMMA Enter ==
  ASSUME OpsInv, NEW o \in Operation, pc[o] \in ActivePlaces
  PROVE  Inside(o)
  BY DEF OpsInv, PlacesOK, OperationsOK, OutcomeOK, Inside, Active

\* A step of the body keeps the invariant when it keeps what the operation sees.
LEMMA StayInside ==
  ASSUME TypeOK, OpsInv, NEW o \in Operation, pc[o] \in ActivePlaces, Inside(o)',
         NEW label, Goto(o, label)
  PROVE  OpsInv'
<1>1. /\ pc'[o] \in ActivePlaces /\ state'.tag = "active" /\ state'.operation = o
      /\ run'.outcome = "none"
      /\ (StageAt(o) /\ VerdictAt(o) /\ LeafAt(o))'
  BY DEF Inside
<1>2. \A p \in Operation : p # o => pc'[p] = pc[p] /\ pc'[p] \notin ActivePlaces \cup {"settling"}
  BY Alone DEF OpsInv, Goto, TypeOK
<1>3. pc'[o] # "settling"
  BY <1>1, PlacesApart
<1>4. PlacesOK'
  BY <1>1, <1>2, <1>3 DEF PlacesOK, Active, SettleFinishLegal
<1>5. OperationsOK'
  <2>1. ASSUME NEW p \in Operation PROVE (StageAt(p) /\ VerdictAt(p) /\ LeafAt(p))'
    <3>1. CASE p = o
      BY <1>1, <3>1
    <3>2. CASE p # o
      <4>1. pc'[p] \notin {"attempt", "restore", "started", "structural", "commit", "compact",
                         "unrecovered", "recover", "moveBack", "settling"}
              \cup AttemptPlaces \cup AfterAttempt \cup Recovering \cup Ending \cup ActivePlaces
        BY <1>2, <3>2 DEF ActivePlaces, Recovering, AfterAttempt
      <4>2. QED
        BY <4>1 DEF StageAt, VerdictAt, LeafAt
    <3>3. QED
      BY <3>1, <3>2
  <2>2. QED
    BY <2>1 DEF OperationsOK
<1>6. IdleOK' /\ OutcomeOK' /\ CompletedIsEarned'
  BY <1>1 DEF IdleOK, OutcomeOK, CompletedIsEarned
<1>7. QED
  BY <1>4, <1>5, <1>6 DEF OpsInv

\* A step inside of the body keeps what holds there.
LEMMA InsideSteps ==
  ASSUME TypeOK, AttemptsAreAccounted, NEW o \in Operation, Inside(o), Body(o), ~ FinalFlushed(o)
  PROVE  Inside(o)' /\ \E label : Goto(o, label)
<1>1. /\ LifecycleTypeOK /\ pc \in [Operation -> Places] /\ run \in RunType
      /\ leaf \in {"other", "answer", "parent"} /\ model \in {"small", "large"}
  BY TypeParts
<1> DEFINE OK == Inside(o)' /\ \E label : Goto(o, label)
<1> USE DEF ActivePlaces, AttemptPlaces, AfterAttempt, Recovering, Ending
<1>2. ASSUME NEW label \in ActivePlaces, Goto(o, label) PROVE pc'[o] = label
  BY <1>1, <1>2 DEF Goto
<1>3. \A place \in ActivePlaces : Goto(o, place) => \E label : Goto(o, label)
  OBVIOUS
<1>4. ASSUME Started(o) PROVE OK
  <2>1. CASE isPromptFamily(o) /\ Goto(o, "attempt") /\ UNCHANGED state /\ run' = [run EXCEPT !.turnModel = model]
    BY <1>1, <1>2, <1>4, <2>1 DEF Started, Inside, StageAt, VerdictAt, LeafAt, RunType
  <2>2. CASE ~ isPromptFamily(o) /\ Goto(o, "structural") /\ reduceStage(o, "structural_running") /\ UNCHANGED run
    BY <1>1, <1>2, <1>4, <2>2, StageEffect DEF Started, Inside, StageAt, VerdictAt, LeafAt
  <2>3. CASE (\E error \in Errors : BodyFails(o, "finish", error)) /\ UNCHANGED state
    BY <1>1, <1>2, <1>4, <2>3 DEF Started, Errors, BodyFails, Inside, StageAt, VerdictAt, LeafAt, RunType
  <2>4. QED
    BY <1>4, <2>1, <2>2, <2>3 DEF Started, BodyThrows, Errors
<1>5. ASSUME NEW reason, BeginAttempt(o, "attempt", reason) \/ BeginAttempt(o, "retry", reason) PROVE OK
  BY <1>1, <1>2, <1>5, AttemptBeginEffect, ZenonT(60) DEF BeginAttempt, Inside, StageAt, VerdictAt, LeafAt, RunType
<1>6. ASSUME Answered(o) PROVE OK
  BY <1>1, <1>2, <1>6 DEF Answered, Inside, StageAt, VerdictAt, LeafAt, RunType
<1>7. ASSUME LoopThrows(o) PROVE OK
  BY <1>1, <1>2, <1>7 DEF LoopThrows, Throw, Inside, StageAt, VerdictAt, LeafAt, RunType
<1>8. ASSUME ReportFailure(o) PROVE OK
  BY <1>1, <1>2, <1>8 DEF ReportFailure, Inside, StageAt, VerdictAt, LeafAt, RunType
<1>9. ASSUME ReportFails(o) PROVE OK
  BY <1>1, <1>2, <1>9 DEF ReportFails, BodyFails, Inside, StageAt, VerdictAt, LeafAt, RunType
<1>10. ASSUME TurnEnd(o) PROVE OK
  BY <1>1, <1>2, <1>10 DEF TurnEnd, Flushing, Inside, StageAt, VerdictAt, LeafAt, RunType
<1>11. Flushed \/ FlushFails \/ Persist(writes.due) => leaf' \in {"other", leaf}
  BY FlushTypes, TypeParts
<1>12. ASSUME TurnFlushed(o) PROVE OK
  <2>1. /\ leaf' \in {"other", leaf} /\ pc[o] = "turnFlush"
        /\ \/ Throw(o) \/ (Goto(o, "savePoint") /\ UNCHANGED run)
    BY <1>11, <1>12 DEF TurnFlushed
  <2>2. /\ state'.tag = state.tag /\ state'.operation = state.operation
        /\ state'.attempt = state.attempt /\ state'.abortRequested = state.abortRequested
    BY <1>1, <1>12, StageEffect DEF TurnFlushed, SavePoint
  <2>3. QED
    BY <1>1, <1>2, <2>1, <2>2 DEF Throw, Inside, StageAt, VerdictAt, LeafAt, RunType
<1>13. ASSUME TurnOver(o) PROVE OK
  BY <1>1, <1>2, <1>13 DEF TurnOver, Throw, Flushing, Inside, StageAt, VerdictAt, LeafAt, RunType
<1>14. ASSUME NextFlushed(o) PROVE OK
  <2>1. /\ leaf' \in {"other", leaf} /\ pc[o] = "nextFlush"
        /\ \/ Throw(o) \/ (Goto(o, "prepare") /\ UNCHANGED run)
    BY <1>11, <1>14 DEF NextFlushed
  <2>2. /\ state'.tag = state.tag /\ state'.operation = state.operation
        /\ state'.attempt = state.attempt /\ state'.abortRequested = state.abortRequested
    BY <1>1, <1>14, StageEffect DEF NextFlushed
  <2>3. QED
    BY <1>1, <1>2, <2>1, <2>2 DEF Throw, Inside, StageAt, VerdictAt, LeafAt, RunType
<1>15. ASSUME Prepare(o) PROVE OK
  BY <1>1, <1>2, <1>15 DEF Prepare, Throw, Flushing, Inside, StageAt, VerdictAt, LeafAt, RunType
<1>16. ASSUME EndFlushed(o) \/ AgentEndFails(o) PROVE OK
  <2>1. /\ leaf' \in {"other", leaf} /\ pc[o] = "endFlush" /\ UNCHANGED state
        /\ \/ Throw(o) \/ (Goto(o, "endAttempt") /\ UNCHANGED run)
    BY <1>11, <1>16 DEF EndFlushed, AgentEndFails
  <2>2. QED
    BY <1>1, <1>2, <2>1 DEF Throw, Inside, StageAt, VerdictAt, LeafAt, RunType
<1>17. ASSUME EndAttempt(o) PROVE OK
  <2>1. /\ pc[o] = "endAttempt" /\ pc'[o] = "attemptFlush" /\ UNCHANGED leaf /\ Goto(o, "attemptFlush")
    BY <1>2, <1>17 DEF EndAttempt, Flushing
  <2>2. /\ run'.answer = run.answer /\ run'.turnModel = run.turnModel /\ run'.bodyError = run.bodyError
        /\ run'.outcome = run.outcome
    BY <1>1, <1>17 DEF EndAttempt, RunType
  <2>3. /\ state'.tag = state.tag /\ state'.operation = state.operation
        /\ state'.stage = "preparing" /\ ~ state'.attempt
        /\ state'.attempts # <<>> /\ state'.attempts[Len(state'.attempts)] = Classified
        /\ state'.abortRequested = state.abortRequested
    BY <1>1, <1>17, AttemptEndEffect, ClassifiedType DEF EndAttempt
  <2>4. Classified' = Classified
    BY <2>2 DEF Classified
  <2>5. QED
    BY <2>1, <2>2, <2>3, <2>4 DEF Inside, StageAt, VerdictAt, LeafAt
<1>18. ASSUME AttemptFlushed(o) PROVE OK
  <2>1. /\ leaf' \in {"other", leaf} /\ pc[o] = "attemptFlush" /\ UNCHANGED state
        /\ \/ \E error \in Errors : BodyFails(o, "restore", error) \/ BodyFails(o, "finish", error)
           \/ /\ Goto(o, "finish") \/ Goto(o, "recover")
              /\ run.bodyError = "none" /\ UNCHANGED run
    <3>1. run.bodyError \in {"none"} \cup Errors
      BY <1>1 DEF RunType, Errors
    <3>2. QED
      BY <1>11, <1>18, <3>1 DEF AttemptFlushed, Failing, BodyThrows, Errors
  <2>2. CASE UNCHANGED run /\ run.bodyError = "none" /\ (Goto(o, "finish") \/ Goto(o, "recover"))
    <3>1. Classified' = Classified
      BY <2>2 DEF Classified
    <3>2. QED
      BY <1>2, <2>1, <2>2, <3>1 DEF Inside, StageAt, VerdictAt, LeafAt
  <2>3. CASE \E error \in Errors : BodyFails(o, "restore", error) \/ BodyFails(o, "finish", error)
    BY <1>1, <1>2, <2>1, <2>3 DEF Errors, BodyFails, Inside, StageAt, VerdictAt, LeafAt, RunType
  <2>4. QED
    BY <2>1, <2>2, <2>3
<1>19. ASSUME Recover(o) PROVE OK
  <2>1. CASE UNCHANGED run /\ Goto(o, "finish")
    <3>1. Classified' = Classified
      BY <2>1 DEF Classified
    <3>2. QED
      BY <1>2, <1>19, <2>1, <3>1 DEF Recover, Inside, StageAt, VerdictAt, LeafAt
  <2>2. CASE UNCHANGED run /\ Goto(o, "moveBack") /\ Overflows(run.answer, model)
    <3>1. Classified' = Classified
      BY <2>2 DEF Classified
    <3>2. QED
      BY <1>2, <1>19, <2>2, <3>1 DEF Recover, Overflows, Inside, StageAt, VerdictAt, LeafAt
  <2>3. CASE \E error \in Errors : BodyFails(o, "finish", error)
    BY <1>1, <1>2, <1>19, <2>3 DEF Recover, Errors, BodyFails, Inside, StageAt, VerdictAt, LeafAt, RunType
  <2>4. QED
    BY <1>19, <2>1, <2>2, <2>3 DEF Recover, Overflowed, BodyThrows, Errors
<1>20. pc[o] = "moveBack" => StageLegal(o, "recovering_overflow") \/ ModelChangedUnderAnswer
  <2>1. SUFFICES ASSUME pc[o] = "moveBack", ~ ModelChangedUnderAnswer
                 PROVE  StageLegal(o, "recovering_overflow")
    OBVIOUS
  <2>2. /\ state.attempts # <<>> /\ state.attempts[Len(state.attempts)] = Classified
        /\ run.bodyError = "none" /\ run.answer \in {"overflow", "long"} /\ run.turnModel # "none"
        /\ state.tag = "active" /\ state.operation = o /\ state.stage = "preparing"
        /\ isPromptFamily(o) /\ ~ state.attempt
    BY <2>1 DEF Inside, StageAt, VerdictAt
  <2>3. Classified = "overflow"
    BY <1>1, <2>1, <2>2 DEF Classified, Overflows, ModelChangedUnderAnswer, RunType
  <2>4. QED
    BY <2>2, <2>3 DEF StageLegal, isLegalStageMove, Active, lastAttemptOverflowed
<1>21. ASSUME MoveBack(o) PROVE OK
  <2>1. CASE reduceStage(o, "recovering_overflow") /\ Goto(o, "compact") /\ UNCHANGED run
    <3>1. Classified' = Classified
      BY <2>1 DEF Classified
    <3>2. QED
      BY <1>1, <1>2, <1>21, <2>1, <3>1, StageEffect DEF MoveBack, Inside, StageAt, VerdictAt, LeafAt
  <2>2. CASE /\ \E error \in Errors : BodyFails(o, "finish", error)
             /\ UNCHANGED state /\ (UNCHANGED leaf \/ ModelChangedUnderAnswer)
    BY <1>1, <1>2, <1>21, <2>2
       DEF MoveBack, Errors, BodyFails, ModelChangedUnderAnswer, Inside, StageAt, VerdictAt, LeafAt, RunType
  <2>3. QED
    BY <1>20, <1>21, <2>1, <2>2 DEF MoveBack, BodyThrows, Errors
<1>22. ASSUME Compact(o) PROVE OK
  <2>1. CASE UNCHANGED <<run, leaf>> /\ Goto(o, "unrecovered")
    <3>1. Classified' = Classified
      BY <2>1 DEF Classified
    <3>2. QED
      BY <1>2, <1>22, <2>1, <3>1 DEF Compact, Inside, StageAt, VerdictAt, LeafAt
  <2>2. CASE leaf' = "other" /\ Goto(o, "retry") /\ run' = [run EXCEPT !.turnModel = model]
    BY <1>1, <1>2, <1>22, <2>2 DEF Compact, Inside, StageAt, VerdictAt, LeafAt, RunType
  <2>3. CASE \E error \in Errors : BodyFails(o, "restore", error)
    BY <1>1, <1>2, <1>22, <2>3 DEF Compact, Errors, BodyFails, Inside, StageAt, VerdictAt, LeafAt, RunType
  <2>4. QED
    BY <1>22, <2>1, <2>2, <2>3 DEF Compact, BodyThrows, Errors
<1>23. ASSUME Unrecovered(o) PROVE OK
  <2>1. CASE leaf' = "answer" /\ Goto(o, "finish") /\ UNCHANGED run
    <3>1. Classified' = Classified
      BY <2>1 DEF Classified
    <3>2. QED
      BY <1>2, <1>23, <2>1, <3>1 DEF Unrecovered, Inside, StageAt, VerdictAt, LeafAt
  <2>2. CASE (\E error \in Errors : BodyFails(o, "restore", error)) /\ UNCHANGED leaf
    BY <1>1, <1>2, <1>23, <2>2 DEF Unrecovered, Errors, BodyFails, Inside, StageAt, VerdictAt, LeafAt, RunType
  <2>3. QED
    BY <1>23, <2>1, <2>2 DEF Unrecovered, BodyThrows, Errors
<1>24. ASSUME Restore(o) PROVE OK
  BY <1>1, <1>2, <1>24 DEF Restore, Errors, Inside, StageAt, VerdictAt, LeafAt, RunType
<1>25. pc[o] \in {"structural", "commit"} => state.attempts = <<>>
  BY DEF Inside, StageAt, AttemptsAreAccounted
<1>26. ASSUME StructureEnds(o) PROVE OK
  BY <1>1, <1>2, <1>25, <1>26 DEF StructureEnds, BodyThrows, BodyFails, Inside, StageAt, VerdictAt, LeafAt, RunType
<1>27. ASSUME CommitBegins(o) PROVE OK
  BY <1>1, <1>2, <1>27, StageEffect DEF CommitBegins, own, Inside, StageAt, VerdictAt, LeafAt
<1>28. ASSUME Commit(o) PROVE OK
  BY <1>1, <1>2, <1>25, <1>28 DEF Commit, BodyThrows, BodyFails, Inside, StageAt, VerdictAt, LeafAt, RunType
<1>29. ASSUME Finish(o) PROVE OK
  <2>1. Classified' = Classified
    BY <1>29 DEF Finish, Classified
  <2>2. QED
    BY <1>2, <1>29, <2>1 DEF Finish, Flushing, ModelChangedUnderAnswer, Inside, StageAt, VerdictAt, LeafAt
<1>30. ~ SettleFinish(o) /\ ~ Drain(o)
  BY DEF Inside, SettleFinish, Drain
<1>31. QED
  BY <1>4, <1>5, <1>6, <1>7, <1>8, <1>9, <1>10, <1>12, <1>13, <1>14, <1>15, <1>16, <1>17, <1>18,
     <1>19, <1>21, <1>22, <1>23, <1>24, <1>26, <1>27, <1>28, <1>29, <1>30 DEF Body

-------------------------------------------------------------------------------
(* The steps between bodies, and those of everybody else. *)

\* What leaves the operations alone, up to a call that ends.
Elsewhere(places) ==
  /\ places \in [Operation -> Places]
  /\ \A p \in Operation :
       places[p] = pc[p] \/ (pc[p] \in {"new", "drain"} /\ places[p] = "done")

\* A step elsewhere keeps the invariant of the operations.
LEMMA ElsewhereKeeps ==
  ASSUME TypeOK, OpsInv, Elsewhere(pc'), UNCHANGED <<run, leaf>>, writes'.due = writes.due,
         \/ UNCHANGED state
         \/ /\ state.tag = "active" /\ state'.abortRequested
            /\ state'.tag = state.tag /\ state'.operation = state.operation
            /\ state'.stage = state.stage /\ state'.attempt = state.attempt
            /\ state'.attempts = state.attempts
  PROVE  OpsInv'
<1>1. /\ state'.tag = state.tag /\ state'.operation = state.operation
      /\ state'.stage = state.stage /\ state'.attempt = state.attempt
      /\ state'.attempts = state.attempts
      /\ state.abortRequested => state'.abortRequested
      /\ state.tag # "active" => state' = state
  OBVIOUS
<1>2. \A p \in Operation : pc[p] \in ActivePlaces \cup {"settling"} => pc'[p] = pc[p]
  BY PlacesApart DEF Elsewhere
<1>3. \A p \in Operation : pc'[p] \in ActivePlaces \cup {"settling"} => pc'[p] = pc[p]
  BY PlacesApart DEF Elsewhere
<1>4. PlacesOK'
  BY <1>1, <1>2, <1>3 DEF OpsInv, PlacesOK, Active, SettleFinishLegal
<1>5. ASSUME NEW p \in Operation PROVE (StageAt(p) /\ VerdictAt(p) /\ LeafAt(p))'
  <2>1. CASE pc'[p] = pc[p]
    <3>1. Classified' = Classified
      BY DEF Classified
    <3>2. StageAt(p) /\ VerdictAt(p) /\ LeafAt(p)
      BY DEF OpsInv, OperationsOK
    <3>3. QED
      BY <1>1, <2>1, <3>1, <3>2 DEF StageAt, VerdictAt, LeafAt, ModelChangedUnderAnswer
  <2>2. CASE pc'[p] = "done"
    BY <2>2 DEF StageAt, VerdictAt, LeafAt, ActivePlaces, AttemptPlaces, AfterAttempt, Recovering, Ending
  <2>3. QED
    BY <2>1, <2>2 DEF Elsewhere
<1>6. IdleOK' /\ OutcomeOK'
  BY <1>1 DEF OpsInv, IdleOK, OutcomeOK
<1>7. CompletedIsEarned'
  BY <1>1 DEF OpsInv, OutcomeOK, CompletedIsEarned
<1>8. QED
  BY <1>4, <1>5, <1>6, <1>7 DEF OpsInv, OperationsOK

\* An operation that begins finds everything as it was.
LEMMA BeginKeeps ==
  ASSUME TypeOK, AttemptsAreAccounted, OpsInv, NEW o \in Operation, NEW places, Elsewhere(places),
         BeginOperation(o, places), UNCHANGED own
  PROVE  OpsInv'
<1>1. /\ state.tag = "idle" /\ state' = [Idle EXCEPT !.tag = "active", !.operation = o]
      /\ pc' = [places EXCEPT ![o] = "started"] /\ UNCHANGED <<run, writes, leaf>>
  BY DEF BeginOperation, reduceBegin, own
<1>2. /\ state'.tag = "active" /\ state'.operation = o /\ state'.stage = "preparing"
      /\ ~ state'.attempt /\ state'.attempts = <<>>
  BY <1>1 DEF Idle
<1>3. run = NewRun /\ leaf # "parent"
  BY <1>1 DEF OpsInv, IdleOK
<1>4. pc'[o] = "started" /\ \A p \in Operation : p # o => pc'[p] \notin ActivePlaces \cup {"settling"}
  <2>1. \A p \in Operation : pc[p] \notin ActivePlaces \cup {"settling"}
    BY <1>1 DEF OpsInv, PlacesOK, Active, SettleFinishLegal
  <2>2. QED
    BY <1>1, <2>1, PlacesApart DEF Elsewhere
<1>5. PlacesOK'
  BY <1>2, <1>4 DEF PlacesOK, Active, SettleFinishLegal, ActivePlaces
<1>6. ASSUME NEW p \in Operation PROVE (StageAt(p) /\ VerdictAt(p) /\ LeafAt(p))'
  <2>1. LeafAt(p)'
    BY <1>1, <1>3 DEF LeafAt
  <2>2. CASE p = o
    BY <1>2, <1>4, <2>1, <2>2
       DEF StageAt, VerdictAt, ActivePlaces, AttemptPlaces, AfterAttempt, Recovering, Ending
  <2>3. CASE p # o
    BY <1>4, <2>1, <2>3
       DEF StageAt, VerdictAt, ActivePlaces, AttemptPlaces, AfterAttempt, Recovering, Ending
  <2>4. QED
    BY <2>2, <2>3
<1>7. IdleOK' /\ OutcomeOK' /\ CompletedIsEarned'
  BY <1>1, <1>2, <1>3 DEF IdleOK, OutcomeOK, CompletedIsEarned, NewRun
<1>8. QED
  BY <1>5, <1>6, <1>7 DEF OpsInv, OperationsOK

\* A drain keeps the invariant of the operations.
LEMMA DrainLoopKeeps ==
  ASSUME TypeOK, AttemptsAreAccounted, OpsInv, NEW places, Elsewhere(places),
         NEW queue \in Seq(Command), NEW statuses, drainLoop(places, queue, statuses), UNCHANGED own
  PROVE  OpsInv'
<1>1. UNCHANGED <<run, leaf, writes>>
  BY DEF own
<1>2. CASE UNCHANGED state /\ pc' = places
  BY <1>1, <1>2, ElsewhereKeeps
<1>3. CASE \E o \in Operation : BeginOperation(o, places)
  BY <1>3, BeginKeeps
<1>4. MayStart(queue) => Starts[Head(queue)] \in Operation \cup {NoOperation}
  <2>1. MayStart(queue) => Head(queue) \in Command
    BY DEF MayStart
  <2>2. QED
    BY <2>1, HarnessAssumption
<1>5. QED
  BY <1>2, <1>3, <1>4 DEF drainLoop

\* The same for a drain that may find another one going on.
LEMMA DrainKeeps ==
  ASSUME TypeOK, AttemptsAreAccounted, OpsInv, NEW places, Elsewhere(places),
         NEW queue \in Seq(Command), NEW statuses, drain(places, queue, statuses), UNCHANGED own
  PROVE  OpsInv'
<1>1. CASE draining
  <2>1. pc' = places /\ UNCHANGED <<state, run, leaf, writes>>
    BY <1>1 DEF drain, own
  <2>2. QED
    BY <2>1, ElsewhereKeeps
<1>2. CASE ~ draining
  BY <1>2, DrainLoopKeeps DEF drain
<1>3. QED
  BY <1>1, <1>2

\* The outcome is fixed behind the final flush.
LEMMA FinalKeeps ==
  ASSUME TypeOK, AttemptsAreAccounted, OpsInv, NEW o \in Operation, FinalFlushed(o)
  PROVE  OpsInv'
<1>1. Inside(o) /\ pc[o] = "finalFlush"
  BY Enter DEF FinalFlushed, ActivePlaces, Ending
<1>2. /\ LifecycleTypeOK /\ pc \in [Operation -> Places] /\ run \in RunType
      /\ writes \in [pending : Nat, due : Nat] /\ writes.due <= writes.pending
      /\ leaf \in {"other", "answer", "parent"}
  BY TypeParts
<1>3. /\ state'.tag = "settling" /\ state'.operation = o /\ ~ state.attempt /\ ~ state'.attempt
      /\ state'.attempts = state.attempts /\ state'.abortRequested = state.abortRequested
  BY <1>1, <1>2 DEF FinalFlushed, reduceSettleBegin, SettleBeginLegal, Active, LifecycleTypeOK
<1>4. pc'[o] = "settling" /\ \A p \in Operation : p # o => pc'[p] = pc[p]
  BY <1>2 DEF FinalFlushed, Goto
<1>5. \A p \in Operation : p # o => pc'[p] \notin ActivePlaces \cup {"settling"}
  BY <1>1, <1>4, Alone DEF OpsInv, Inside
<1>6. PlacesOK'
  BY <1>3, <1>4, <1>5, PlacesApart DEF PlacesOK, Active, SettleFinishLegal
<1>7. PICK b \in BOOLEAN : /\ run' = [run EXCEPT !.outcome = resolveOperationOutcome(b)]
                           /\ ~ b => Flushed
  BY DEF FinalFlushed
<1>8. resolveOperationOutcome(b) \in {"completed", "aborted", "cancelled", "failed"}
  BY <1>2 DEF resolveOperationOutcome, RunType
<1>9. /\ run'.outcome = resolveOperationOutcome(b) /\ run'.answer = run.answer
      /\ run'.bodyError = run.bodyError /\ run'.unrestored = run.unrestored
      /\ run'.turnModel = run.turnModel
  BY <1>2, <1>7, <1>8 DEF RunType
<1>10. leaf' \in {"other", leaf}
  BY <1>2, FlushTypes DEF FinalFlushed
<1>11. ASSUME NEW p \in Operation PROVE (StageAt(p) /\ VerdictAt(p) /\ LeafAt(p))'
  <2>1. CASE p = o
    <3>1. StageAt(o)' /\ VerdictAt(o)'
      BY <1>4 DEF StageAt, VerdictAt, ActivePlaces, AttemptPlaces, AfterAttempt, Recovering, Ending
    <3>2. LeafAt(o)'
      BY <1>1, <1>4, <1>9, <1>10
         DEF Inside, LeafAt, ModelChangedUnderAnswer, ActivePlaces, Ending
    <3>3. QED
      BY <2>1, <3>1, <3>2
  <2>2. CASE p # o
    BY <1>5, <2>2
       DEF StageAt, VerdictAt, LeafAt, ActivePlaces, AttemptPlaces, AfterAttempt, Recovering, Ending
  <2>3. QED
    BY <2>1, <2>2
<1>12. IdleOK' /\ OutcomeOK'
  BY <1>1, <1>3, <1>8, <1>9 DEF IdleOK, OutcomeOK, Inside
<1>13. CompletedIsEarned'
  <2>1. SUFFICES ASSUME run'.outcome = "completed"
                 PROVE  /\ writes'.due = 0 /\ ~ state'.abortRequested
                        /\ state'.attempts # <<>> =>
                             state'.attempts[Len(state'.attempts)] \in {"completed", "overflow"}
    BY DEF CompletedIsEarned
  <2>2. /\ ~ b /\ run.bodyError = "none" /\ ~ state.abortRequested
        /\ run.answer \notin {"aborted", "error", "overflow"}
    BY <1>2, <1>9, <2>1 DEF resolveOperationOutcome, RunType
  <2>3. writes'.due = 0
    <3>1. Persist(writes.due) /\ writes.due \in 0..writes.due
      BY <1>2, <1>7, <2>2 DEF Flushed
    <3>2. writes'.due = writes.due - writes.due
      BY <1>2, <3>1, PersistTypes
    <3>3. QED
      BY <1>2, <3>2
  <2>4. state.attempts # <<>> => state.attempts[Len(state.attempts)] = Classified
    BY <1>1, <2>2 DEF Inside, VerdictAt, Ending
  <2>5. Classified \in {"completed", "overflow"}
    BY <2>2 DEF Classified
  <2>6. QED
    BY <1>3, <2>2, <2>3, <2>4, <2>5
<1>14. QED
  BY <1>6, <1>11, <1>12, <1>13 DEF OpsInv, OperationsOK

\* Who settled leaves nothing behind.
LEMMA SettleKeeps ==
  ASSUME TypeOK, AttemptsAreAccounted, OpsInv, NEW o \in Operation, SettleFinish(o)
  PROVE  OpsInv'
<1>1. /\ pc[o] = "settling" /\ state' = Idle /\ run' = NewRun /\ leaf' = "other"
      /\ pc' = [pc EXCEPT ![o] = "drain"] /\ pc \in [Operation -> Places]
  BY TypeParts DEF SettleFinish, reduceSettleFinish, Goto
<1>2. \A p \in Operation : pc'[p] \notin ActivePlaces \cup {"settling"}
  BY <1>1, Alone, PlacesApart DEF OpsInv
<1>3. state'.tag = "idle"
  BY <1>1, IdleFields
<1>4. PlacesOK'
  BY <1>2, <1>3 DEF PlacesOK, Active, SettleFinishLegal
<1>5. \A p \in Operation : (StageAt(p) /\ VerdictAt(p) /\ LeafAt(p))'
  BY <1>2 DEF StageAt, VerdictAt, LeafAt, ActivePlaces, AttemptPlaces, AfterAttempt, Recovering, Ending
<1>6. IdleOK' /\ OutcomeOK' /\ CompletedIsEarned'
  BY <1>1, <1>3 DEF IdleOK, OutcomeOK, CompletedIsEarned, NewRun
<1>7. QED
  BY <1>4, <1>5, <1>6 DEF OpsInv, OperationsOK

\* Every step keeps the invariant of the operations.
LEMMA NextOps ==
  ASSUME TypeOK, AttemptsAreAccounted, OpsInv, [Next]_vars
  PROVE  OpsInv'
<1>1. Elsewhere(pc) /\ pc \in [Operation -> Places] /\ commands \in Seq(Command)
  BY TypeParts DEF Elsewhere
<1>2. ASSUME NEW o \in Operation, pc[o] \in {"new", "drain"}
      PROVE  Elsewhere([pc EXCEPT ![o] = "done"])
  BY <1>1, <1>2 DEF Elsewhere, Places
<1>3. ASSUME NEW o \in Operation, Body(o) PROVE OpsInv'
  <2>1. CASE pc[o] \in ActivePlaces /\ ~ FinalFlushed(o)
    BY <1>3, <2>1, Enter, InsideSteps, StayInside
  <2>2. CASE FinalFlushed(o)
    BY <2>2, FinalKeeps
  <2>3. CASE SettleFinish(o)
    BY <2>3, SettleKeeps
  <2>4. CASE Drain(o)
    BY <1>1, <1>2, <2>4, DrainKeeps DEF Drain
  <2>5. pc[o] \in ActivePlaces \/ SettleFinish(o) \/ Drain(o)
    BY <1>3 DEF Body, Started, BeginAttempt, Answered, LoopThrows, ReportFailure, ReportFails,
         TurnEnd, TurnFlushed, TurnOver, NextFlushed, Prepare, EndFlushed, AgentEndFails, EndAttempt,
         AttemptFlushed, Recover, MoveBack, Compact, Unrecovered, Restore, StructureEnds, CommitBegins,
         Commit, Finish, FinalFlushed, ActivePlaces, AttemptPlaces, AfterAttempt, Recovering, Ending
  <2>6. QED
    BY <2>1, <2>2, <2>3, <2>4, <2>5
<1>4. ASSUME NEW o \in Operation, runOperation(o) PROVE OpsInv'
  <2>1. CASE BeginOperation(o, pc)
    BY <1>1, <1>4, <2>1, BeginKeeps DEF runOperation
  <2>2. CASE Goto(o, "done") /\ UNCHANGED state
    BY <1>2, <1>4, <2>2, ElsewhereKeeps DEF runOperation, Goto, own
  <2>3. QED
    BY <1>4, <2>1, <2>2 DEF runOperation
<1>5. ASSUME NEW c \in Command, runWhenIdle(c) PROVE OpsInv'
  <2>1. Append(commands, c) \in Seq(Command)
    BY <1>1
  <2>2. QED
    BY <1>1, <1>5, <2>1, DrainKeeps DEF runWhenIdle
<1>6. ASSUME NEW c \in Command, CommandEnds(c) PROVE OpsInv'
  BY <1>1, <1>6, DrainLoopKeeps DEF CommandEnds
<1>7. ASSUME NEW c \in Command, cancel(c) PROVE OpsInv'
  BY <1>1, <1>7, ElsewhereKeeps DEF cancel, own
<1>8. ASSUME Write \/ setModel PROVE OpsInv'
  <2>1. writes'.due = writes.due /\ UNCHANGED <<state, pc, run, leaf>>
    BY <1>8 DEF Write, setModel, TypeOK
  <2>2. QED
    BY <1>1, <2>1, ElsewhereKeeps
<1>9. ASSUME requestAbort PROVE OpsInv'
  <2>1. /\ state.tag = "active" /\ state'.abortRequested
        /\ state'.tag = state.tag /\ state'.operation = state.operation
        /\ state'.stage = state.stage /\ state'.attempt = state.attempt
        /\ state'.attempts = state.attempts
    BY <1>9 DEF requestAbort, reduceAbortRequest, Active, TypeOK, LifecycleTypeOK
  <2>2. UNCHANGED <<pc, run, leaf, writes>>
    BY <1>9 DEF requestAbort, own
  <2>3. QED
    BY <1>1, <2>1, <2>2, ElsewhereKeeps
<1>10. ASSUME UNCHANGED vars PROVE OpsInv'
  BY <1>1, <1>10, ElsewhereKeeps DEF vars, own
<1>11. QED
  BY <1>3, <1>4, <1>5, <1>6, <1>7, <1>8, <1>9, <1>10 DEF Next

-------------------------------------------------------------------------------
(* The queue of deferred commands. *)

\* A queue of distinct commands that have a status.
Lined(queue, statuses) ==
  /\ queue \in Seq(Command)
  /\ statuses \in [Command -> {"new", "queued", "running", "done"}]
  /\ \A i \in 1..Len(queue) : statuses[queue[i]] = "queued"
  /\ \A i, j \in 1..Len(queue) : i # j => queue[i] # queue[j]

\* A drain from its head, where no command runs.
LEMMA DrainLoopQueue ==
  ASSUME NEW places, NEW queue, NEW statuses, Lined(queue, statuses),
         \A c \in Command : statuses[c] # "running", drainLoop(places, queue, statuses)
  PROVE  QueueOK'
<1>1. CASE MayStart(queue)
  <2> DEFINE first == Head(queue)
  <2>1. queue # <<>> /\ draining' = TRUE /\ commands' = Tail(queue)
          /\ status' = [statuses EXCEPT ![first] = "running"]
    BY <1>1 DEF drainLoop, MayStart
  <2>2. /\ queue \in Seq(Command)
        /\ statuses \in [Command -> {"new", "queued", "running", "done"}]
    BY DEF Lined
  <2>3. /\ first = queue[1] /\ first \in Command /\ Len(queue) \in Nat /\ 1 \in 1..Len(queue)
        /\ Len(commands') = Len(queue) - 1
        /\ \A i \in 1..Len(commands') : commands'[i] = queue[i + 1] /\ i + 1 \in 1..Len(queue)
        /\ \A i \in 1..Len(commands') : queue[i + 1] \in Command
    BY <2>1, <2>2
  <2> HIDE DEF first
  <2>4. status'[first] = "running" /\ \A c \in Command : c # first => status'[c] = statuses[c]
    BY <2>1, <2>2, <2>3
  <2>5. \A i \in 1..Len(commands') : commands'[i] # first /\ status'[commands'[i]] = "queued"
    <3> TAKE i \in 1..Len(commands')
    <3>1. i + 1 \in 1..Len(queue) /\ i + 1 # 1 /\ commands'[i] = queue[i + 1] /\ queue[i + 1] \in Command
      BY <2>3
    <3>2. queue[i + 1] # queue[1] /\ statuses[queue[i + 1]] = "queued"
      BY <2>3, <3>1 DEF Lined
    <3>3. QED
      BY <2>3, <2>4, <3>1, <3>2
  <2>6. \A i, j \in 1..Len(commands') : i # j => commands'[i] # commands'[j]
    <3> TAKE i, j \in 1..Len(commands')
    <3> HAVE i # j
    <3>1. i + 1 # j + 1
      BY <2>3
    <3>2. QED
      BY <2>3, <3>1 DEF Lined
  <2>7. QED
    BY <2>1, <2>3, <2>4, <2>5, <2>6 DEF QueueOK
<1>2. CASE ~ MayStart(queue)
  BY <1>2 DEF drainLoop, QueueOK, Lined
<1>3. QED
  BY <1>1, <1>2

\* A drain when a command has been registered, or an operation has ended.
LEMMA DrainQueue ==
  ASSUME QueueOK, NEW places, NEW queue, NEW statuses, Lined(queue, statuses),
         \A c \in Command : statuses[c] = "running" <=> status[c] = "running",
         drain(places, queue, statuses)
  PROVE  QueueOK'
<1>1. CASE draining
  BY <1>1 DEF drain, QueueOK, Lined
<1>2. CASE ~ draining
  BY <1>2, DrainLoopQueue DEF drain, QueueOK
<1>3. QED
  BY <1>1, <1>2

\* The queue as it is.
LEMMA QueueLined == TypeOK /\ QueueOK => Lined(commands, status)
  BY DEF TypeOK, QueueOK, Lined

\* Every step keeps the queue in line.
LEMMA NextQueue ==
  ASSUME TypeOK, QueueOK, [Next]_vars
  PROVE  QueueOK'
<1>1. /\ commands \in Seq(Command) /\ Len(commands) \in Nat
      /\ status \in [Command -> {"new", "queued", "running", "done"}]
      /\ Lined(commands, status)
  BY QueueLined DEF TypeOK
<1>2. deferred' = deferred => QueueOK'
  BY DEF deferred, QueueOK
<1>3. ASSUME NEW o \in Operation, Body(o) PROVE QueueOK'
  BY <1>1, <1>2, <1>3, BodyLeaves, DrainQueue DEF Drain
<1>4. ASSUME NEW c \in Command, runWhenIdle(c) PROVE QueueOK'
  <2> DEFINE queue == Append(commands, c)
             statuses == [status EXCEPT ![c] = "queued"]
  <2>1. status[c] = "new" /\ drain(pc, queue, statuses)
    BY <1>4 DEF runWhenIdle
  <2>2. /\ queue \in Seq(Command) /\ Len(queue) = Len(commands) + 1 /\ queue[Len(commands) + 1] = c
        /\ \A i \in 1..Len(commands) : queue[i] = commands[i] /\ commands[i] \in Command
        /\ \A i \in 1..Len(queue) : i \in 1..Len(commands) \/ i = Len(commands) + 1
    BY <1>1
  <2>3. /\ statuses \in [Command -> {"new", "queued", "running", "done"}]
        /\ statuses[c] = "queued" /\ \A d \in Command : d # c => statuses[d] = status[d]
    BY <1>1
  <2> HIDE DEF queue, statuses
  <2>4. \A i \in 1..Len(commands) : commands[i] # c
    BY <1>1, <2>1 DEF Lined
  <2>5. Lined(queue, statuses)
    BY <1>1, <2>2, <2>3, <2>4 DEF Lined
  <2>6. \A d \in Command : statuses[d] = "running" <=> status[d] = "running"
    BY <2>1, <2>3
  <2>7. QED
    BY <2>1, <2>5, <2>6, DrainQueue
<1>5. ASSUME NEW c \in Command, cancel(c) PROVE QueueOK'
  <2>1. PICK i \in DOMAIN commands : commands[i] = c /\ commands' = Without(commands, i)
    BY <1>5 DEF cancel
  <2>2. /\ status[c] = "queued" /\ status' = [status EXCEPT ![c] = "done"] /\ draining' = draining
    BY <1>5 DEF cancel
  <2>3. /\ i \in 1..Len(commands) /\ Len(commands') = Len(commands) - 1
        /\ \A k \in 1..Len(commands') :
             commands'[k] = IF k < i THEN commands[k] ELSE commands[k + 1]
    <3>1. /\ Len(Without(commands, i)) = Len(commands) - 1
          /\ \A k \in 1..(Len(commands) - 1) :
               Without(commands, i)[k] = IF k < i THEN commands[k] ELSE commands[k + 1]
      BY <1>1, WithoutType
    <3>2. i \in 1..Len(commands)
      BY <1>1
    <3>3. QED
      BY <2>1, <3>1, <3>2
  <2>4. \A k \in 1..Len(commands') :
          \E m \in 1..Len(commands) : m # i /\ commands'[k] = commands[m] /\ m = IF k < i THEN k ELSE k + 1
    <3> TAKE k \in 1..Len(commands')
    <3>1. CASE k < i
      BY <1>1, <2>3, <3>1
    <3>2. CASE ~ k < i
      <4>1. k + 1 \in 1..Len(commands) /\ k + 1 # i
        BY <1>1, <2>3, <3>2
      <4>2. QED
        BY <2>3, <3>2, <4>1
    <3>3. QED
      BY <3>1, <3>2
  <2>5. \A m \in 1..Len(commands) : m # i => status'[commands[m]] = "queued"
    BY <1>1, <2>1, <2>2, <2>3 DEF Lined
  <2>6. \A k \in 1..Len(commands') : status'[commands'[k]] = "queued"
    BY <2>4, <2>5
  <2>7. \A k, n \in 1..Len(commands') : k # n => commands'[k] # commands'[n]
    <3> TAKE k, n \in 1..Len(commands')
    <3> HAVE k # n
    <3>1. PICK m \in 1..Len(commands) : commands'[k] = commands[m] /\ m = IF k < i THEN k ELSE k + 1
      BY <2>4
    <3>2. PICK p \in 1..Len(commands) : commands'[n] = commands[p] /\ p = IF n < i THEN n ELSE n + 1
      BY <2>4
    <3>3. m # p
      BY <1>1, <2>3, <3>1, <3>2
    <3>4. QED
      BY <1>1, <3>1, <3>2, <3>3 DEF Lined
  <2>8. \A d \in Command : status'[d] = "running" <=> status[d] = "running"
    BY <1>1, <2>2
  <2>9. QED
    BY <2>2, <2>6, <2>7, <2>8 DEF QueueOK
<1>6. ASSUME NEW c \in Command, CommandEnds(c) PROVE QueueOK'
  <2> DEFINE statuses == [status EXCEPT ![c] = "done"]
  <2>1. status[c] = "running" /\ drainLoop(pc, commands, statuses)
    BY <1>6 DEF CommandEnds
  <2>2. /\ statuses \in [Command -> {"new", "queued", "running", "done"}]
        /\ statuses[c] = "done" /\ \A d \in Command : d # c => statuses[d] = status[d]
    BY <1>1
  <2> HIDE DEF statuses
  <2>3. \A d \in Command : statuses[d] # "running"
    BY <2>1, <2>2 DEF QueueOK
  <2>4. \A i \in 1..Len(commands) : commands[i] \in Command /\ commands[i] # c
    BY <1>1, <2>1 DEF Lined
  <2>5. Lined(commands, statuses)
    BY <1>1, <2>2, <2>4 DEF Lined
  <2>6. QED
    BY <2>1, <2>3, <2>5, DrainLoopQueue
<1>7. ASSUME NEW o \in Operation, runOperation(o) PROVE QueueOK'
  BY <1>2, <1>7 DEF runOperation
<1>8. ASSUME Write \/ setModel \/ requestAbort \/ UNCHANGED vars PROVE QueueOK'
  BY <1>2, <1>8 DEF Write, setModel, requestAbort, vars
<1>9. QED
  BY <1>3, <1>4, <1>5, <1>6, <1>7, <1>8 DEF Next

-------------------------------------------------------------------------------
(* The theorems. *)

IInv == TypeOK /\ AttemptsAreAccounted /\ OpsInv /\ QueueOK

\* The invariant holds at first.
LEMMA InitInvariant == Init => IInv
<1> SUFFICES ASSUME Init PROVE IInv
  OBVIOUS
<1>1. LifecycleTypeOK /\ AttemptsAreAccounted
  BY LifecycleFirst DEF Init
<1>2. TypeOK
  <2>1. pc \in [Operation -> Places]
    BY DEF Init, Places
  <2>2. <<>> \in Seq(Command)
    OBVIOUS
  <2>3. writes \in [pending : Nat, due : Nat] /\ writes.due <= writes.pending
    BY DEF Init
  <2>4. /\ run \in RunType /\ leaf \in {"other", "answer", "parent"} /\ model \in {"small", "large"}
        /\ commands \in Seq(Command) /\ draining \in BOOLEAN
        /\ status \in [Command -> {"new", "queued", "running", "done"}]
    BY <2>2, NewRunType DEF Init
  <2>5. QED
    BY <1>1, <2>1, <2>3, <2>4, TypeParts
<1>3. state = Idle /\ run = NewRun /\ leaf = "other" /\ \A o \in Operation : pc[o] = "new"
  BY DEF Init, LifecycleInit
<1>4. \A o \in Operation : pc[o] \notin ActivePlaces \cup {"settling"}
  BY <1>3, PlacesApart
<1>5. PlacesOK
  BY <1>3, <1>4, IdleFields DEF PlacesOK, Active, SettleFinishLegal
<1>6. OperationsOK
  BY <1>4 DEF OperationsOK, StageAt, VerdictAt, LeafAt, ActivePlaces, AttemptPlaces, AfterAttempt,
              Recovering, Ending
<1>7. IdleOK /\ OutcomeOK /\ CompletedIsEarned
  BY <1>3, IdleFields DEF IdleOK, OutcomeOK, CompletedIsEarned, NewRun
<1>8. QueueOK
  <2>1. Len(commands) = 0 /\ draining = FALSE /\ \A c \in Command : status[c] = "new"
    BY DEF Init
  <2>2. QED
    BY <2>1 DEF QueueOK
<1>9. QED
  BY <1>1, <1>2, <1>5, <1>6, <1>7, <1>8 DEF IInv, OpsInv

\* Every step keeps the invariant.
LEMMA NextInvariant == IInv /\ [Next]_vars => IInv'
<1> SUFFICES ASSUME IInv, [Next]_vars PROVE IInv'
  OBVIOUS
<1>1. TypeOK /\ AttemptsAreAccounted /\ OpsInv /\ QueueOK /\ LifecycleTypeOK
  BY DEF IInv, TypeOK
<1>2. AttemptsAreAccounted'
  BY <1>1, StepCommands, LifecycleNextAccounts
<1>3. QED
  BY <1>1, <1>2, NextType, NextOps, NextQueue DEF IInv

\* The invariant holds throughout.
LEMMA Invariant == Spec => []IInv
  BY InitInvariant, NextInvariant, PTL DEF Spec

\* The variables of the harness keep their types.
THEOREM HarnessTypeCorrect == Spec => []TypeOK
  BY Invariant, PTL DEF IInv

\* Everything the harness does to the lifecycle it does through commands the
\* reducer accepts: its executions are executions of the lifecycle.
THEOREM HarnessObeysLifecycle == Spec => Lifecycle
<1>1. Init => LifecycleInit
  BY DEF Init
<1>2. TypeOK /\ [Next]_vars => [LifecycleNext]_state
  BY StepCommands
<1>3. QED
  BY <1>1, <1>2, HarnessTypeCorrect, PTL DEF Spec, Lifecycle

\* At every place of every body the lifecycle accepts the command that comes next,
\* but for a recovery that is judged by two models.
THEOREM HarnessCommandsAccepted == Spec => []OwnCommandsAccepted
<1>1. IInv => OwnCommandsAccepted
  <2> SUFFICES ASSUME IInv, NEW o \in Operation
               PROVE  /\ pc[o] = "attempt" => AttemptBeginLegal(o, "initial")
                      /\ pc[o] = "retry" => AttemptBeginLegal(o, "context_overflow_recovery")
                      /\ pc[o] \in {"turn", "endAttempt"} => AttemptEndLegal(o)
                      /\ pc[o] = "structural" => StageLegal(o, "committing")
                      /\ pc[o] = "moveBack" => StageLegal(o, "recovering_overflow") \/ ModelChangedUnderAnswer
                      /\ pc[o] \in {"finish", "finalFlush"} => SettleBeginLegal(o)
                      /\ pc[o] = "settling" => SettleFinishLegal(o)
    BY DEF OwnCommandsAccepted
  <2>1. TypeOK /\ AttemptsAreAccounted /\ OpsInv /\ run \in RunType
    BY TypeParts DEF IInv
  <2>2. CASE pc[o] \in ActivePlaces
    <3>1. Inside(o)
      BY <2>1, <2>2, Enter
    <3>2. Active(o)
      BY <3>1 DEF Inside, Active
    <3>3. pc[o] = "attempt" => AttemptBeginLegal(o, "initial")
      BY <3>1, <3>2 DEF Inside, StageAt, AttemptBeginLegal, ActivePlaces, AttemptPlaces
    <3>4. pc[o] = "retry" => AttemptBeginLegal(o, "context_overflow_recovery")
      BY <2>1, <3>1, <3>2 DEF Inside, StageAt, AttemptBeginLegal, ActivePlaces, AttemptPlaces, Recovering,
                              AttemptsAreAccounted, lastAttemptOverflowed
    <3>5. pc[o] \in {"turn", "endAttempt"} => AttemptEndLegal(o)
      BY <2>1, <3>1, <3>2 DEF Inside, StageAt, AttemptEndLegal, ActivePlaces, AttemptPlaces,
                              AttemptsAreAccounted
    <3>6. pc[o] = "structural" => StageLegal(o, "committing")
      BY <3>1, <3>2 DEF Inside, StageAt, StageLegal, isLegalStageMove
    <3>7. pc[o] = "moveBack" => StageLegal(o, "recovering_overflow") \/ ModelChangedUnderAnswer
      <4>1. SUFFICES ASSUME pc[o] = "moveBack", ~ ModelChangedUnderAnswer
                     PROVE  StageLegal(o, "recovering_overflow")
        OBVIOUS
      <4>2. /\ state.attempts # <<>> /\ state.attempts[Len(state.attempts)] = Classified
            /\ run.bodyError = "none" /\ run.answer \in {"overflow", "long"} /\ run.turnModel # "none"
            /\ state.stage = "preparing" /\ isPromptFamily(o) /\ ~ state.attempt /\ state.operation = o
        BY <3>1, <4>1 DEF Inside, StageAt, VerdictAt, ActivePlaces, AttemptPlaces, AfterAttempt
      <4>3. Classified = "overflow"
        BY <2>1, <4>1, <4>2 DEF Classified, Overflows, ModelChangedUnderAnswer, RunType
      <4>4. QED
        BY <3>2, <4>2, <4>3 DEF StageLegal, isLegalStageMove, lastAttemptOverflowed
    <3>8. pc[o] \in {"finish", "finalFlush"} => SettleBeginLegal(o)
      BY <3>1, <3>2 DEF Inside, StageAt, SettleBeginLegal, ActivePlaces, AttemptPlaces, Ending
    <3>9. pc[o] # "settling"
      BY <2>2, PlacesApart
    <3>10. QED
      BY <3>3, <3>4, <3>5, <3>6, <3>7, <3>8, <3>9
  <2>3. CASE pc[o] \notin ActivePlaces
    BY <2>1, <2>3 DEF OpsInv, PlacesOK, ActivePlaces, AttemptPlaces, AfterAttempt, Recovering, Ending
  <2>4. QED
    BY <2>2, <2>3
<1>2. QED
  BY <1>1, Invariant, PTL

\* An operation settles with the session's leaf before its answer only when the
\* leaf could not be moved back or the model was changed under the answer.
THEOREM LeafIsKept == Spec => []RecoveryKeepsLeaf
<1>1. IInv => RecoveryKeepsLeaf
  <2> SUFFICES ASSUME IInv, state.tag = "settling", leaf = "parent"
               PROVE  run.unrestored \/ ModelChangedUnderAnswer
    BY DEF RecoveryKeepsLeaf
  <2>1. state.operation \in Operation
    BY LifecycleAssumption DEF IInv, TypeOK, LifecycleTypeOK, AttemptsAreAccounted
  <2>2. pc[state.operation] = "settling" /\ LeafAt(state.operation)
    BY <2>1 DEF IInv, OpsInv, PlacesOK, OperationsOK, SettleFinishLegal
  <2>3. QED
    BY <2>2 DEF LeafAt
<1>2. QED
  BY <1>1, Invariant, PTL

\* A completed operation has persisted what was accepted before its final flush,
\* and neither failed in its last attempt nor was aborted (settle).
THEOREM CompletionIsEarned == Spec => []CompletedIsEarned
  BY Invariant, PTL DEF IInv, OpsInv

-------------------------------------------------------------------------------
(* Operations and deferred commands take turns. *)

RunningCommands == {c \in Command : status[c] = "running"}

\* A drain starts the first command, or does nothing but end.
LEMMA DrainLoopTurns ==
  ASSUME IInv, NEW places, NEW queue, NEW statuses,
         Lined(queue, statuses), \A c \in Command : statuses[c] # "running",
         queue \in {commands} \cup {Append(commands, c) : c \in Command},
         drainLoop(places, queue, statuses), UNCHANGED own
  PROVE  \/ Turns!Start /\ (Turns!Idling \/ \E o \in Operation : Turns!Begin(o))
         \/ UNCHANGED state /\ commands' = queue /\ RunningCommands' = {}
<1>1. CASE MayStart(queue)
  <2> DEFINE first == Head(queue)
  <2>1. /\ queue # <<>> /\ state.tag = "idle" /\ commands' = Tail(queue)
        /\ status' = [statuses EXCEPT ![first] = "running"]
        /\ \/ \E o \in Operation : reduceBegin(o)
           \/ UNCHANGED state
    <3>1. Head(queue) \in Command
      BY <1>1 DEF MayStart, Lined
    <3>2. Starts[Head(queue)] \in Operation \cup {NoOperation}
      BY <3>1, HarnessAssumption
    <3>3. QED
      BY <1>1, <3>2 DEF drainLoop, MayStart, BeginOperation
  <2>2. first \in Command /\ statuses \in [Command -> {"new", "queued", "running", "done"}]
    BY <2>1 DEF Lined
  <2>3. RunningCommands' = {first}
    BY <2>1, <2>2 DEF RunningCommands
  <2>4. state = Idle /\ state.operation = NoOperation /\ UNCHANGED run
    BY <2>1, IdleFields DEF IInv, OpsInv, IdleOK, own
  <2>5. Turns!Start
    BY <2>1, <2>3, <2>4 DEF Turns!Start, RunningCommands
  <2>6. UNCHANGED state => Turns!Idling
    BY <2>4 DEF Turns!Idling
  <2>7. ASSUME NEW o \in Operation, reduceBegin(o) PROVE Turns!Begin(o)
    <3>1. state'.operation = o /\ state'.abortRequested = state.abortRequested
      BY <2>4, <2>7, IdleFields DEF reduceBegin, Idle
    <3>2. QED
      BY <2>4, <3>1 DEF Turns!Begin
  <2>8. QED
    BY <2>1, <2>5, <2>6, <2>7
<1>2. CASE ~ MayStart(queue)
  BY <1>2 DEF drainLoop, RunningCommands
<1>3. QED
  BY <1>1, <1>2

\* A step inside of a body does not touch the abort of the operation.
LEMMA InsideKeepsAbort ==
  ASSUME TypeOK, NEW o \in Operation, Inside(o), Body(o), ~ FinalFlushed(o)
  PROVE  state'.abortRequested = state.abortRequested
<1>1. ~ SettleFinish(o) /\ ~ Drain(o)
  BY DEF Inside, SettleFinish, Drain, ActivePlaces, AttemptPlaces, AfterAttempt, Recovering, Ending
<1>2. \/ UNCHANGED state
      \/ \E to \in Stages : reduceStage(o, to)
      \/ \E reason \in {"initial", "context_overflow_recovery"} : reduceAttemptBegin(o, reason)
      \/ reduceAttemptEnd(o, Classified)
  <2>1. {"structural_running", "save_point", "attempt_running", "recovering_overflow", "committing"}
          \subseteq Stages
    BY DEF Stages
  <2>2. ASSUME Started(o) \/ TurnFlushed(o) \/ NextFlushed(o) \/ MoveBack(o) \/ CommitBegins(o)
        PROVE  UNCHANGED state \/ \E to \in Stages : reduceStage(o, to)
    BY <2>1, <2>2 DEF Started, TurnFlushed, SavePoint, NextFlushed, MoveBack, CommitBegins
  <2>3. QED
    BY <1>1, <2>2 DEF Body, BeginAttempt, Answered, LoopThrows, ReportFailure, ReportFails,
         TurnEnd, TurnOver, Prepare, EndFlushed, AgentEndFails, EndAttempt, AttemptFlushed, Recover,
         Compact, Unrecovered, Restore, StructureEnds, Commit, Finish
<1>3. QED
  BY <1>2, StageEffect, AttemptBeginEffect, AttemptEndEffect, ClassifiedType DEF TypeOK

\* An operation whose final flush is over decides.
LEMMA FinalDecides ==
  ASSUME IInv, NEW o \in Operation, FinalFlushed(o)
  PROVE  Turns!Decide(o)
<1>1. /\ OpsInv /\ run \in RunType /\ LifecycleTypeOK
  BY TypeParts DEF IInv
<1>2. Inside(o)
  BY <1>1, Enter DEF FinalFlushed, ActivePlaces, Ending
<1>3. state'.operation = state.operation /\ state'.abortRequested = state.abortRequested
  BY <1>1 DEF FinalFlushed, reduceSettleBegin, LifecycleTypeOK
<1>4. PICK b \in BOOLEAN : run' = [run EXCEPT !.outcome = resolveOperationOutcome(b)]
  BY DEF FinalFlushed
<1>5. run'.outcome = resolveOperationOutcome(b)
  BY <1>1, <1>4 DEF RunType
<1>6. /\ resolveOperationOutcome(b) \in {"completed", "aborted", "cancelled", "failed"}
      /\ resolveOperationOutcome(b) = "completed" => ~ state.abortRequested
  BY <1>1, <1>2 DEF resolveOperationOutcome, RunType, Inside
<1>7. UNCHANGED deferred
  BY DEF FinalFlushed, BodyOnly
<1>8. UNCHANGED <<commands, RunningCommands>>
  BY <1>7 DEF deferred, RunningCommands
<1>9. QED
  BY <1>2, <1>3, <1>5, <1>6, <1>8 DEF Turns!Decide, Inside, RunningCommands

\* Every step of the harness is a step of taking turns, or none.
LEMMA StepTakesTurns ==
  ASSUME IInv, [Next]_vars
  PROVE  [Turns!Next]_(Turns!vars)
<1>1. /\ TypeOK /\ OpsInv /\ QueueOK /\ AttemptsAreAccounted /\ LifecycleTypeOK /\ run \in RunType
      /\ commands \in Seq(Command) /\ Lined(commands, status)
      /\ status \in [Command -> {"new", "queued", "running", "done"}]
  BY TypeParts, QueueLined DEF IInv
<1> DEFINE Rest == /\ state'.operation = state.operation
                   /\ state'.abortRequested = state.abortRequested
                   /\ run'.outcome = run.outcome
           Goal == Turns!Next \/ UNCHANGED Turns!vars
<1>2. ASSUME Rest, deferred' = deferred PROVE Goal
  BY <1>2 DEF Turns!vars, deferred
<1>3. ASSUME NEW o \in Operation, Inside(o), Body(o), ~ FinalFlushed(o) PROVE Goal
  <2>1. Inside(o)'
    BY <1>1, <1>3, InsideSteps
  <2>2. state'.abortRequested = state.abortRequested
    BY <1>1, <1>3, InsideKeepsAbort
  <2>3. deferred' = deferred
    BY <1>3, BodyLeaves DEF Drain, Inside, ActivePlaces, AttemptPlaces, AfterAttempt, Recovering, Ending
  <2>4. QED
    BY <1>2, <1>3, <2>1, <2>2, <2>3 DEF Inside
<1>4. ASSUME NEW o \in Operation, SettleFinish(o) PROVE Turns!Leave(o) /\ UNCHANGED <<commands, RunningCommands>>
  <2>1. state.operation = o /\ run.outcome # "none" /\ state' = Idle /\ run' = NewRun
    BY <1>1, <1>4 DEF SettleFinish, reduceSettleFinish, SettleFinishLegal, OpsInv, OutcomeOK
  <2>2. UNCHANGED <<commands, RunningCommands>>
    BY <1>4 DEF SettleFinish, deferred, RunningCommands
  <2>3. QED
    BY <2>1, <2>2, IdleFields DEF Turns!Leave, NewRun
<1>5. ASSUME NEW places, drain(places, commands, status), UNCHANGED own PROVE Goal
  <2>1. CASE draining
    BY <1>2, <1>5, <2>1 DEF drain, own, deferred
  <2>2. CASE ~ draining
    <3>1. \A c \in Command : status[c] # "running"
      BY <1>1, <2>2 DEF QueueOK
    <3>2. \/ Turns!Start /\ (Turns!Idling \/ \E o \in Operation : Turns!Begin(o))
          \/ UNCHANGED state /\ commands' = commands /\ RunningCommands' = {}
      BY <1>1, <1>5, <2>2, <3>1, DrainLoopTurns DEF drain
    <3>3. RunningCommands = {}
      BY <3>1 DEF RunningCommands
    <3>4. QED
      BY <1>5, <3>2, <3>3 DEF Turns!Next, Turns!vars, own, RunningCommands
  <2>3. QED
    BY <2>1, <2>2
<1>6. ASSUME NEW o \in Operation, Body(o) PROVE Goal
  <2>1. CASE pc[o] \in ActivePlaces /\ ~ FinalFlushed(o)
    BY <1>1, <1>3, <1>6, <2>1, Enter
  <2>2. CASE FinalFlushed(o)
    BY <2>2, FinalDecides DEF Turns!Next
  <2>3. CASE SettleFinish(o)
    BY <1>4, <2>3 DEF Turns!Next, RunningCommands
  <2>4. CASE Drain(o)
    BY <1>5, <2>4 DEF Drain
  <2>5. pc[o] \in ActivePlaces \/ SettleFinish(o) \/ Drain(o)
    BY <1>6 DEF Body, Started, BeginAttempt, Answered, LoopThrows, ReportFailure, ReportFails,
         TurnEnd, TurnFlushed, TurnOver, NextFlushed, Prepare, EndFlushed, AgentEndFails, EndAttempt,
         AttemptFlushed, Recover, MoveBack, Compact, Unrecovered, Restore, StructureEnds, CommitBegins,
         Commit, Finish, FinalFlushed, ActivePlaces, AttemptPlaces, AfterAttempt, Recovering, Ending
  <2>6. QED
    BY <2>1, <2>2, <2>3, <2>4, <2>5
<1>7. ASSUME NEW o \in Operation, runOperation(o) PROVE Goal
  <2>1. CASE UNCHANGED state
    BY <1>2, <1>7, <2>1 DEF runOperation, own
  <2>2. CASE BeginOperation(o, pc)
    <3>1. state = Idle /\ state' = [Idle EXCEPT !.tag = "active", !.operation = o]
      BY <1>1, <2>2 DEF BeginOperation, reduceBegin, OpsInv, IdleOK
    <3>2. state.operation = NoOperation /\ state'.operation = o /\ state'.abortRequested = state.abortRequested
      BY <3>1 DEF Idle
    <3>3. UNCHANGED <<run, commands, RunningCommands>>
      BY <1>7 DEF runOperation, own, deferred, RunningCommands
    <3>4. QED
      BY <3>2, <3>3 DEF Turns!Next, Turns!Begin, RunningCommands
  <2>3. QED
    BY <1>7, <2>1, <2>2 DEF runOperation
<1>8. ASSUME NEW c \in Command, runWhenIdle(c) PROVE Goal
  <2> DEFINE queue == Append(commands, c)
             statuses == [status EXCEPT ![c] = "queued"]
  <2>1. status[c] = "new" /\ drain(pc, queue, statuses) /\ UNCHANGED own
    BY <1>8 DEF runWhenIdle
  <2>2. /\ statuses \in [Command -> {"new", "queued", "running", "done"}]
        /\ statuses[c] = "queued" /\ \A d \in Command : d # c => statuses[d] = status[d]
    BY <1>1
  <2>3. \A d \in Command : statuses[d] = "running" <=> status[d] = "running"
    BY <2>1, <2>2
  <2>4. Lined(queue, statuses)
    <3>1. /\ queue \in Seq(Command) /\ Len(queue) = Len(commands) + 1 /\ queue[Len(commands) + 1] = c
          /\ \A i \in 1..Len(commands) : queue[i] = commands[i] /\ commands[i] \in Command
          /\ \A i \in 1..Len(queue) : i \in 1..Len(commands) \/ i = Len(commands) + 1
          /\ Len(commands) \in Nat
      BY <1>1
    <3> HIDE DEF queue, statuses
    <3>2. \A i \in 1..Len(commands) : commands[i] # c
      BY <1>1, <2>1 DEF Lined
    <3>3. QED
      BY <1>1, <2>2, <3>1, <3>2 DEF Lined
  <2>5. CASE draining
    <3>1. commands' = queue /\ status' = statuses /\ UNCHANGED <<state, run>>
      BY <2>1, <2>5 DEF drain, own
    <3>2. RunningCommands' = RunningCommands
      BY <2>3, <3>1 DEF RunningCommands
    <3>3. Turns!Register(c)
      BY <3>1, <3>2 DEF Turns!Register, Turns!Idling, RunningCommands
    <3>4. QED
      BY <3>3 DEF Turns!Next
  <2>6. CASE ~ draining
    <3>1. \A d \in Command : status[d] # "running" /\ statuses[d] # "running"
      BY <1>1, <2>3, <2>6 DEF QueueOK
    <3>2. \/ Turns!Start /\ (Turns!Idling \/ \E o \in Operation : Turns!Begin(o))
          \/ UNCHANGED state /\ commands' = queue /\ RunningCommands' = {}
      <4>1. drainLoop(pc, queue, statuses)
        BY <2>1, <2>6 DEF drain
      <4>2. queue \in {commands} \cup {Append(commands, d) : d \in Command}
        OBVIOUS
      <4> HIDE DEF queue, statuses
      <4>3. QED
        BY <2>1, <2>4, <3>1, <4>1, <4>2, DrainLoopTurns
    <3>3. RunningCommands = {}
      BY <3>1 DEF RunningCommands
    <3>4. CASE UNCHANGED state /\ commands' = queue /\ RunningCommands' = {}
      <4>1. Turns!Register(c)
        BY <2>1, <3>3, <3>4 DEF Turns!Register, Turns!Idling, RunningCommands, own
      <4>2. QED
        BY <4>1 DEF Turns!Next
    <3>5. QED
      BY <3>2, <3>4 DEF Turns!Next
  <2>7. QED
    BY <2>5, <2>6
<1>9. ASSUME NEW c \in Command, cancel(c) PROVE Goal
  <2>1. status[c] = "queued" /\ status' = [status EXCEPT ![c] = "done"]
          /\ UNCHANGED <<state, run>>
          /\ \E i \in DOMAIN commands : commands' = Without(commands, i)
    BY <1>9 DEF cancel, own
  <2>2. RunningCommands' = RunningCommands
    BY <1>1, <2>1 DEF RunningCommands
  <2>3. Turns!Cancel
    BY <2>1, <2>2 DEF Turns!Cancel, Turns!Idling, Without, RunningCommands
  <2>4. QED
    BY <2>3 DEF Turns!Next
<1>10. ASSUME NEW c \in Command, CommandEnds(c) PROVE Goal
  <2> DEFINE statuses == [status EXCEPT ![c] = "done"]
  <2>1. status[c] = "running" /\ drainLoop(pc, commands, statuses) /\ UNCHANGED own
    BY <1>10 DEF CommandEnds
  <2>2. /\ statuses \in [Command -> {"new", "queued", "running", "done"}]
        /\ statuses[c] = "done" /\ \A d \in Command : d # c => statuses[d] = status[d]
    BY <1>1
  <2> HIDE DEF statuses
  <2>3. \A d \in Command : statuses[d] # "running"
    BY <1>1, <2>1, <2>2 DEF QueueOK
  <2>4. \A i \in 1..Len(commands) : commands[i] \in Command /\ commands[i] # c
    BY <1>1, <2>1 DEF Lined
  <2>5. Lined(commands, statuses)
    BY <1>1, <2>2, <2>4 DEF Lined
  <2>6. \/ Turns!Start /\ (Turns!Idling \/ \E o \in Operation : Turns!Begin(o))
        \/ UNCHANGED state /\ commands' = commands /\ RunningCommands' = {}
    BY <2>1, <2>3, <2>5, DrainLoopTurns
  <2>7. RunningCommands = {c}
    BY <1>1, <2>1 DEF RunningCommands, QueueOK
  <2>8. CASE UNCHANGED state /\ commands' = commands /\ RunningCommands' = {}
    <3>1. Turns!End(c)
      BY <2>1, <2>7, <2>8 DEF Turns!End, Turns!Idling, RunningCommands, own
    <3>2. QED
      BY <3>1 DEF Turns!Next
  <2>9. QED
    BY <2>6, <2>8 DEF Turns!Next
<1>11. ASSUME Write \/ setModel \/ UNCHANGED vars PROVE Goal
  BY <1>2, <1>11 DEF Write, setModel, vars, own
<1>12. ASSUME requestAbort PROVE Goal
  <2>1. PICK o \in Operation : reduceAbortRequest(o)
    BY <1>12 DEF requestAbort
  <2>2. /\ state.operation = o /\ state.tag = "active"
        /\ state'.operation = o /\ state'.abortRequested = TRUE
    BY <1>1, <2>1 DEF reduceAbortRequest, Active, LifecycleTypeOK
  <2>3. run.outcome = "none" /\ UNCHANGED <<run, commands, RunningCommands>>
    BY <1>1, <1>12, <2>2 DEF OpsInv, OutcomeOK, requestAbort, own, deferred, RunningCommands
  <2>4. Turns!Stop(o)
    BY <2>2, <2>3 DEF Turns!Stop, RunningCommands
  <2>5. QED
    BY <2>4 DEF Turns!Next
<1>13. Goal
  BY <1>6, <1>7, <1>8, <1>9, <1>10, <1>11, <1>12 DEF Next
<1>14. QED
  BY <1>13

\* One operation at a time, with one outcome each, which is never "completed" when an
\* abort was delivered before it was decided, and the deferred commands in their order
\* and never into an operation (runOperation, drain).
THEOREM HarnessTakesTurns == Spec => TakesTurns
<1>1. Init => Turns!Init
  <2>1. Init => state = Idle /\ run = NewRun /\ commands = <<>> /\ \A c \in Command : status[c] = "new"
    BY DEF Init, LifecycleInit
  <2>2. QED
    BY <2>1, IdleFields DEF Turns!Init, NewRun
<1>2. IInv /\ [Next]_vars => [Turns!Next]_(Turns!vars)
  BY StepTakesTurns
<1>3. QED
  BY <1>1, <1>2, Invariant, PTL DEF Spec, TakesTurns, Turns!Spec

-------------------------------------------------------------------------------
(* What keeps deferred commands from being forgotten. *)

\* A command waits in the queue.
InLine == \A c \in Command : status[c] = "queued" => \E i \in 1..Len(commands) : commands[i] = c

\* A queue is left to somebody: a drain, or an operation that drains it when it ends.
Attended ==
  commands # <<>> => draining \/ state.tag # "idle" \/ \E o \in Operation : pc[o] = "drain"

\* What a drain waits for has begun.
AwaitedHasBegun ==
  \A c \in Command : status[c] = "running" /\ Starts[c] # NoOperation => pc[Starts[c]] # "new"

WaitInv == InLine /\ Attended /\ AwaitedHasBegun

\* A deferred command that waits has somebody to wait for: a command that runs, which
\* has begun what it is to begin, or an operation under way, which will drain the queue.
NoCommandForgotten ==
  \A c \in Command : status[c] = "queued" =>
    \/ \E d \in Command : /\ status[d] = "running"
                          /\ Starts[d] # NoOperation => pc[Starts[d]] # "new"
    \/ \E o \in Operation : pc[o] \notin {"new", "done"}


\* A drain from its head leaves nobody unattended.
LEMMA DrainLoopWaits ==
  ASSUME NEW places \in [Operation -> Places], NEW queue, NEW statuses, Lined(queue, statuses),
         \A c \in Command : statuses[c] = "queued" => \E i \in 1..Len(queue) : queue[i] = c,
         \A c \in Command : statuses[c] # "running",
         drainLoop(places, queue, statuses)
  PROVE  InLine' /\ Attended' /\ AwaitedHasBegun'
<1>1. CASE MayStart(queue)
  <2> DEFINE first == Head(queue)
  <2>1. /\ queue # <<>> /\ draining' = TRUE /\ commands' = Tail(queue)
        /\ status' = [statuses EXCEPT ![first] = "running"]
        /\ Starts[first] # NoOperation => pc' = [places EXCEPT ![Starts[first]] = "started"]
    BY <1>1 DEF drainLoop, MayStart, BeginOperation
  <2>2. /\ queue \in Seq(Command)
        /\ statuses \in [Command -> {"new", "queued", "running", "done"}]
    BY DEF Lined
  <2>3. /\ first = queue[1] /\ first \in Command /\ Len(queue) \in Nat
        /\ Len(commands') = Len(queue) - 1
        /\ \A i \in 1..Len(commands') : commands'[i] = queue[i + 1]
    BY <2>1, <2>2
  <2>4. Starts[first] \in Operation \cup {NoOperation}
    BY <2>3, HarnessAssumption
  <2> HIDE DEF first
  <2>5. status'[first] = "running" /\ \A c \in Command : c # first => status'[c] = statuses[c]
    BY <2>1, <2>2, <2>3
  <2>6. ASSUME NEW c \in Command, status'[c] = "queued"
        PROVE  \E i \in 1..Len(commands') : commands'[i] = c
    <3>1. c # first /\ statuses[c] = "queued"
      BY <2>5, <2>6
    <3>2. PICK i \in 1..Len(queue) : queue[i] = c
      BY <3>1
    <3>3. i # 1
      BY <2>3, <3>1, <3>2
    <3>4. i - 1 \in 1..Len(commands') /\ (i - 1) + 1 = i
      BY <2>3, <3>3
    <3>5. QED
      BY <2>3, <3>2, <3>4
  <2>7. AwaitedHasBegun'
    BY <2>1, <2>4, <2>5 DEF AwaitedHasBegun
  <2>8. QED
    BY <2>1, <2>6, <2>7 DEF InLine, Attended
<1>2. CASE ~ MayStart(queue)
  <2>1. /\ draining' = FALSE /\ commands' = queue /\ status' = statuses /\ UNCHANGED state
    BY <1>2 DEF drainLoop
  <2>2. QED
    BY <1>2, <2>1 DEF MayStart, InLine, Attended, AwaitedHasBegun
<1>3. QED
  BY <1>1, <1>2

\* So does one that may find another going on.
LEMMA DrainWaits ==
  ASSUME QueueOK, WaitInv, NEW places \in [Operation -> Places], NEW queue, NEW statuses,
         Lined(queue, statuses),
         \A c \in Command : statuses[c] = "queued" => \E i \in 1..Len(queue) : queue[i] = c,
         \A c \in Command : statuses[c] = "running" <=> status[c] = "running",
         \A o \in Operation : pc[o] # "new" => places[o] # "new",
         drain(places, queue, statuses)
  PROVE  WaitInv'
<1>1. CASE draining
  <2>1. commands' = queue /\ status' = statuses /\ pc' = places /\ draining' = TRUE
    BY <1>1 DEF drain
  <2>2. AwaitedHasBegun'
    <3> SUFFICES ASSUME NEW c \in Command, status'[c] = "running", Starts[c] # NoOperation
                 PROVE  pc'[Starts[c]] # "new"
      BY DEF AwaitedHasBegun
    <3>1. Starts[c] \in Operation /\ status[c] = "running"
      BY <2>1, HarnessAssumption
    <3>2. QED
      BY <2>1, <3>1 DEF WaitInv, AwaitedHasBegun
  <2>3. QED
    BY <2>1, <2>2 DEF WaitInv, InLine, Attended
<1>2. CASE ~ draining
  BY <1>2, DrainLoopWaits DEF drain, QueueOK, WaitInv
<1>3. QED
  BY <1>1, <1>2

\* A body that ends goes on to drain.
LEMMA BodyWaits ==
  ASSUME IInv, WaitInv, NEW o \in Operation, Body(o), ~ Drain(o)
  PROVE  WaitInv'
<1>1. TypeOK /\ AttemptsAreAccounted /\ OpsInv /\ pc \in [Operation -> Places]
  BY TypeParts DEF IInv
<1>2. deferred' = deferred
  BY BodyLeaves
<1>3. /\ state'.tag # "idle" \/ pc'[o] = "drain"
      /\ \A p \in Operation : pc[p] # "new" => pc'[p] # "new"
      /\ state.tag # "idle"
      /\ \A p \in Operation : p # o => pc'[p] = pc[p]
  <2>1. CASE pc[o] \in ActivePlaces /\ ~ FinalFlushed(o)
    <3>1. Inside(o) /\ Inside(o)' /\ \E label : Goto(o, label)
      BY <1>1, <2>1, Enter, InsideSteps
    <3>2. state.tag = "active" /\ state'.tag = "active" /\ pc'[o] \in ActivePlaces
      BY <3>1 DEF Inside
    <3>3. QED
      BY <1>1, <3>1, <3>2, PlacesApart DEF Goto
  <2>2. CASE FinalFlushed(o)
    <3>1. state.tag = "active" /\ state'.tag = "settling" /\ Goto(o, "settling")
      BY <1>1, <2>2 DEF FinalFlushed, reduceSettleBegin, SettleBeginLegal, Active, TypeOK, LifecycleTypeOK
    <3>2. QED
      BY <1>1, <3>1 DEF Goto
  <2>3. CASE SettleFinish(o)
    <3>1. state.tag = "settling" /\ Goto(o, "drain")
      BY <2>3 DEF SettleFinish, reduceSettleFinish, SettleFinishLegal
    <3>2. QED
      BY <1>1, <3>1 DEF Goto
  <2>4. pc[o] \in ActivePlaces \/ SettleFinish(o)
    BY DEF Body, Started, BeginAttempt, Answered, LoopThrows, ReportFailure, ReportFails,
         TurnEnd, TurnFlushed, TurnOver, NextFlushed, Prepare, EndFlushed, AgentEndFails, EndAttempt,
         AttemptFlushed, Recover, MoveBack, Compact, Unrecovered, Restore, StructureEnds, CommitBegins,
         Commit, Finish, FinalFlushed, ActivePlaces, AttemptPlaces, AfterAttempt, Recovering, Ending
  <2>5. QED
    BY <2>1, <2>2, <2>3, <2>4
<1>4. Attended'
  BY <1>2, <1>3 DEF Attended, deferred
<1>5. AwaitedHasBegun'
  <2> SUFFICES ASSUME NEW c \in Command, status'[c] = "running", Starts[c] # NoOperation
               PROVE  pc'[Starts[c]] # "new"
    BY DEF AwaitedHasBegun
  <2>1. Starts[c] \in Operation /\ status[c] = "running"
    BY <1>2, HarnessAssumption DEF deferred
  <2>2. QED
    BY <1>3, <2>1 DEF WaitInv, AwaitedHasBegun
<1>6. QED
  BY <1>2, <1>4, <1>5 DEF WaitInv, InLine, deferred

\* Every step leaves somebody to attend to the queue.
LEMMA NextWaits == IInv /\ WaitInv /\ [Next]_vars => WaitInv'
<1> SUFFICES ASSUME IInv, WaitInv, [Next]_vars PROVE WaitInv'
  OBVIOUS
<1>0. \A c \in Command : status[c] = "queued" => \E i \in 1..Len(commands) : commands[i] = c
  BY DEF WaitInv, InLine
<1>1. /\ TypeOK /\ QueueOK /\ pc \in [Operation -> Places]
      /\ commands \in Seq(Command) /\ Len(commands) \in Nat
      /\ status \in [Command -> {"new", "queued", "running", "done"}]
      /\ Lined(commands, status)
  BY QueueLined, TypeParts DEF IInv
<1>2. ASSUME NEW o \in Operation, Drain(o) PROVE WaitInv'
  <2> DEFINE places == [pc EXCEPT ![o] = "done"]
  <2>1. /\ places \in [Operation -> Places]
        /\ \A p \in Operation : pc[p] # "new" => places[p] # "new"
    BY <1>1, PlacesApart DEF Places
  <2>2. drain(places, commands, status)
    BY <1>2 DEF Drain
  <2> HIDE DEF places
  <2>3. QED
    BY <1>0, <1>1, <2>1, <2>2, DrainWaits
<1>3. ASSUME NEW o \in Operation, runOperation(o) PROVE WaitInv'
  <2>1. /\ deferred' = deferred /\ state'.tag # "idle"
        /\ \A p \in Operation : pc[p] # "new" => pc'[p] # "new"
    <3>1. CASE state.tag = "idle"
      BY <1>1, <1>3, <3>1 DEF runOperation, BeginOperation, reduceBegin, Idle
    <3>2. CASE state.tag # "idle"
      BY <1>1, <1>3, <3>2 DEF runOperation, Goto
    <3>3. QED
      BY <3>1, <3>2
  <2>2. AwaitedHasBegun'
    <3> SUFFICES ASSUME NEW c \in Command, status'[c] = "running", Starts[c] # NoOperation
                 PROVE  pc'[Starts[c]] # "new"
      BY DEF AwaitedHasBegun
    <3>1. Starts[c] \in Operation /\ status[c] = "running"
      BY <2>1, HarnessAssumption DEF deferred
    <3>2. QED
      BY <2>1, <3>1 DEF WaitInv, AwaitedHasBegun
  <2>3. QED
    BY <2>1, <2>2 DEF WaitInv, InLine, Attended, deferred
<1>4. ASSUME NEW c \in Command, runWhenIdle(c) PROVE WaitInv'
  <2> DEFINE queue == Append(commands, c)
             statuses == [status EXCEPT ![c] = "queued"]
  <2>1. status[c] = "new" /\ drain(pc, queue, statuses)
    BY <1>4 DEF runWhenIdle
  <2>2. /\ queue \in Seq(Command) /\ Len(queue) = Len(commands) + 1 /\ queue[Len(commands) + 1] = c
        /\ \A i \in 1..Len(commands) : queue[i] = commands[i] /\ commands[i] \in Command
        /\ \A i \in 1..Len(queue) : i \in 1..Len(commands) \/ i = Len(commands) + 1
    BY <1>1
  <2>3. /\ statuses \in [Command -> {"new", "queued", "running", "done"}]
        /\ statuses[c] = "queued" /\ \A d \in Command : d # c => statuses[d] = status[d]
    BY <1>1
  <2> HIDE DEF queue, statuses
  <2>4. \A i \in 1..Len(commands) : commands[i] # c
    BY <1>1, <2>1 DEF Lined
  <2>5. Lined(queue, statuses)
    BY <1>1, <2>2, <2>3, <2>4 DEF Lined
  <2>6. /\ \A d \in Command : statuses[d] = "running" <=> status[d] = "running"
        /\ \A d \in Command : statuses[d] = "queued" => \E i \in 1..Len(queue) : queue[i] = d
    <3>1. Len(commands) + 1 \in 1..Len(queue) /\ 1..Len(commands) \subseteq 1..Len(queue)
      BY <1>1, <2>2
    <3>2. \A d \in Command : statuses[d] = "running" <=> status[d] = "running"
      BY <2>1, <2>3
    <3>3. ASSUME NEW d \in Command, statuses[d] = "queued"
          PROVE  \E i \in 1..Len(queue) : queue[i] = d
      <4>1. CASE d = c
        BY <2>2, <3>1, <4>1
      <4>2. CASE d # c
        BY <1>0, <2>2, <2>3, <3>1, <3>3, <4>2
      <4>3. QED
        BY <4>1, <4>2
    <3>4. QED
      BY <3>2, <3>3
  <2>7. QED
    BY <1>1, <2>1, <2>5, <2>6, DrainWaits
<1>5. ASSUME NEW c \in Command, cancel(c) PROVE WaitInv'
  <2>1. PICK i \in DOMAIN commands : commands[i] = c /\ commands' = Without(commands, i)
    BY <1>5 DEF cancel
  <2>2. /\ status' = [status EXCEPT ![c] = "done"] /\ UNCHANGED <<state, pc, draining>>
    BY <1>5 DEF cancel
  <2>3. /\ i \in 1..Len(commands) /\ Len(commands') = Len(commands) - 1
        /\ \A k \in 1..Len(commands') :
             commands'[k] = IF k < i THEN commands[k] ELSE commands[k + 1]
    <3>1. /\ Len(Without(commands, i)) = Len(commands) - 1
          /\ \A k \in 1..(Len(commands) - 1) :
               Without(commands, i)[k] = IF k < i THEN commands[k] ELSE commands[k + 1]
      BY <1>1, WithoutType
    <3>2. i \in 1..Len(commands)
      BY <1>1
    <3>3. QED
      BY <2>1, <3>1, <3>2
  <2>4. \A m \in 1..Len(commands) : m # i => \E k \in 1..Len(commands') : commands'[k] = commands[m]
    <3> TAKE m \in 1..Len(commands)
    <3> HAVE m # i
    <3>1. CASE m < i
      <4>1. m \in 1..Len(commands')
        BY <1>1, <2>3, <3>1
      <4>2. QED
        BY <2>3, <3>1, <4>1
    <3>2. CASE m > i
      <4>1. m - 1 \in 1..Len(commands') /\ ~ (m - 1 < i) /\ (m - 1) + 1 = m
        BY <1>1, <2>3, <3>2
      <4>2. QED
        BY <2>3, <4>1
    <3>3. QED
      BY <1>1, <2>3, <3>1, <3>2
  <2>5. InLine'
    <3> SUFFICES ASSUME NEW d \in Command, status'[d] = "queued"
                 PROVE  \E k \in 1..Len(commands') : commands'[k] = d
      BY DEF InLine
    <3>1. d # c /\ status[d] = "queued"
      BY <1>1, <2>2
    <3>2. PICK m \in 1..Len(commands) : commands[m] = d
      BY <1>0, <3>1
    <3>3. QED
      BY <2>1, <2>4, <3>1, <3>2
  <2>6. AwaitedHasBegun'
    BY <1>1, <2>2 DEF WaitInv, AwaitedHasBegun
  <2>7. Attended'
    BY <1>1, <2>2, <2>3 DEF WaitInv, Attended
  <2>8. QED
    BY <2>5, <2>6, <2>7 DEF WaitInv
<1>6. ASSUME NEW c \in Command, CommandEnds(c) PROVE WaitInv'
  <2> DEFINE statuses == [status EXCEPT ![c] = "done"]
  <2>1. status[c] = "running" /\ drainLoop(pc, commands, statuses)
    BY <1>6 DEF CommandEnds
  <2>2. /\ statuses \in [Command -> {"new", "queued", "running", "done"}]
        /\ statuses[c] = "done" /\ \A d \in Command : d # c => statuses[d] = status[d]
    BY <1>1
  <2> HIDE DEF statuses
  <2>3. \A d \in Command : statuses[d] # "running"
    BY <1>1, <2>1, <2>2 DEF QueueOK
  <2>4. \A i \in 1..Len(commands) : commands[i] \in Command /\ commands[i] # c
    BY <1>1, <2>1 DEF Lined
  <2>5. Lined(commands, statuses)
    BY <1>1, <2>2, <2>4 DEF Lined
  <2>6. \A d \in Command : statuses[d] = "queued" => \E i \in 1..Len(commands) : commands[i] = d
    BY <1>0, <2>2
  <2>7. QED
    BY <1>1, <2>1, <2>3, <2>5, <2>6, DrainLoopWaits DEF WaitInv
<1>7. ASSUME Write \/ setModel \/ requestAbort \/ UNCHANGED vars PROVE WaitInv'
  <2>1. /\ deferred' = deferred /\ pc' = pc
        /\ state' = state \/ state'.tag = "active"
    BY <1>1, <1>7 DEF Write, setModel, requestAbort, vars, reduceAbortRequest, Active, TypeOK, LifecycleTypeOK
  <2>2. QED
    BY <2>1 DEF WaitInv, InLine, Attended, AwaitedHasBegun, deferred
<1>8. QED
  BY <1>2, <1>3, <1>4, <1>5, <1>6, <1>7, BodyWaits DEF Next

\* No deferred command is forgotten, whatever fails, is cancelled or begins meanwhile:
\* none waits in a harness where no command runs and no operation is under way.
THEOREM NoneIsForgotten == Spec => []NoCommandForgotten
<1>1. Init => WaitInv
  BY DEF Init, WaitInv, InLine, Attended, AwaitedHasBegun
<1>2. IInv /\ WaitInv => NoCommandForgotten
  <2> SUFFICES ASSUME IInv, WaitInv, NEW c \in Command, status[c] = "queued"
               PROVE  \/ \E d \in Command : /\ status[d] = "running"
                                            /\ Starts[d] # NoOperation => pc[Starts[d]] # "new"
                      \/ \E o \in Operation : pc[o] \notin {"new", "done"}
    BY DEF NoCommandForgotten
  <2>1. commands # <<>>
    BY DEF WaitInv, InLine
  <2>2. CASE draining
    BY <2>2 DEF IInv, QueueOK, WaitInv, AwaitedHasBegun
  <2>3. CASE state.tag # "idle"
    <3>1. state.operation \in Operation /\ state.tag \in {"active", "settling"}
      BY <2>3 DEF IInv, AttemptsAreAccounted, TypeOK, LifecycleTypeOK
    <3>2. pc[state.operation] \in ActivePlaces \cup {"settling"}
      BY <3>1 DEF IInv, OpsInv, PlacesOK, Active, SettleFinishLegal
    <3>3. QED
      BY <3>1, <3>2, PlacesApart
  <2>4. QED
    BY <2>1, <2>2, <2>3 DEF WaitInv, Attended
<1>3. QED
  BY <1>1, <1>2, NextWaits, Invariant, PTL DEF Spec

===============================================================================
