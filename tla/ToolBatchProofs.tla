--------------------------- MODULE ToolBatchProofs ---------------------------
(***************************************************************************)
(* Proofs about the execution of a batch, for every number of calls, every *)
(* set of claims, every rewriting hook and every cap: first about the runs *)
(* of the tools, then about the results: each call has one result in the   *)
(* transcript, and a settlement after the timeout or the abort of its call *)
(* changes none.                                                           *)
(***************************************************************************)
EXTENDS ToolBatch, DagScheduleProofs

-------------------------------------------------------------------------------
(* The inductive invariant. *)

Quiet == \A i \in Call : tool[i] # "running"

ConflictFree(S) == \A i, j \in S : i < j => ~ resolutionsConflict(claims[i], claims[j])

Disjoint(s) == \A p, q \in DOMAIN s : p # q => s[p] \cap s[q] = {}

AllIn(S, p) == \A i \in S : phase[i] = p

\* A level after the first holds planned calls only, and of two planned calls that
\* conflict by the claims they were planned with the earlier has an earlier level.
OrderedLevels(s) ==
  /\ \A p \in DOMAIN s : p # 1 => s[p] \subseteq plannable
  /\ \A p, q \in DOMAIN s : \A i \in s[p] \cap plannable, j \in s[q] \cap plannable :
       i < j /\ resolutionsConflict(planned[i], planned[j]) => p < q

\* A call that no executor has has no execution and no cause.
Unlaunched ==
  \A i \in Call : phase[i] \in {"planned", "prepared"} => tool[i] = "idle" /\ cause[i] = "none"

InLevels == pc \in {"level", "authorize", "sublevel", "launch", "join", "grace", "levelEnd"}

\* No hook has seen a call of a level to come.
LevelsAhead ==
  /\ pc = "schedule" => AllIn(Call, "planned")
  /\ InLevels => /\ \A p \in DOMAIN levels : AllIn(levels[p], "planned")
                 /\ Disjoint(levels)
  /\ pc = "authorize" => /\ AllIn(unauthorized, "planned")
                         /\ \A p \in DOMAIN levels : unauthorized \cap levels[p] = {}

\* The calls of a sublevel to come are prepared and do not conflict.
SublevelsAhead ==
  /\ pc \in {"sublevel", "launch", "join", "grace"} =>
       /\ \A p \in DOMAIN sublevels : AllIn(sublevels[p], "prepared") /\ ConflictFree(sublevels[p])
       /\ Disjoint(sublevels)
  /\ pc = "launch" =>
       /\ AllIn(group, "prepared") /\ ConflictFree(group)
       /\ \A p \in DOMAIN sublevels : group \cap sublevels[p] = {}

\* A tool that runs on although its call is finalized timed out, unless the run
\* is aborted.
RunsOnAfterTimeout ==
  \A i \in Call :
    /\ cause[i] = "aborted" => aborted
    /\ cause[i] = "real" => tool[i] = "settled"
    /\ phase[i] \in {"ending", "final"} /\ tool[i] = "running" =>
         aborted \/ outcome[i].disposition = "timeout"

\* Between two sublevels no tool runs, but for a timeout that ends the batch.
Barrier ==
  /\ ~ aborted /\ pc \in {"schedule", "level", "authorize", "sublevel", "launch"} => Quiet
  /\ ~ aborted /\ pc \in {"join", "grace"} => \A i \in Call : tool[i] = "running" => i \in group
  /\ pc = "grace" => AllIn(group, "final")
  /\ ~ aborted /\ pc \in {"levelEnd", "emit"} /\ stop # "unsettled" => Quiet
  /\ pc = "turnEnd" /\ stop # "unsettled" => Quiet
  /\ pc \in {"nextTurn", "provider"} => Quiet

BatchInv ==
  TypeOK /\ Unlaunched /\ LevelsAhead /\ SublevelsAhead /\ RunsOnAfterTimeout /\ Barrier
  /\ NoConflictingOverlap

-------------------------------------------------------------------------------
(* Sequences of levels. *)

\* The schedule of calls of the batch.
LEMMA CallsScheduled ==
  ASSUME NEW S \in SUBSET Call, NEW c
  PROVE  LET s == scheduleDagLevels(c, S, maxToolConcurrency) IN
         /\ s \in Seq(SUBSET Call)
         /\ \A p \in DOMAIN s : s[p] \subseteq S
         /\ \A i \in S : \E p \in DOMAIN s : i \in s[p]
         /\ Disjoint(s)
         /\ \A p, q \in DOMAIN s : \A i \in s[p], j \in s[q] :
              i < j /\ resolutionsConflict(c[i], c[j]) => p < q
<1> DEFINE s == scheduleDagLevels(c, S, maxToolConcurrency)
<1>1. S \in SUBSET Nat /\ IsFiniteSet(S) /\ maxToolConcurrency \in Nat
  <2>1. N \in Nat /\ maxToolConcurrency \in Nat
    BY BatchAssumption
  <2>2. IsFiniteSet(Call) /\ Call \in SUBSET Nat
    BY <2>1, FS_Interval DEF Call
  <2>3. IsFiniteSet(S)
    BY <2>2, FS_Subset
  <2>4. QED
    BY <2>1, <2>2, <2>3
<1>2. /\ s \in Seq(SUBSET S)
      /\ \A i \in S : \E p \in DOMAIN s : i \in s[p]
      /\ \A p, q \in DOMAIN s : p # q => s[p] \cap s[q] = {}
      /\ \A p, q \in DOMAIN s : \A i \in s[p], j \in s[q] :
           i < j /\ resolutionsConflict(c[i], c[j]) => p < q
  BY <1>1, ScheduleIsSound
<1> HIDE DEF s
<1>3. s \in Seq(SUBSET Call) /\ \A p \in DOMAIN s : s[p] \subseteq S
  BY <1>2
<1>4. QED
  BY <1>2, <1>3 DEF Disjoint, s

\* The plan of the batch: every call is in one level, calls without a plan are in
\* the first, and planned calls that conflict are in source order.
LEMMA BatchScheduled ==
  ASSUME plannable \in SUBSET Call
  PROVE  /\ schedulePlannedDagLevels \in Seq(SUBSET Call)
         /\ \A i \in Call : \E p \in DOMAIN schedulePlannedDagLevels : i \in schedulePlannedDagLevels[p]
         /\ Disjoint(schedulePlannedDagLevels)
         /\ OrderedLevels(schedulePlannedDagLevels)
<1> DEFINE s == scheduleDagLevels(planned, plannable, maxToolConcurrency)
           immediate == Call \ plannable
           t == [s EXCEPT ![1] = @ \cup immediate]
<1>1. /\ s \in Seq(SUBSET Call)
      /\ \A p \in DOMAIN s : s[p] \subseteq plannable
      /\ \A i \in plannable : \E p \in DOMAIN s : i \in s[p]
      /\ Disjoint(s)
      /\ \A p, q \in DOMAIN s : \A i \in s[p], j \in s[q] :
           i < j /\ resolutionsConflict(planned[i], planned[j]) => p < q
  BY CallsScheduled
<1>2. schedulePlannedDagLevels = IF immediate = {} THEN s
                                 ELSE IF s = <<>> THEN <<immediate>> ELSE t
  BY DEF schedulePlannedDagLevels
<1> HIDE DEF s
<1>3. CASE immediate = {}
  <2>1. s = schedulePlannedDagLevels /\ plannable = Call
    BY <1>2, <1>3
  <2>2. OrderedLevels(s)
    BY <1>1, <2>1 DEF OrderedLevels
  <2>3. QED
    BY <1>1, <2>1, <2>2
<1>4. CASE immediate # {} /\ s = <<>>
  <2>1. schedulePlannedDagLevels = <<immediate>> /\ plannable = {}
    BY <1>1, <1>2, <1>4
  <2>2. QED
    BY <2>1 DEF Disjoint, OrderedLevels
<1>5. CASE immediate # {} /\ s # <<>>
  <2>1. schedulePlannedDagLevels = t
    BY <1>2, <1>5
  <2>2. t \in Seq(SUBSET Call) /\ DOMAIN t = DOMAIN s /\ 1 \in DOMAIN s
    BY <1>1, <1>5
  <2>3. t[1] = s[1] \cup immediate /\ \A p \in DOMAIN s : p # 1 => t[p] = s[p]
    BY <1>1, <2>2
  <2> HIDE DEF t
  <2>4. \A i \in Call : \E p \in DOMAIN t : i \in t[p]
    <3> SUFFICES ASSUME NEW i \in Call PROVE \E p \in DOMAIN t : i \in t[p]
      OBVIOUS
    <3>1. CASE i \in plannable
      BY <1>1, <2>2, <2>3, <3>1
    <3>2. CASE i \notin plannable
      BY <2>2, <2>3, <3>2
    <3>3. QED
      BY <3>1, <3>2
  <2>5. Disjoint(t)
    <3>1. ASSUME NEW p \in DOMAIN t, NEW q \in DOMAIN t, p # q
          PROVE  t[p] \cap t[q] = {}
      <4>1. s[p] \cap s[q] = {} /\ s[p] \subseteq plannable /\ s[q] \subseteq plannable
        BY <1>1, <2>2, <3>1 DEF Disjoint
      <4>2. QED
        BY <2>2, <2>3, <3>1, <4>1
    <3>2. QED
      BY <3>1 DEF Disjoint
  <2>6. OrderedLevels(t)
    <3>1. \A p \in DOMAIN t : t[p] \cap plannable = s[p] /\ (p # 1 => t[p] \subseteq plannable)
      BY <1>1, <2>2, <2>3
    <3>2. QED
      BY <1>1, <2>2, <3>1 DEF OrderedLevels
  <2>7. QED
    BY <2>1, <2>2, <2>4, <2>5, <2>6
<1>6. QED
  BY <1>3, <1>4, <1>5

\* The first of a sequence of levels is taken.
LEMMA HeadTaken ==
  ASSUME NEW s \in Seq(SUBSET Call), s # <<>>
  PROVE  /\ Head(s) \in SUBSET Call /\ Tail(s) \in Seq(SUBSET Call)
         /\ 1 \in DOMAIN s /\ Head(s) = s[1]
         /\ \A p \in DOMAIN Tail(s) : p + 1 \in DOMAIN s /\ Tail(s)[p] = s[p + 1] /\ p + 1 # 1
         /\ \A p \in DOMAIN s : p # 1 => p - 1 \in DOMAIN Tail(s) /\ Tail(s)[p - 1] = s[p]
  OBVIOUS

\* Taking the first of disjoint sets off leaves the others disjoint from it.
LEMMA TailDisjoint ==
  ASSUME NEW s \in Seq(SUBSET Call), s # <<>>, Disjoint(s)
  PROVE  Disjoint(Tail(s)) /\ \A p \in DOMAIN Tail(s) : Head(s) \cap Tail(s)[p] = {}
<1>1. ASSUME NEW p \in DOMAIN Tail(s), NEW q \in DOMAIN Tail(s), p # q
      PROVE  Tail(s)[p] \cap Tail(s)[q] = {}
  <2>1. p + 1 # q + 1
    BY <1>1
  <2>2. QED
    BY <2>1, HeadTaken DEF Disjoint
<1>2. \A p \in DOMAIN Tail(s) : Head(s) \cap Tail(s)[p] = {}
  BY HeadTaken DEF Disjoint
<1>3. QED
  BY <1>1, <1>2 DEF Disjoint

-------------------------------------------------------------------------------
(* Type correctness. *)

\* Closing the batch keeps the types.
LEMMA ClosedType ==
  ASSUME TypeOK, NEW reason, CloseBatch(reason)
  PROVE  pending' \in SUBSET Result
<1>1. \A i \in Call : BatchResult(i) \in Result
  BY DEF TypeOK, BatchResult, Result, Outcome, Disposition
<1>2. QED
  BY <1>1 DEF CloseBatch

\* A result that is final before the tool starts keeps the types.
LEMMA ImmediateType ==
  ASSUME TypeOK, NEW i \in Call, NEW d \in Disposition, Immediate(i, d)
  PROVE  /\ phase' \in [Call -> {"planned", "prepared", "racing", "finalizing", "ending", "final"}]
         /\ outcome' \in [Call -> Outcome]
         /\ claims' = claims
  BY DEF TypeOK, Immediate, Outcome

\* Emitting a result, or failing to, keeps the types.
LEMMA EmittedType ==
  ASSUME TypeOK, NEW r \in pending, NEW onFailure, Emitted(r, onFailure)
  PROVE  transcript' \in Seq(Result) /\ pending' \subseteq Result /\ pc' \in {pc, onFailure}
<1>1. r \in Result /\ transcript \in Seq(Result) /\ pending \subseteq Result
  BY DEF TypeOK
<1>2. Append(transcript, r) \in Seq(Result) /\ pending \ {r} \subseteq Result
  BY <1>1
<1>3. QED
  BY <1>1, <1>2 DEF Emitted

\* The first state has the types.
LEMMA InitType == Init => TypeOK
<1> SUFFICES ASSUME Init PROVE TypeOK
  OBVIOUS
<1>1. plannable \subseteq Call /\ planned \in [Call -> Resolution]
  BY BatchAssumption DEF Init
<1>2. NoOutcome \in Outcome
  BY DEF NoOutcome, Outcome
<1>3. <<>> \in Seq(SUBSET Call) /\ <<>> \in Seq(Result)
  OBVIOUS
<1>4. outcome \in [Call -> Outcome]
  BY <1>2 DEF Init
<1>5. QED
  BY <1>1, <1>3, <1>4 DEF Init, TypeOK

\* Every step keeps the types.
LEMMA NextType == TypeOK /\ [Next]_vars => TypeOK'
<1> SUFFICES ASSUME TypeOK, [Next]_vars PROVE TypeOK'
  OBVIOUS
<1>1. CASE Schedule
  BY <1>1, BatchScheduled DEF TypeOK, Schedule, call, log
<1>2. CASE BeginLevel
  BY <1>2, HeadTaken DEF TypeOK, BeginLevel, call, log
<1>3. CASE EndLevels
  <2>1. pending' \in SUBSET Result /\ stop' = "no" /\ pc' = "emit"
    BY <1>3, ClosedType DEF EndLevels, CloseBatch
  <2>2. QED
    BY <1>3, <2>1 DEF TypeOK, EndLevels, plan, call
<1>4. CASE EndLevel
  <2>1. pending' \in SUBSET Result /\ stop' \in {"no", "unsettled", "terminated"} /\ pc' \in {"level", "emit"}
    BY <1>4, ClosedType DEF TypeOK, EndLevel, CloseBatch
  <2>2. QED
    BY <1>4, <2>1 DEF TypeOK, EndLevel, plan, call, log
<1>5. ASSUME NEW i \in Call, RefuseCall(i) PROVE TypeOK'
  <2>1. phase' \in [Call -> {"planned", "prepared", "racing", "finalizing", "ending", "final"}]
        /\ outcome' \in [Call -> Outcome] /\ claims' = claims
    BY <1>5, ImmediateType DEF RefuseCall, Disposition
  <2>2. QED
    BY <1>5, <2>1 DEF TypeOK, RefuseCall, AfterAuthorizing, log
<1>6. CASE RescheduleRunnable
  <2>1. {i \in level : phase[i] = "prepared"} \in SUBSET Call
    BY DEF TypeOK
  <2>2. scheduleDagLevels(claims, {i \in level : phase[i] = "prepared"}, maxToolConcurrency)
          \in Seq(SUBSET Call)
    BY <2>1, CallsScheduled
  <2>3. sublevels' \in Seq(SUBSET Call)
    BY <1>6, <2>2 DEF TypeOK, RescheduleRunnable
  <2>4. QED
    BY <1>6, <2>3 DEF TypeOK, RescheduleRunnable, call, log
<1>7. CASE EndSublevels
  BY <1>7 DEF TypeOK, EndSublevels, plan, call, log
<1>8. CASE EmitStarts
  BY <1>8, HeadTaken DEF TypeOK, EmitStarts, call, log
<1>9. CASE Launch
  BY <1>9 DEF TypeOK, Launch, plan, log
<1>10. CASE Join
  BY <1>10 DEF TypeOK, Join, plan, call, log
<1>11. CASE GraceSettled
  BY <1>11 DEF TypeOK, GraceSettled, plan, call, log
<1>12. CASE GraceExpires
  BY <1>12 DEF TypeOK, GraceExpires, plan, call, log
<1>13. CASE EmitResult
  <2>1. PICK r \in pending : Emitted(r, "failing") /\ committed' = committed \cup {r.call}
    BY <1>13 DEF EmitResult
  <2>2. r.call \in Call
    BY DEF TypeOK, Result
  <2>3. QED
    BY <1>13, <2>1, <2>2, EmittedType DEF TypeOK, EmitResult, plan, call
<1>14. CASE EndBatch \/ EndTurn \/ NextTurn
  BY <1>14 DEF TypeOK, EndBatch, EndTurn, NextTurn, plan, call, log
<1>15. CASE HandleFailure
  <2>1. \A i \in Missing : [call |-> i, disposition |-> "aborted", started |-> FALSE] \in Result
    BY DEF Missing, Result, Disposition
  <2>2. pending' \in SUBSET Result
    BY <1>15, <2>1 DEF HandleFailure
  <2>3. QED
    BY <1>15, <2>2 DEF TypeOK, HandleFailure, plan, call
<1>16. CASE EmitClosure
  BY <1>16, EmittedType DEF TypeOK, EmitClosure, plan, call
<1>17. CASE EndFailure
  BY <1>17 DEF TypeOK, EndFailure, plan, call, log
<1>18. ASSUME NEW i \in Call, HookReturns(i) PROVE TypeOK'
  <2>1. phase' \in [Call -> {"planned", "prepared", "racing", "finalizing", "ending", "final"}]
        /\ outcome' \in [Call -> Outcome] /\ claims' \in [Call -> Resolution]
    <3>1. CASE \E disposition \in Refusals : Immediate(i, disposition)
      <4>1. Refusals \subseteq Disposition
        BY BatchAssumption DEF Disposition
      <4>2. QED
        BY <3>1, <4>1, ImmediateType DEF TypeOK
    <3>2. CASE /\ phase' = [phase EXCEPT ![i] = "prepared"]
               /\ \E r \in Rewritten(planned[i]) : claims' = [claims EXCEPT ![i] = r]
               /\ UNCHANGED outcome
      <4>1. planned[i] \in Planned => Rewritten(planned[i]) \subseteq Resolution
        BY BatchAssumption
      <4>2. QED
        BY <3>2, <4>1 DEF TypeOK
    <3>3. QED
      BY <1>18, <3>1, <3>2 DEF HookReturns
  <2>2. QED
    BY <1>18, <2>1 DEF TypeOK, HookReturns, AfterAuthorizing, log
<1>19. ASSUME NEW i \in Call, RaceSettles(i) PROVE TypeOK'
  BY <1>19 DEF TypeOK, RaceSettles, plan, log
<1>20. ASSUME NEW i \in Call, FinalizeTerminal(i) PROVE TypeOK'
  <2>1. PICK d \in {"timeout", "aborted"} : Finalized(i, d, FALSE)
    BY <1>20 DEF FinalizeTerminal
  <2>2. [disposition |-> d, started |-> tool[i] # "idle", terminate |-> FALSE] \in Outcome
    BY DEF Outcome, Disposition
  <2>3. QED
    BY <2>1, <2>2 DEF TypeOK, Finalized, plan, log
<1>21. ASSUME NEW i \in Call, EmitEnd(i) PROVE TypeOK'
  BY <1>21 DEF TypeOK, EmitEnd, plan, log
<1>22. ASSUME NEW i \in Call, AfterHookReturns(i) PROVE TypeOK'
  BY <1>22, BatchAssumption DEF TypeOK, AfterHookReturns, Finalized, Outcome,
     Disposition, plan, log
<1>23. ASSUME NEW i \in Call, ToolSettles(i) PROVE TypeOK'
  BY <1>23 DEF TypeOK, ToolSettles, plan, log
<1>24. ASSUME NEW i \in Call, TimerFires(i) PROVE TypeOK'
  BY <1>24 DEF TypeOK, TimerFires, plan, log
<1>25. ASSUME NEW i \in Call, LateSettlement(i) PROVE TypeOK'
  BY <1>25 DEF TypeOK, LateSettlement, plan, call
<1>26. CASE Abort
  BY <1>26 DEF TypeOK, Abort, plan, log
<1>27. CASE UNCHANGED vars
  BY <1>27 DEF TypeOK, vars, plan, call, log
<1>28. QED
  BY <1>1, <1>2, <1>3, <1>4, <1>5, <1>6, <1>7, <1>8, <1>9, <1>10, <1>11, <1>12, <1>13,
     <1>14,
     <1>15, <1>16, <1>17, <1>18, <1>19, <1>20, <1>21, <1>22, <1>23, <1>24, <1>25, <1>26,
     <1>27 DEF Next, Runner, Executor

\* Conflict does not depend on which of the two calls comes first.
LEMMA ConflictsBothWays ==
  ASSUME NEW r \in Resolution, NEW s \in Resolution
  PROVE  resolutionsConflict(r, s) <=> resolutionsConflict(s, r)
  BY OverlapAssumption DEF resolutionsConflict, claimsConflict, Resolution, Claim

\* No step but a launch gives a call a tool or a cause.
LEMMA UnlaunchedKept == BatchInv /\ [Next]_vars => Unlaunched'
<1> SUFFICES ASSUME BatchInv, [Next]_vars PROVE Unlaunched'
  OBVIOUS
<1>1. CASE Schedule
  BY <1>1 DEF BatchInv, Unlaunched, Schedule, call
<1>2. CASE BeginLevel
  BY <1>2 DEF BatchInv, Unlaunched, BeginLevel, call
<1>3. CASE EndLevels
  BY <1>3 DEF BatchInv, Unlaunched, EndLevels, call
<1>4. CASE EndLevel
  BY <1>4 DEF BatchInv, Unlaunched, EndLevel, call
<1>5. ASSUME NEW i \in Call, RefuseCall(i) PROVE Unlaunched'
  BY <1>5 DEF BatchInv, TypeOK, Unlaunched, RefuseCall, Immediate, AfterAuthorizing
<1>6. CASE RescheduleRunnable
  BY <1>6 DEF BatchInv, Unlaunched, RescheduleRunnable, call
<1>7. CASE EndSublevels
  BY <1>7 DEF BatchInv, Unlaunched, EndSublevels, call
<1>8. CASE EmitStarts
  BY <1>8 DEF BatchInv, Unlaunched, EmitStarts, call
<1>9. CASE Launch
  BY <1>9 DEF BatchInv, Unlaunched, Launch
<1>10. CASE Join
  BY <1>10 DEF BatchInv, Unlaunched, Join, call
<1>11. CASE GraceSettled
  BY <1>11 DEF BatchInv, Unlaunched, GraceSettled, call
<1>12. CASE GraceExpires
  BY <1>12 DEF BatchInv, Unlaunched, GraceExpires, call
<1>13. CASE EmitResult
  BY <1>13 DEF BatchInv, Unlaunched, EmitResult, call
<1>14. CASE EndBatch \/ EndTurn \/ NextTurn
  BY <1>14 DEF BatchInv, Unlaunched, EndBatch, EndTurn, NextTurn, call
<1>15. CASE HandleFailure
  BY <1>15 DEF BatchInv, Unlaunched, HandleFailure, call
<1>16. CASE EmitClosure
  BY <1>16 DEF BatchInv, Unlaunched, EmitClosure, call
<1>17. CASE EndFailure
  BY <1>17 DEF BatchInv, Unlaunched, EndFailure, call
<1>18. ASSUME NEW i \in Call, HookReturns(i) PROVE Unlaunched'
  <2>1. phase[i] = "planned"
    BY <1>18 DEF HookReturns, BatchInv, LevelsAhead, AllIn
  <2>2. \A j \in Call : phase'[j] \in {"planned", "prepared"} => phase[j] \in {"planned", "prepared"}
    BY <1>18, <2>1 DEF HookReturns, Immediate, BatchInv, TypeOK
  <2>3. QED
    BY <1>18, <2>2 DEF HookReturns, AfterAuthorizing, BatchInv, Unlaunched
<1>19. ASSUME NEW i \in Call, RaceSettles(i) PROVE Unlaunched'
  BY <1>19 DEF BatchInv, TypeOK, Unlaunched, RaceSettles
<1>20. ASSUME NEW i \in Call, FinalizeTerminal(i) PROVE Unlaunched'
  BY <1>20 DEF BatchInv, TypeOK, Unlaunched, FinalizeTerminal, Finalized
<1>21. ASSUME NEW i \in Call, EmitEnd(i) PROVE Unlaunched'
  BY <1>21 DEF BatchInv, Unlaunched, EmitEnd
<1>22. ASSUME NEW i \in Call, AfterHookReturns(i) PROVE Unlaunched'
  BY <1>22 DEF BatchInv, Unlaunched, AfterHookReturns, Finalized
<1>23. ASSUME NEW i \in Call, ToolSettles(i) PROVE Unlaunched'
  BY <1>23 DEF BatchInv, Unlaunched, ToolSettles
<1>24. ASSUME NEW i \in Call, TimerFires(i) PROVE Unlaunched'
  BY <1>24 DEF BatchInv, Unlaunched, TimerFires
<1>25. ASSUME NEW i \in Call, LateSettlement(i) PROVE Unlaunched'
  BY <1>25 DEF BatchInv, Unlaunched, LateSettlement, call
<1>26. CASE Abort
  BY <1>26 DEF BatchInv, Unlaunched, Abort
<1>27. CASE UNCHANGED vars
  BY <1>27 DEF BatchInv, Unlaunched, vars, call
<1>28. QED
  BY <1>1, <1>2, <1>3, <1>4, <1>5, <1>6, <1>7, <1>8, <1>9, <1>10, <1>11, <1>12, <1>13,
     <1>14,
     <1>15, <1>16, <1>17, <1>18, <1>19, <1>20, <1>21, <1>22, <1>23, <1>24, <1>25, <1>26,
     <1>27 DEF Next, Runner, Executor

\* A call is seen by its hook only when its level is begun.
LEMMA LevelsKept == BatchInv /\ [Next]_vars => LevelsAhead'
<1> SUFFICES ASSUME BatchInv, [Next]_vars PROVE LevelsAhead'
  OBVIOUS
<1>1. CASE Schedule
  BY <1>1, BatchScheduled DEF BatchInv, TypeOK, LevelsAhead, AllIn, Disjoint, Schedule,
     call
<1>2. CASE BeginLevel
  BY <1>2, HeadTaken, TailDisjoint DEF BatchInv, LevelsAhead, InLevels, AllIn, Disjoint,
     BeginLevel, call
<1>3. CASE EndLevels
  BY <1>3 DEF LevelsAhead, InLevels, EndLevels, CloseBatch
<1>4. CASE EndLevel
  BY <1>4 DEF BatchInv, LevelsAhead, InLevels, AllIn, EndLevel, CloseBatch, plan, call
<1>5. ASSUME NEW i \in Call, RefuseCall(i) PROVE LevelsAhead'
  BY <1>5 DEF BatchInv, TypeOK, LevelsAhead, InLevels, AllIn, RefuseCall, Immediate,
     AfterAuthorizing
<1>6. CASE RescheduleRunnable
  BY <1>6 DEF BatchInv, LevelsAhead, InLevels, AllIn, RescheduleRunnable, call
<1>7. CASE EndSublevels
  BY <1>7 DEF BatchInv, LevelsAhead, InLevels, AllIn, EndSublevels, plan, call
<1>8. CASE EmitStarts
  BY <1>8 DEF BatchInv, LevelsAhead, InLevels, AllIn, EmitStarts, call
<1>9. CASE Launch
  BY <1>9 DEF BatchInv, TypeOK, LevelsAhead, SublevelsAhead, InLevels, AllIn, Launch,
     plan
<1>10. CASE Join
  BY <1>10 DEF BatchInv, LevelsAhead, InLevels, AllIn, Join, plan, call
<1>11. CASE GraceSettled
  BY <1>11 DEF BatchInv, LevelsAhead, InLevels, AllIn, GraceSettled, plan, call
<1>12. CASE GraceExpires
  BY <1>12 DEF BatchInv, LevelsAhead, InLevels, AllIn, GraceExpires, plan, call
<1>13. CASE EmitResult
  BY <1>13 DEF LevelsAhead, InLevels, EmitResult, Emitted
<1>14. CASE EndBatch \/ EndTurn \/ NextTurn
  BY <1>14 DEF LevelsAhead, InLevels, EndBatch, EndTurn, NextTurn
<1>15. CASE HandleFailure
  BY <1>15 DEF LevelsAhead, InLevels, HandleFailure
<1>16. CASE EmitClosure
  BY <1>16 DEF LevelsAhead, InLevels, EmitClosure, Emitted
<1>17. CASE EndFailure
  BY <1>17 DEF LevelsAhead, InLevels, EndFailure
<1>18. ASSUME NEW i \in Call, HookReturns(i) PROVE LevelsAhead'
  BY <1>18 DEF BatchInv, TypeOK, LevelsAhead, InLevels, AllIn, HookReturns, Immediate,
     AfterAuthorizing
<1>19. ASSUME NEW i \in Call, RaceSettles(i) PROVE LevelsAhead'
  BY <1>19 DEF BatchInv, LevelsAhead, InLevels, AllIn, RaceSettles, plan
<1>20. ASSUME NEW i \in Call, FinalizeTerminal(i) PROVE LevelsAhead'
  BY <1>20 DEF BatchInv, TypeOK, LevelsAhead, InLevels, AllIn, FinalizeTerminal,
     Finalized, plan
<1>21. ASSUME NEW i \in Call, EmitEnd(i) PROVE LevelsAhead'
  BY <1>21 DEF BatchInv, LevelsAhead, InLevels, AllIn, EmitEnd, plan
<1>22. ASSUME NEW i \in Call, AfterHookReturns(i) PROVE LevelsAhead'
  BY <1>22 DEF BatchInv, LevelsAhead, InLevels, AllIn, AfterHookReturns, Finalized, plan
<1>23. ASSUME NEW i \in Call, ToolSettles(i) PROVE LevelsAhead'
  BY <1>23 DEF BatchInv, LevelsAhead, InLevels, AllIn, ToolSettles, plan
<1>24. ASSUME NEW i \in Call, TimerFires(i) PROVE LevelsAhead'
  BY <1>24 DEF BatchInv, LevelsAhead, InLevels, AllIn, TimerFires, plan
<1>25. ASSUME NEW i \in Call, LateSettlement(i) PROVE LevelsAhead'
  BY <1>25 DEF BatchInv, LevelsAhead, InLevels, AllIn, LateSettlement, plan, call
<1>26. CASE Abort
  BY <1>26 DEF BatchInv, LevelsAhead, InLevels, AllIn, Abort, plan
<1>27. CASE UNCHANGED vars
  BY <1>27 DEF BatchInv, LevelsAhead, InLevels, AllIn, vars, plan, call
<1>28. QED
  BY <1>1, <1>2, <1>3, <1>4, <1>5, <1>6, <1>7, <1>8, <1>9, <1>10, <1>11, <1>12, <1>13,
     <1>14,
     <1>15, <1>16, <1>17, <1>18, <1>19, <1>20, <1>21, <1>22, <1>23, <1>24, <1>25, <1>26,
     <1>27 DEF Next, Runner, Executor

\* The scheduler makes disjoint sublevels of prepared calls without conflicts, and only a launch
\* starts them.
LEMMA SublevelsKept == BatchInv /\ [Next]_vars => SublevelsAhead'
<1> SUFFICES ASSUME BatchInv, [Next]_vars PROVE SublevelsAhead'
  OBVIOUS
<1>1. CASE Schedule
  BY <1>1 DEF SublevelsAhead, Schedule
<1>2. CASE BeginLevel
  BY <1>2 DEF SublevelsAhead, BeginLevel
<1>3. CASE EndLevels
  BY <1>3 DEF SublevelsAhead, EndLevels, CloseBatch
<1>4. CASE EndLevel
  BY <1>4 DEF SublevelsAhead, EndLevel, CloseBatch
<1>5. ASSUME NEW i \in Call, RefuseCall(i) PROVE SublevelsAhead'
  BY <1>5 DEF SublevelsAhead, RefuseCall, AfterAuthorizing
<1>6. CASE RescheduleRunnable
  <2> DEFINE S == {i \in level : phase[i] = "prepared"}
             s == scheduleDagLevels(claims, S, maxToolConcurrency)
  <2>1. /\ \A p \in DOMAIN s : s[p] \subseteq S
        /\ Disjoint(s)
        /\ \A p, q \in DOMAIN s : \A i \in s[p], j \in s[q] :
             i < j /\ resolutionsConflict(claims[i], claims[j]) => p < q
        /\ s \in Seq(SUBSET Call)
    <3>1. S \in SUBSET Call
      BY DEF BatchInv, TypeOK
    <3> HIDE DEF S
    <3>2. QED
      BY <3>1, CallsScheduled
  <2>2. \A p \in DOMAIN s : AllIn(s[p], "prepared") /\ ConflictFree(s[p])
    <3>1. \A p \in DOMAIN s : ~ (p < p)
      BY <2>1
    <3> HIDE DEF s
    <3>2. QED
      BY <2>1, <3>1 DEF AllIn, ConflictFree
  <2>3. pc' = "sublevel" => sublevels' = s
    BY <1>6 DEF RescheduleRunnable
  <2>4. pc' \in {"sublevel", "levelEnd"} /\ UNCHANGED <<claims, phase>>
    BY <1>6 DEF RescheduleRunnable, call
  <2> HIDE DEF s
  <2>5. QED
    BY <2>1, <2>2, <2>3, <2>4 DEF SublevelsAhead, AllIn, ConflictFree, Disjoint
<1>7. CASE EndSublevels
  BY <1>7 DEF SublevelsAhead, EndSublevels
<1>8. CASE EmitStarts
  BY <1>8, HeadTaken, TailDisjoint DEF BatchInv, Unlaunched, SublevelsAhead, InLevels,
     AllIn, Disjoint, ConflictFree, EmitStarts, call, log
<1>9. CASE Launch
  BY <1>9 DEF BatchInv, TypeOK, SublevelsAhead, AllIn, ConflictFree, Launch, plan
<1>10. CASE Join
  BY <1>10 DEF BatchInv, SublevelsAhead, AllIn, ConflictFree, Join, plan, call
<1>11. CASE GraceSettled
  BY <1>11 DEF BatchInv, SublevelsAhead, AllIn, ConflictFree, GraceSettled, plan, call
<1>12. CASE GraceExpires
  BY <1>12 DEF SublevelsAhead, GraceExpires
<1>13. CASE EmitResult
  BY <1>13 DEF SublevelsAhead, EmitResult, Emitted
<1>14. CASE EndBatch \/ EndTurn \/ NextTurn
  BY <1>14 DEF SublevelsAhead, EndBatch, EndTurn, NextTurn
<1>15. CASE HandleFailure
  BY <1>15 DEF SublevelsAhead, HandleFailure
<1>16. CASE EmitClosure
  BY <1>16 DEF SublevelsAhead, EmitClosure, Emitted
<1>17. CASE EndFailure
  BY <1>17 DEF SublevelsAhead, EndFailure
<1>18. ASSUME NEW i \in Call, HookReturns(i) PROVE SublevelsAhead'
  BY <1>18 DEF SublevelsAhead, HookReturns, AfterAuthorizing
<1>19. ASSUME NEW i \in Call, RaceSettles(i) PROVE SublevelsAhead'
  BY <1>19 DEF BatchInv, SublevelsAhead, AllIn, ConflictFree, RaceSettles, plan
<1>20. ASSUME NEW i \in Call, FinalizeTerminal(i) PROVE SublevelsAhead'
  BY <1>20 DEF BatchInv, TypeOK, SublevelsAhead, AllIn, ConflictFree, FinalizeTerminal,
     Finalized, plan
<1>21. ASSUME NEW i \in Call, EmitEnd(i) PROVE SublevelsAhead'
  BY <1>21 DEF BatchInv, SublevelsAhead, AllIn, ConflictFree, EmitEnd, plan
<1>22. ASSUME NEW i \in Call, AfterHookReturns(i) PROVE SublevelsAhead'
  BY <1>22 DEF BatchInv, SublevelsAhead, AllIn, ConflictFree, AfterHookReturns,
     Finalized, plan
<1>23. ASSUME NEW i \in Call, ToolSettles(i) PROVE SublevelsAhead'
  BY <1>23 DEF BatchInv, SublevelsAhead, AllIn, ConflictFree, ToolSettles, plan
<1>24. ASSUME NEW i \in Call, TimerFires(i) PROVE SublevelsAhead'
  BY <1>24 DEF BatchInv, SublevelsAhead, AllIn, ConflictFree, TimerFires, plan
<1>25. ASSUME NEW i \in Call, LateSettlement(i) PROVE SublevelsAhead'
  BY <1>25 DEF BatchInv, SublevelsAhead, AllIn, ConflictFree, LateSettlement, plan, call
<1>26. CASE Abort
  BY <1>26 DEF BatchInv, SublevelsAhead, AllIn, ConflictFree, Abort, plan
<1>27. CASE UNCHANGED vars
  BY <1>27 DEF BatchInv, SublevelsAhead, AllIn, ConflictFree, vars, plan, call
<1>28. QED
  BY <1>1, <1>2, <1>3, <1>4, <1>5, <1>6, <1>7, <1>8, <1>9, <1>10, <1>11, <1>12, <1>13,
     <1>14,
     <1>15, <1>16, <1>17, <1>18, <1>19, <1>20, <1>21, <1>22, <1>23, <1>24, <1>25, <1>26,
     <1>27 DEF Next, Runner, Executor

\* An executor ends before its tool only if the tool timed out or the run is aborted.
LEMMA RunsOnKept == BatchInv /\ [Next]_vars => RunsOnAfterTimeout'
<1> SUFFICES ASSUME BatchInv, [Next]_vars PROVE RunsOnAfterTimeout'
  OBVIOUS
<1>1. CASE Schedule
  BY <1>1 DEF BatchInv, RunsOnAfterTimeout, Schedule, call
<1>2. CASE BeginLevel
  BY <1>2 DEF BatchInv, RunsOnAfterTimeout, BeginLevel, call
<1>3. CASE EndLevels
  BY <1>3 DEF BatchInv, RunsOnAfterTimeout, EndLevels, call
<1>4. CASE EndLevel
  BY <1>4 DEF BatchInv, RunsOnAfterTimeout, EndLevel, call
<1>5. ASSUME NEW i \in Call, RefuseCall(i) PROVE RunsOnAfterTimeout'
  <2>1. tool[i] = "idle"
    BY <1>5 DEF RefuseCall, BatchInv, LevelsAhead, AllIn, Unlaunched, TypeOK
  <2>2. \A j \in Call \ {i} : phase'[j] = phase[j] /\ outcome'[j] = outcome[j]
    BY <1>5 DEF RefuseCall, Immediate, BatchInv, TypeOK
  <2>3. QED
    BY <1>5, <2>1, <2>2 DEF RefuseCall, AfterAuthorizing, BatchInv, RunsOnAfterTimeout
<1>6. CASE RescheduleRunnable
  BY <1>6 DEF BatchInv, RunsOnAfterTimeout, RescheduleRunnable, call
<1>7. CASE EndSublevels
  BY <1>7 DEF BatchInv, RunsOnAfterTimeout, EndSublevels, call
<1>8. CASE EmitStarts
  BY <1>8 DEF BatchInv, RunsOnAfterTimeout, EmitStarts, call
<1>9. CASE Launch
  BY <1>9 DEF BatchInv, RunsOnAfterTimeout, Unlaunched, SublevelsAhead, AllIn, Launch
<1>10. CASE Join
  BY <1>10 DEF BatchInv, RunsOnAfterTimeout, Join, call
<1>11. CASE GraceSettled
  BY <1>11 DEF BatchInv, RunsOnAfterTimeout, GraceSettled, call
<1>12. CASE GraceExpires
  BY <1>12 DEF BatchInv, RunsOnAfterTimeout, GraceExpires, call
<1>13. CASE EmitResult
  BY <1>13 DEF BatchInv, RunsOnAfterTimeout, EmitResult, call
<1>14. CASE EndBatch \/ EndTurn \/ NextTurn
  BY <1>14 DEF BatchInv, RunsOnAfterTimeout, EndBatch, EndTurn, NextTurn, call
<1>15. CASE HandleFailure
  BY <1>15 DEF BatchInv, RunsOnAfterTimeout, HandleFailure, call
<1>16. CASE EmitClosure
  BY <1>16 DEF BatchInv, RunsOnAfterTimeout, EmitClosure, call
<1>17. CASE EndFailure
  BY <1>17 DEF BatchInv, RunsOnAfterTimeout, EndFailure, call
<1>18. ASSUME NEW i \in Call, HookReturns(i) PROVE RunsOnAfterTimeout'
  BY <1>18 DEF BatchInv, TypeOK, RunsOnAfterTimeout, Unlaunched, LevelsAhead, AllIn,
     HookReturns, Immediate, AfterAuthorizing
<1>19. ASSUME NEW i \in Call, RaceSettles(i) PROVE RunsOnAfterTimeout'
  BY <1>19 DEF BatchInv, TypeOK, RunsOnAfterTimeout, RaceSettles
<1>20. ASSUME NEW i \in Call, FinalizeTerminal(i) PROVE RunsOnAfterTimeout'
  <2>1. aborted \/ outcome'[i].disposition = "timeout"
    BY <1>20 DEF FinalizeTerminal, Finalized, BatchInv, TypeOK, RunsOnAfterTimeout
  <2>2. \A j \in Call \ {i} : phase'[j] = phase[j] /\ outcome'[j] = outcome[j]
    BY <1>20 DEF FinalizeTerminal, Finalized, BatchInv, TypeOK
  <2>3. UNCHANGED <<aborted, tool, cause>>
    BY <1>20 DEF FinalizeTerminal, Finalized
  <2>4. QED
    BY <2>1, <2>2, <2>3 DEF BatchInv, RunsOnAfterTimeout
<1>21. ASSUME NEW i \in Call, EmitEnd(i) PROVE RunsOnAfterTimeout'
  BY <1>21 DEF BatchInv, RunsOnAfterTimeout, EmitEnd
<1>22. ASSUME NEW i \in Call, AfterHookReturns(i) PROVE RunsOnAfterTimeout'
  BY <1>22 DEF BatchInv, RunsOnAfterTimeout, AfterHookReturns, Finalized
<1>23. ASSUME NEW i \in Call, ToolSettles(i) PROVE RunsOnAfterTimeout'
  BY <1>23 DEF BatchInv, RunsOnAfterTimeout, ToolSettles
<1>24. ASSUME NEW i \in Call, TimerFires(i) PROVE RunsOnAfterTimeout'
  BY <1>24 DEF BatchInv, RunsOnAfterTimeout, TimerFires
<1>25. ASSUME NEW i \in Call, LateSettlement(i) PROVE RunsOnAfterTimeout'
  BY <1>25 DEF BatchInv, RunsOnAfterTimeout, LateSettlement, call
<1>26. CASE Abort
  BY <1>26 DEF BatchInv, RunsOnAfterTimeout, Abort
<1>27. CASE UNCHANGED vars
  BY <1>27 DEF BatchInv, RunsOnAfterTimeout, vars, call
<1>28. QED
  BY <1>1, <1>2, <1>3, <1>4, <1>5, <1>6, <1>7, <1>8, <1>9, <1>10, <1>11, <1>12, <1>13,
     <1>14,
     <1>15, <1>16, <1>17, <1>18, <1>19, <1>20, <1>21, <1>22, <1>23, <1>24, <1>25, <1>26,
     <1>27 DEF Next, Runner, Executor

\* The runner goes on only after the sublevel has joined, and its tools have settled or
\* the batch stops.
LEMMA BarrierKept == BatchInv /\ [Next]_vars => Barrier'
<1> SUFFICES ASSUME BatchInv, [Next]_vars PROVE Barrier'
  OBVIOUS
<1>1. CASE Schedule
  BY <1>1 DEF BatchInv, Barrier, Quiet, Schedule, call
<1>2. CASE BeginLevel
  BY <1>2 DEF BatchInv, Barrier, Quiet, BeginLevel, call
<1>3. CASE EndLevels
  BY <1>3 DEF BatchInv, Barrier, Quiet, EndLevels, CloseBatch, call
<1>4. CASE EndLevel
  BY <1>4 DEF BatchInv, Barrier, Quiet, EndLevel, CloseBatch, call
<1>5. ASSUME NEW i \in Call, RefuseCall(i) PROVE Barrier'
  BY <1>5 DEF BatchInv, Barrier, Quiet, RefuseCall, AfterAuthorizing
<1>6. CASE RescheduleRunnable
  BY <1>6 DEF BatchInv, Barrier, Quiet, RescheduleRunnable, call
<1>7. CASE EndSublevels
  BY <1>7 DEF BatchInv, Barrier, Quiet, EndSublevels, call
<1>8. CASE EmitStarts
  BY <1>8 DEF BatchInv, Barrier, Quiet, EmitStarts, call
<1>9. CASE Launch
  BY <1>9 DEF BatchInv, Barrier, Quiet, Launch
<1>10. CASE Join
  BY <1>10 DEF BatchInv, AllIn, Barrier, Join, call
<1>11. CASE GraceSettled
  <2>1. ~ aborted => Quiet
    <3> SUFFICES ASSUME ~ aborted, NEW i \in Call, tool[i] = "running" PROVE FALSE
      BY DEF Quiet
    <3>1. i \in group /\ phase[i] = "final"
      BY <1>11 DEF GraceSettled, BatchInv, Barrier, AllIn
    <3>2. outcome[i].disposition = "timeout"
      BY <3>1 DEF BatchInv, RunsOnAfterTimeout
    <3>3. QED
      BY <1>11, <3>1, <3>2 DEF GraceSettled, Unsettled
  <2>2. QED
    BY <1>11, <2>1 DEF GraceSettled, Barrier, Quiet, call
<1>12. CASE GraceExpires
  BY <1>12 DEF Barrier, GraceExpires
<1>13. CASE EmitResult
  BY <1>13 DEF BatchInv, Barrier, Quiet, EmitResult, Emitted, call
<1>14. CASE EndBatch \/ EndTurn \/ NextTurn
  BY <1>14 DEF BatchInv, Barrier, Quiet, EndBatch, EndTurn, NextTurn, call
<1>15. CASE HandleFailure
  BY <1>15 DEF Barrier, HandleFailure
<1>16. CASE EmitClosure
  BY <1>16 DEF Barrier, EmitClosure, Emitted
<1>17. CASE EndFailure
  BY <1>17 DEF Barrier, EndFailure
<1>18. ASSUME NEW i \in Call, HookReturns(i) PROVE Barrier'
  BY <1>18 DEF BatchInv, Barrier, Quiet, HookReturns, AfterAuthorizing
<1>19. ASSUME NEW i \in Call, RaceSettles(i) PROVE Barrier'
  BY <1>19 DEF BatchInv, AllIn, Barrier, Quiet, RaceSettles
<1>20. ASSUME NEW i \in Call, FinalizeTerminal(i) PROVE Barrier'
  BY <1>20 DEF BatchInv, TypeOK, AllIn, Barrier, Quiet, FinalizeTerminal, Finalized
<1>21. ASSUME NEW i \in Call, EmitEnd(i) PROVE Barrier'
  BY <1>21 DEF BatchInv, AllIn, Barrier, Quiet, EmitEnd
<1>22. ASSUME NEW i \in Call, AfterHookReturns(i) PROVE Barrier'
  BY <1>22 DEF BatchInv, AllIn, Barrier, Quiet, AfterHookReturns, Finalized
<1>23. ASSUME NEW i \in Call, ToolSettles(i) PROVE Barrier'
  BY <1>23 DEF BatchInv, AllIn, Barrier, Quiet, ToolSettles
<1>24. ASSUME NEW i \in Call, TimerFires(i) PROVE Barrier'
  BY <1>24 DEF BatchInv, AllIn, Barrier, Quiet, TimerFires
<1>25. ASSUME NEW i \in Call, LateSettlement(i) PROVE Barrier'
  BY <1>25 DEF BatchInv, AllIn, Barrier, Quiet, LateSettlement, call
<1>26. CASE Abort
  BY <1>26 DEF BatchInv, AllIn, Barrier, Quiet, Abort, Over
<1>27. CASE UNCHANGED vars
  BY <1>27 DEF BatchInv, AllIn, Barrier, Quiet, vars, call
<1>28. QED
  BY <1>1, <1>2, <1>3, <1>4, <1>5, <1>6, <1>7, <1>8, <1>9, <1>10, <1>11, <1>12, <1>13,
     <1>14,
     <1>15, <1>16, <1>17, <1>18, <1>19, <1>20, <1>21, <1>22, <1>23, <1>24, <1>25, <1>26,
     <1>27 DEF Next, Runner, Executor

\* A launch starts calls of one sublevel, when no tool runs.
LEMMA OverlapKept == BatchInv /\ [Next]_vars => NoConflictingOverlap'
<1> SUFFICES ASSUME BatchInv, [Next]_vars PROVE NoConflictingOverlap'
  OBVIOUS
<1>1. CASE Schedule
  BY <1>1 DEF BatchInv, NoConflictingOverlap, Schedule, call
<1>2. CASE BeginLevel
  BY <1>2 DEF BatchInv, NoConflictingOverlap, BeginLevel, call
<1>3. CASE EndLevels
  BY <1>3 DEF BatchInv, NoConflictingOverlap, EndLevels, call
<1>4. CASE EndLevel
  BY <1>4 DEF BatchInv, NoConflictingOverlap, EndLevel, call
<1>5. ASSUME NEW i \in Call, RefuseCall(i) PROVE NoConflictingOverlap'
  BY <1>5 DEF BatchInv, NoConflictingOverlap, RefuseCall, Immediate, AfterAuthorizing
<1>6. CASE RescheduleRunnable
  BY <1>6 DEF BatchInv, NoConflictingOverlap, RescheduleRunnable, call
<1>7. CASE EndSublevels
  BY <1>7 DEF BatchInv, NoConflictingOverlap, EndSublevels, call
<1>8. CASE EmitStarts
  BY <1>8 DEF BatchInv, NoConflictingOverlap, EmitStarts, call
<1>9. CASE Launch
  <2>1. CASE aborted
    BY <1>9, <2>1 DEF Launch, BatchInv, NoConflictingOverlap
  <2>2. CASE ~ aborted
    <3>1. \A i \in Call : tool'[i] = "running" => i \in group
      BY <1>9, <2>2 DEF Launch, BatchInv, TypeOK, Barrier, Quiet
    <3>2. \A i, j \in group : i # j => ~ resolutionsConflict(claims[i], claims[j])
      <4> SUFFICES ASSUME NEW i \in group, NEW j \in group, i # j
                   PROVE  ~ resolutionsConflict(claims[i], claims[j])
        OBVIOUS
      <4>1. i \in Call /\ j \in Call /\ claims \in [Call -> Resolution]
        BY DEF BatchInv, TypeOK
      <4>2. ConflictFree(group)
        BY <1>9 DEF Launch, BatchInv, SublevelsAhead
      <4>3. claims[i] \in Resolution /\ claims[j] \in Resolution /\ (i < j \/ j < i)
        <5>1. i \in Int /\ j \in Int
          BY <4>1 DEF Call
        <5>2. QED
          BY <4>1, <5>1
      <4>4. QED
        BY <4>2, <4>3, ConflictsBothWays DEF ConflictFree
    <3>3. claims' = claims
      BY <1>9 DEF Launch
    <3>4. QED
      BY <3>1, <3>2, <3>3 DEF NoConflictingOverlap
  <2>3. QED
    BY <2>1, <2>2
<1>10. CASE Join
  BY <1>10 DEF BatchInv, NoConflictingOverlap, Join, call
<1>11. CASE GraceSettled
  BY <1>11 DEF BatchInv, NoConflictingOverlap, GraceSettled, call
<1>12. CASE GraceExpires
  BY <1>12 DEF BatchInv, NoConflictingOverlap, GraceExpires, call
<1>13. CASE EmitResult
  BY <1>13 DEF BatchInv, NoConflictingOverlap, EmitResult, call
<1>14. CASE EndBatch \/ EndTurn \/ NextTurn
  BY <1>14 DEF BatchInv, NoConflictingOverlap, EndBatch, EndTurn, NextTurn, call
<1>15. CASE HandleFailure
  BY <1>15 DEF BatchInv, NoConflictingOverlap, HandleFailure, call
<1>16. CASE EmitClosure
  BY <1>16 DEF BatchInv, NoConflictingOverlap, EmitClosure, call
<1>17. CASE EndFailure
  BY <1>17 DEF BatchInv, NoConflictingOverlap, EndFailure, call
<1>18. ASSUME NEW i \in Call, HookReturns(i) PROVE NoConflictingOverlap'
  BY <1>18 DEF BatchInv, NoConflictingOverlap, Barrier, Quiet, HookReturns,
     AfterAuthorizing
<1>19. ASSUME NEW i \in Call, RaceSettles(i) PROVE NoConflictingOverlap'
  BY <1>19 DEF BatchInv, NoConflictingOverlap, RaceSettles
<1>20. ASSUME NEW i \in Call, FinalizeTerminal(i) PROVE NoConflictingOverlap'
  BY <1>20 DEF BatchInv, NoConflictingOverlap, FinalizeTerminal, Finalized
<1>21. ASSUME NEW i \in Call, EmitEnd(i) PROVE NoConflictingOverlap'
  BY <1>21 DEF BatchInv, NoConflictingOverlap, EmitEnd
<1>22. ASSUME NEW i \in Call, AfterHookReturns(i) PROVE NoConflictingOverlap'
  BY <1>22 DEF BatchInv, NoConflictingOverlap, AfterHookReturns, Finalized
<1>23. ASSUME NEW i \in Call, ToolSettles(i) PROVE NoConflictingOverlap'
  BY <1>23 DEF BatchInv, NoConflictingOverlap, ToolSettles
<1>24. ASSUME NEW i \in Call, TimerFires(i) PROVE NoConflictingOverlap'
  BY <1>24 DEF BatchInv, NoConflictingOverlap, TimerFires
<1>25. ASSUME NEW i \in Call, LateSettlement(i) PROVE NoConflictingOverlap'
  BY <1>25 DEF BatchInv, NoConflictingOverlap, LateSettlement, call
<1>26. CASE Abort
  BY <1>26 DEF BatchInv, NoConflictingOverlap, Abort
<1>27. CASE UNCHANGED vars
  BY <1>27 DEF BatchInv, NoConflictingOverlap, vars, call
<1>28. QED
  BY <1>1, <1>2, <1>3, <1>4, <1>5, <1>6, <1>7, <1>8, <1>9, <1>10, <1>11, <1>12, <1>13,
     <1>14,
     <1>15, <1>16, <1>17, <1>18, <1>19, <1>20, <1>21, <1>22, <1>23, <1>24, <1>25, <1>26,
     <1>27 DEF Next, Runner, Executor

\* The invariant holds at first.
LEMMA BatchInvInit == Init => BatchInv
<1> SUFFICES ASSUME Init PROVE BatchInv
  OBVIOUS
<1>1. TypeOK
  BY InitType
<1>2. Unlaunched /\ LevelsAhead /\ SublevelsAhead /\ Barrier
  BY DEF Init, Unlaunched, LevelsAhead, InLevels, AllIn, SublevelsAhead, Barrier, Quiet
<1>3. RunsOnAfterTimeout /\ NoConflictingOverlap
  BY DEF Init, RunsOnAfterTimeout, NoConflictingOverlap
<1>4. QED
  BY <1>1, <1>2, <1>3 DEF BatchInv

\* Every step keeps the invariant.
LEMMA BatchInvNext == BatchInv /\ [Next]_vars => BatchInv'
  BY NextType, UnlaunchedKept, LevelsKept, SublevelsKept, RunsOnKept, BarrierKept,
     OverlapKept
     DEF BatchInv

\* The invariant holds in every state.
LEMMA BatchInvHolds == Spec => []BatchInv
  BY BatchInvInit, BatchInvNext, PTL DEF Spec

\* Every reachable state is well typed.
THEOREM BatchTypeCorrect == Spec => []TypeOK
<1>1. BatchInv => TypeOK
  BY DEF BatchInv
<1>2. QED
  BY <1>1, BatchInvHolds, PTL

\* Two tools that run at the same time never conflict by the claims they run with,
\* whatever the hooks rewrote, also after a timeout, an abort or a rejected run.
THEOREM RunningToolsDoNotConflict == Spec => []NoConflictingOverlap
<1>1. BatchInv => NoConflictingOverlap
  BY DEF BatchInv
<1>2. QED
  BY <1>1, BatchInvHolds, PTL

\* Another provider request follows only when no tool of the batch runs.
THEOREM ContinuesQuietly == Spec => []ContinuesOnlyWhenQuiet
<1>1. BatchInv => ContinuesOnlyWhenQuiet
  BY DEF BatchInv, Barrier, Quiet, ContinuesOnlyWhenQuiet
<1>2. QED
  BY <1>1, BatchInvHolds, PTL

-------------------------------------------------------------------------------
(* Source order of the calls whose emitted arguments conflict. *)

Final(i) == phase[i] = "final"

In(s, i) == \E p \in DOMAIN s : i \in s[p]

\* While the run is not aborted every call is final or still to be reached.
NothingLost ==
  /\ \A i \in Call : phase[i] \in {"ending", "final"} => outcome[i].disposition # "none"
  /\ ~ aborted /\ (pc = "level" \/ (pc = "levelEnd" /\ stop # "unsettled")) =>
       \A i \in Call : Final(i) \/ In(levels, i)
  /\ ~ aborted /\ pc = "authorize" =>
       \A i \in Call : \/ Final(i) \/ In(levels, i)
                       \/ i \in unauthorized
                       \/ i \in level /\ phase[i] = "prepared"
  /\ ~ aborted /\ pc \in {"sublevel", "launch", "join", "grace"} =>
       \A i \in Call : \/ Final(i) \/ In(levels, i) \/ In(sublevels, i)
                       \/ pc # "sublevel" /\ i \in group

\* The levels to come are in source order, and only planned calls are prepared.
LevelsInOrder ==
  /\ InLevels => OrderedLevels(levels)
  /\ \A i \in Call : phase[i] = "prepared" => i \in plannable

\* The sublevels are made of the calls of the level in work.
SublevelsWithin ==
  /\ pc \in {"sublevel", "launch", "join", "grace"} =>
       \A p \in DOMAIN sublevels : sublevels[p] \subseteq level
  /\ pc = "launch" => group \subseteq level

\* What conflicts with a call of the level in work and comes before it is final, or
\* has no plan and will be refused before the first sublevel is made.
LevelIsNext ==
  ~ aborted /\ pc \in {"authorize", "sublevel", "launch", "join", "grace"} =>
    \A j \in level \cap plannable : \A i \in Call :
      i < j /\ resolutionsConflict(planned[i], planned[j]) =>
        Final(i) \/ (pc = "authorize" /\ i \in unauthorized \ plannable)

OrderInv ==
  NothingLost /\ LevelsInOrder /\ SublevelsWithin /\ LevelIsNext /\ ConflictsRunInSourceOrder

\* The calls of a sequence of levels are those of the first and of the others.
LEMMA InHeadOrTail ==
  ASSUME NEW s \in Seq(SUBSET Call), s # <<>>, NEW i
  PROVE  In(s, i) <=> i \in Head(s) \/ In(Tail(s), i)
<1>1. i \in Head(s) => In(s, i)
  BY HeadTaken DEF In
<1>2. In(Tail(s), i) => In(s, i)
  BY HeadTaken DEF In
<1>3. ASSUME In(s, i) PROVE i \in Head(s) \/ In(Tail(s), i)
  <2>1. PICK p \in DOMAIN s : i \in s[p]
    BY <1>3 DEF In
  <2>2. CASE p = 1
    BY <2>1, <2>2, HeadTaken
  <2>3. CASE p # 1
    BY <2>1, <2>3, HeadTaken DEF In
  <2>4. QED
    BY <2>2, <2>3
<1>4. QED
  BY <1>1, <1>2, <1>3

\* A refused call is final, with the disposition of the refusal.
LEMMA ImmediateEffect ==
  ASSUME TypeOK, NEW i \in Call, NEW d, Immediate(i, d)
  PROVE  phase'[i] = "final" /\ outcome'[i].disposition = d
<1>1. outcome \in [Call -> Outcome] /\ phase'[i] = "final"
  BY DEF Immediate, TypeOK
<1>2. outcome'[i] = [outcome[i] EXCEPT !.disposition = d]
  BY <1>1 DEF Immediate
<1>3. outcome[i] \in Outcome
  BY <1>1
<1>4. QED
  BY <1>1, <1>2, <1>3 DEF Outcome

\* The levels after the first are in source order among themselves.
LEMMA TailOrdered ==
  ASSUME NEW s \in Seq(SUBSET Call), s # <<>>, OrderedLevels(s)
  PROVE  OrderedLevels(Tail(s))
<1>1. \A p \in DOMAIN Tail(s) : Tail(s)[p] \subseteq plannable
  BY HeadTaken DEF OrderedLevels
<1>2. ASSUME NEW p \in DOMAIN Tail(s), NEW q \in DOMAIN Tail(s),
             NEW i \in Tail(s)[p] \cap plannable, NEW j \in Tail(s)[q] \cap plannable,
             i < j, resolutionsConflict(planned[i], planned[j])
      PROVE  p < q
  <2>1. p + 1 < q + 1
    BY <1>2, HeadTaken DEF OrderedLevels
  <2>2. p \in Nat /\ q \in Nat
    OBVIOUS
  <2>3. QED
    BY <2>1, <2>2
<1>3. QED
  BY <1>1, <1>2 DEF OrderedLevels

\* A call leaves the levels for the level in work, that for a sublevel, and that for a result.
LEMMA NothingLostKept == BatchInv /\ OrderInv /\ [Next]_vars => NothingLost'
<1> SUFFICES ASSUME BatchInv, OrderInv, [Next]_vars PROVE NothingLost'
  OBVIOUS
<1>1. CASE Schedule
  BY <1>1, BatchScheduled DEF BatchInv, TypeOK, NothingLost, In, LevelsAhead, AllIn,
     Schedule, call
<1>2. CASE BeginLevel
  <2>1. \A i \in Call : In(levels, i) => i \in unauthorized' \/ In(levels', i)
    BY <1>2, InHeadOrTail DEF BeginLevel, BatchInv, TypeOK
  <2>2. UNCHANGED <<phase, outcome, aborted>> /\ pc = "level" /\ pc' = "authorize"
    BY <1>2 DEF BeginLevel, call
  <2>3. QED
    BY <2>1, <2>2 DEF OrderInv, NothingLost, Final
<1>3. CASE EndLevels
  BY <1>3 DEF OrderInv, NothingLost, EndLevels, CloseBatch, call
<1>4. CASE EndLevel
  BY <1>4 DEF OrderInv, NothingLost, Final, EndLevel, CloseBatch, plan, call
<1>5. ASSUME NEW i \in Call, RefuseCall(i) PROVE NothingLost'
  <2>1. phase'[i] = "final" /\ outcome'[i].disposition # "none"
    BY <1>5, ImmediateEffect DEF RefuseCall, BatchInv
  <2>2. \A j \in Call \ {i} : phase'[j] = phase[j] /\ outcome'[j] = outcome[j]
    BY <1>5 DEF RefuseCall, Immediate, BatchInv, TypeOK
  <2>3. /\ unauthorized' = unauthorized \ {i} /\ UNCHANGED <<levels, level, aborted>>
        /\ pc = "authorize" /\ pc' = IF aborted THEN "levelEnd" ELSE pc
    BY <1>5 DEF RefuseCall, AfterAuthorizing
  <2>4. QED
    BY <2>1, <2>2, <2>3 DEF OrderInv, NothingLost, Final, In
<1>6. CASE RescheduleRunnable
  <2> DEFINE S == {i \in level : phase[i] = "prepared"}
  <2>1. \A i \in S : In(scheduleDagLevels(claims, S, maxToolConcurrency), i)
    <3>1. S \in SUBSET Call
      BY DEF BatchInv, TypeOK
    <3> HIDE DEF S
    <3>2. QED
      BY <3>1, CallsScheduled DEF In
  <2>2. /\ pc' = "sublevel" => ~ aborted /\ sublevels' = scheduleDagLevels(claims, S, maxToolConcurrency)
        /\ pc' = "levelEnd" => aborted
        /\ pc' \in {"sublevel", "levelEnd"} /\ pc = "authorize" /\ unauthorized = {}
        /\ UNCHANGED <<levels, level, phase, outcome, aborted>>
    BY <1>6 DEF RescheduleRunnable, call
  <2>3. pc' = "sublevel" => \A i \in level : phase[i] = "prepared" => In(sublevels', i)
    BY <2>1, <2>2
  <2> HIDE DEF S
  <2>4. QED
    BY <2>2, <2>3 DEF OrderInv, NothingLost, Final
<1>7. CASE EndSublevels
  BY <1>7 DEF OrderInv, NothingLost, Final, In, EndSublevels, plan, call
<1>8. CASE EmitStarts
  <2>1. \A i \in Call : In(sublevels, i) => i \in group' \/ In(sublevels', i)
    BY <1>8, InHeadOrTail DEF EmitStarts, BatchInv, TypeOK
  <2>2. UNCHANGED <<levels, phase, outcome, aborted>> /\ pc = "sublevel" /\ pc' \in {"launch", "failing"}
    BY <1>8 DEF EmitStarts, call
  <2>3. QED
    BY <2>1, <2>2 DEF OrderInv, NothingLost, Final
<1>9. CASE Launch
  <2>1. \A i \in Call : Final(i) => phase'[i] = "final"
    BY <1>9 DEF Launch, Final, BatchInv, TypeOK, SublevelsAhead, AllIn
  <2>2. \A i \in Call : phase'[i] \in {"ending", "final"} => phase[i] \in {"ending", "final"}
    BY <1>9 DEF Launch, BatchInv, TypeOK
  <2>3. UNCHANGED <<levels, sublevels, group, outcome, aborted>> /\ pc = "launch" /\ pc' = "join"
    BY <1>9 DEF Launch, plan
  <2>4. QED
    BY <2>1, <2>2, <2>3 DEF OrderInv, NothingLost, Final, In
<1>10. CASE Join
  BY <1>10 DEF OrderInv, NothingLost, Final, Join, plan, call
<1>11. CASE GraceSettled
  BY <1>11 DEF BatchInv, OrderInv, NothingLost, Final, AllIn, Barrier, GraceSettled,
     plan, call
<1>12. CASE GraceExpires
  BY <1>12 DEF OrderInv, NothingLost, GraceExpires, call
<1>13. CASE EmitResult
  BY <1>13 DEF OrderInv, NothingLost, EmitResult, Emitted, call
<1>14. CASE EndBatch \/ EndTurn \/ NextTurn
  BY <1>14 DEF OrderInv, NothingLost, EndBatch, EndTurn, NextTurn, call
<1>15. CASE HandleFailure
  BY <1>15 DEF OrderInv, NothingLost, HandleFailure, call
<1>16. CASE EmitClosure
  BY <1>16 DEF OrderInv, NothingLost, EmitClosure, Emitted, call
<1>17. CASE EndFailure
  BY <1>17 DEF OrderInv, NothingLost, EndFailure, call
<1>18. ASSUME NEW i \in Call, HookReturns(i) PROVE NothingLost'
  <2>1. \/ phase'[i] = "final" /\ outcome'[i].disposition # "none"
        \/ phase'[i] = "prepared" /\ outcome' = outcome /\ i \in level
    <3>1. Refusals \subseteq {"blocked", "failed"} /\ i \in level
      BY <1>18, BatchAssumption DEF HookReturns, BatchInv, TypeOK
    <3>2. CASE \E disposition \in Refusals : Immediate(i, disposition)
      BY <3>1, <3>2, ImmediateEffect DEF BatchInv
    <3>3. CASE phase' = [phase EXCEPT ![i] = "prepared"] /\ UNCHANGED outcome
      BY <3>1, <3>3 DEF BatchInv, TypeOK
    <3>4. QED
      BY <1>18, <3>2, <3>3 DEF HookReturns
  <2>2. \A j \in Call \ {i} : phase'[j] = phase[j] /\ outcome'[j] = outcome[j]
    BY <1>18 DEF HookReturns, Immediate, BatchInv, TypeOK
  <2>3. /\ unauthorized' = unauthorized \ {i} /\ UNCHANGED <<levels, level, aborted>>
        /\ pc = "authorize" /\ ~ aborted /\ pc' = "authorize"
    BY <1>18 DEF HookReturns, AfterAuthorizing
  <2>4. QED
    BY <2>1, <2>2, <2>3 DEF OrderInv, NothingLost, Final, In
<1>19. ASSUME NEW i \in Call, RaceSettles(i) PROVE NothingLost'
  BY <1>19 DEF OrderInv, NothingLost, Final, RaceSettles, plan
<1>20. ASSUME NEW i \in Call, FinalizeTerminal(i) PROVE NothingLost'
  <2>1. /\ phase[i] = "finalizing" /\ phase'[i] = "ending"
        /\ \A j \in Call \ {i} : phase'[j] = phase[j] /\ outcome'[j] = outcome[j]
    BY <1>20 DEF FinalizeTerminal, Finalized, BatchInv, TypeOK
  <2>2. outcome'[i].disposition # "none"
    BY <1>20 DEF FinalizeTerminal, Finalized, BatchInv, TypeOK
  <2>3. UNCHANGED <<levels, level, unauthorized, sublevels, group, aborted, stop, pc>>
    BY <1>20 DEF FinalizeTerminal, Finalized, plan
  <2>4. QED
    BY <2>1, <2>2, <2>3 DEF OrderInv, NothingLost, Final, In
<1>21. ASSUME NEW i \in Call, EmitEnd(i) PROVE NothingLost'
  <2>1. phase'[i] = "final" /\ outcome[i].disposition # "none"
    BY <1>21 DEF EmitEnd, BatchInv, TypeOK, OrderInv, NothingLost
  <2>2. phase[i] = "ending" /\ \A j \in Call \ {i} : phase'[j] = phase[j]
    BY <1>21 DEF EmitEnd, BatchInv, TypeOK
  <2>3. /\ UNCHANGED <<levels, level, unauthorized, sublevels, group, outcome, aborted, stop>>
        /\ pc' \in {pc, "failing"}
    BY <1>21 DEF EmitEnd, plan
  <2>4. QED
    BY <2>1, <2>2, <2>3 DEF OrderInv, NothingLost, Final, In
<1>22. ASSUME NEW i \in Call, AfterHookReturns(i) PROVE NothingLost'
  <2>1. phase'[i] = "ending" /\ outcome'[i].disposition # "none"
    BY <1>22, BatchAssumption DEF AfterHookReturns, Finalized, BatchInv, TypeOK
  <2>2. /\ phase[i] = "finalizing"
        /\ \A j \in Call \ {i} : phase'[j] = phase[j] /\ outcome'[j] = outcome[j]
    BY <1>22 DEF AfterHookReturns, Finalized, BatchInv, TypeOK
  <2>3. UNCHANGED <<levels, level, unauthorized, sublevels, group, aborted, stop, pc>>
    BY <1>22 DEF AfterHookReturns, Finalized, plan
  <2>4. QED
    BY <2>1, <2>2, <2>3 DEF OrderInv, NothingLost, Final, In
<1>23. ASSUME NEW i \in Call, ToolSettles(i) PROVE NothingLost'
  BY <1>23 DEF OrderInv, NothingLost, Final, ToolSettles, plan
<1>24. ASSUME NEW i \in Call, TimerFires(i) PROVE NothingLost'
  BY <1>24 DEF OrderInv, NothingLost, Final, TimerFires, plan
<1>25. ASSUME NEW i \in Call, LateSettlement(i) PROVE NothingLost'
  BY <1>25 DEF OrderInv, NothingLost, Final, LateSettlement, plan, call
<1>26. CASE Abort
  BY <1>26 DEF OrderInv, NothingLost, Abort
<1>27. CASE UNCHANGED vars
  BY <1>27 DEF OrderInv, NothingLost, Final, vars, plan, call
<1>28. QED
  BY <1>1, <1>2, <1>3, <1>4, <1>5, <1>6, <1>7, <1>8, <1>9, <1>10, <1>11, <1>12, <1>13,
     <1>14,
     <1>15, <1>16, <1>17, <1>18, <1>19, <1>20, <1>21, <1>22, <1>23, <1>24, <1>25, <1>26,
     <1>27 DEF Next, Runner, Executor

\* The levels are ordered by the scheduler and are only ever taken off the front.
LEMMA LevelsInOrderKept == BatchInv /\ OrderInv /\ [Next]_vars => LevelsInOrder'
<1> SUFFICES ASSUME BatchInv, OrderInv, [Next]_vars PROVE LevelsInOrder'
  OBVIOUS
<1>1. CASE Schedule
  BY <1>1, BatchScheduled DEF BatchInv, TypeOK, LevelsInOrder, OrderedLevels,
     LevelsAhead, AllIn, Schedule, call
<1>2. CASE BeginLevel
  <2>1. OrderedLevels(levels')
    BY <1>2, TailOrdered DEF BeginLevel, BatchInv, TypeOK, OrderInv, LevelsInOrder,
       InLevels
  <2>2. UNCHANGED <<planned, plannable, phase>>
    BY <1>2 DEF BeginLevel, call
  <2>3. QED
    BY <2>1, <2>2 DEF OrderInv, LevelsInOrder, OrderedLevels
<1>3. CASE EndLevels
  BY <1>3 DEF OrderInv, LevelsInOrder, InLevels, EndLevels, CloseBatch, plan, call
<1>4. CASE EndLevel
  BY <1>4 DEF OrderInv, LevelsInOrder, OrderedLevels, InLevels, EndLevel, plan, call
<1>5. ASSUME NEW i \in Call, RefuseCall(i) PROVE LevelsInOrder'
  BY <1>5 DEF BatchInv, OrderInv, TypeOK, LevelsInOrder, OrderedLevels, InLevels,
     RefuseCall, Immediate, AfterAuthorizing
<1>6. CASE RescheduleRunnable
  BY <1>6 DEF OrderInv, LevelsInOrder, OrderedLevels, InLevels, RescheduleRunnable, call
<1>7. CASE EndSublevels
  BY <1>7 DEF OrderInv, LevelsInOrder, OrderedLevels, InLevels, EndSublevels, plan, call
<1>8. CASE EmitStarts
  BY <1>8 DEF OrderInv, LevelsInOrder, OrderedLevels, InLevels, EmitStarts, call
<1>9. CASE Launch
  BY <1>9 DEF OrderInv, LevelsInOrder, OrderedLevels, InLevels, Launch, plan
<1>10. CASE Join
  BY <1>10 DEF OrderInv, LevelsInOrder, OrderedLevels, InLevels, Join, plan, call
<1>11. CASE GraceSettled
  BY <1>11 DEF OrderInv, LevelsInOrder, OrderedLevels, InLevels, GraceSettled, plan,
     call
<1>12. CASE GraceExpires
  BY <1>12 DEF OrderInv, LevelsInOrder, OrderedLevels, InLevels, GraceExpires, plan,
     call
<1>13. CASE EmitResult
  BY <1>13 DEF OrderInv, LevelsInOrder, InLevels, EmitResult, Emitted, plan, call
<1>14. CASE EndBatch \/ EndTurn \/ NextTurn
  BY <1>14 DEF OrderInv, LevelsInOrder, InLevels, EndBatch, EndTurn, NextTurn, plan, call
<1>15. CASE HandleFailure
  BY <1>15 DEF OrderInv, LevelsInOrder, InLevels, HandleFailure, plan, call
<1>16. CASE EmitClosure
  BY <1>16 DEF OrderInv, LevelsInOrder, InLevels, EmitClosure, Emitted, plan, call
<1>17. CASE EndFailure
  BY <1>17 DEF OrderInv, LevelsInOrder, InLevels, EndFailure, plan, call
<1>18. ASSUME NEW i \in Call, HookReturns(i) PROVE LevelsInOrder'
  BY <1>18 DEF BatchInv, OrderInv, TypeOK, LevelsInOrder, OrderedLevels, InLevels,
     HookReturns, Immediate, AfterAuthorizing
<1>19. ASSUME NEW i \in Call, RaceSettles(i) PROVE LevelsInOrder'
  BY <1>19 DEF OrderInv, LevelsInOrder, OrderedLevels, InLevels, RaceSettles, plan
<1>20. ASSUME NEW i \in Call, FinalizeTerminal(i) PROVE LevelsInOrder'
  BY <1>20 DEF BatchInv, OrderInv, TypeOK, LevelsInOrder, OrderedLevels, InLevels,
     FinalizeTerminal, Finalized, plan
<1>21. ASSUME NEW i \in Call, EmitEnd(i) PROVE LevelsInOrder'
  BY <1>21 DEF OrderInv, LevelsInOrder, OrderedLevels, InLevels, EmitEnd, plan
<1>22. ASSUME NEW i \in Call, AfterHookReturns(i) PROVE LevelsInOrder'
  BY <1>22 DEF OrderInv, LevelsInOrder, OrderedLevels, InLevels, AfterHookReturns,
     Finalized, plan
<1>23. ASSUME NEW i \in Call, ToolSettles(i) PROVE LevelsInOrder'
  BY <1>23 DEF OrderInv, LevelsInOrder, OrderedLevels, InLevels, ToolSettles, plan
<1>24. ASSUME NEW i \in Call, TimerFires(i) PROVE LevelsInOrder'
  BY <1>24 DEF OrderInv, LevelsInOrder, OrderedLevels, InLevels, TimerFires, plan
<1>25. ASSUME NEW i \in Call, LateSettlement(i) PROVE LevelsInOrder'
  BY <1>25 DEF OrderInv, LevelsInOrder, OrderedLevels, InLevels, LateSettlement, plan,
     call
<1>26. CASE Abort
  BY <1>26 DEF OrderInv, LevelsInOrder, OrderedLevels, InLevels, Abort, plan
<1>27. CASE UNCHANGED vars
  BY <1>27 DEF OrderInv, LevelsInOrder, OrderedLevels, InLevels, vars, plan, call
<1>28. QED
  BY <1>1, <1>2, <1>3, <1>4, <1>5, <1>6, <1>7, <1>8, <1>9, <1>10, <1>11, <1>12, <1>13,
     <1>14,
     <1>15, <1>16, <1>17, <1>18, <1>19, <1>20, <1>21, <1>22, <1>23, <1>24, <1>25, <1>26,
     <1>27 DEF Next, Runner, Executor

\* Sublevels are made of the calls of one level.
LEMMA SublevelsWithinKept == BatchInv /\ OrderInv /\ [Next]_vars => SublevelsWithin'
<1> SUFFICES ASSUME BatchInv, OrderInv, [Next]_vars PROVE SublevelsWithin'
  OBVIOUS
<1>1. CASE Schedule
  BY <1>1 DEF SublevelsWithin, Schedule
<1>2. CASE BeginLevel
  BY <1>2 DEF SublevelsWithin, BeginLevel
<1>3. CASE EndLevels
  BY <1>3 DEF SublevelsWithin, EndLevels, CloseBatch
<1>4. CASE EndLevel
  BY <1>4 DEF SublevelsWithin, EndLevel, CloseBatch
<1>5. ASSUME NEW i \in Call, RefuseCall(i) PROVE SublevelsWithin'
  BY <1>5 DEF SublevelsWithin, RefuseCall, AfterAuthorizing
<1>6. CASE RescheduleRunnable
  <2> DEFINE S == {i \in level : phase[i] = "prepared"}
             s == scheduleDagLevels(claims, S, maxToolConcurrency)
  <2>1. \A p \in DOMAIN s : s[p] \subseteq S
    <3>1. S \in SUBSET Call
      BY DEF BatchInv, TypeOK
    <3> HIDE DEF S
    <3>2. QED
      BY <3>1, CallsScheduled
  <2>2. \A p \in DOMAIN s : s[p] \subseteq level
    <3> HIDE DEF s
    <3> QED
      BY <2>1
  <2>3. pc' \in {"sublevel", "levelEnd"} /\ level' = level /\ (pc' = "sublevel" => sublevels' = s)
    BY <1>6 DEF RescheduleRunnable
  <2> HIDE DEF s
  <2>4. QED
    BY <2>2, <2>3 DEF SublevelsWithin
<1>7. CASE EndSublevels
  BY <1>7 DEF SublevelsWithin, EndSublevels
<1>8. CASE EmitStarts
  BY <1>8, HeadTaken DEF OrderInv, SublevelsWithin, EmitStarts
<1>9. CASE Launch
  BY <1>9 DEF OrderInv, SublevelsWithin, Launch, plan
<1>10. CASE Join
  BY <1>10 DEF OrderInv, SublevelsWithin, Join, plan
<1>11. CASE GraceSettled
  BY <1>11 DEF OrderInv, SublevelsWithin, GraceSettled, plan
<1>12. CASE GraceExpires
  BY <1>12 DEF SublevelsWithin, GraceExpires
<1>13. CASE EmitResult
  BY <1>13 DEF SublevelsWithin, EmitResult, Emitted
<1>14. CASE EndBatch \/ EndTurn \/ NextTurn
  BY <1>14 DEF SublevelsWithin, EndBatch, EndTurn, NextTurn
<1>15. CASE HandleFailure
  BY <1>15 DEF SublevelsWithin, HandleFailure
<1>16. CASE EmitClosure
  BY <1>16 DEF SublevelsWithin, EmitClosure, Emitted
<1>17. CASE EndFailure
  BY <1>17 DEF SublevelsWithin, EndFailure
<1>18. ASSUME NEW i \in Call, HookReturns(i) PROVE SublevelsWithin'
  BY <1>18 DEF SublevelsWithin, HookReturns, AfterAuthorizing
<1>19. ASSUME NEW i \in Call, RaceSettles(i) PROVE SublevelsWithin'
  BY <1>19 DEF OrderInv, SublevelsWithin, RaceSettles, plan
<1>20. ASSUME NEW i \in Call, FinalizeTerminal(i) PROVE SublevelsWithin'
  BY <1>20 DEF OrderInv, SublevelsWithin, FinalizeTerminal, Finalized, plan
<1>21. ASSUME NEW i \in Call, EmitEnd(i) PROVE SublevelsWithin'
  BY <1>21 DEF OrderInv, SublevelsWithin, EmitEnd, plan
<1>22. ASSUME NEW i \in Call, AfterHookReturns(i) PROVE SublevelsWithin'
  BY <1>22 DEF OrderInv, SublevelsWithin, AfterHookReturns, Finalized, plan
<1>23. ASSUME NEW i \in Call, ToolSettles(i) PROVE SublevelsWithin'
  BY <1>23 DEF OrderInv, SublevelsWithin, ToolSettles, plan
<1>24. ASSUME NEW i \in Call, TimerFires(i) PROVE SublevelsWithin'
  BY <1>24 DEF OrderInv, SublevelsWithin, TimerFires, plan
<1>25. ASSUME NEW i \in Call, LateSettlement(i) PROVE SublevelsWithin'
  BY <1>25 DEF OrderInv, SublevelsWithin, LateSettlement, plan
<1>26. CASE Abort
  BY <1>26 DEF OrderInv, SublevelsWithin, Abort, plan
<1>27. CASE UNCHANGED vars
  BY <1>27 DEF OrderInv, SublevelsWithin, vars, plan
<1>28. QED
  BY <1>1, <1>2, <1>3, <1>4, <1>5, <1>6, <1>7, <1>8, <1>9, <1>10, <1>11, <1>12, <1>13,
     <1>14,
     <1>15, <1>16, <1>17, <1>18, <1>19, <1>20, <1>21, <1>22, <1>23, <1>24, <1>25, <1>26,
     <1>27 DEF Next, Runner, Executor

\* A level is begun when what precedes it in the plan is final.
LEMMA LevelIsNextKept == BatchInv /\ OrderInv /\ [Next]_vars => LevelIsNext'
<1> SUFFICES ASSUME BatchInv, OrderInv, [Next]_vars PROVE LevelIsNext'
  OBVIOUS
<1>1. CASE Schedule
  BY <1>1 DEF LevelIsNext, Schedule
<1>2. CASE BeginLevel
  <2> SUFFICES ASSUME ~ aborted, NEW j \in Head(levels) \cap plannable, NEW i \in Call,
                      i < j, resolutionsConflict(planned[i], planned[j])
               PROVE  Final(i) \/ i \in Head(levels) \ plannable
    BY <1>2 DEF BeginLevel, LevelIsNext, Final, call
  <2>1. levels \in Seq(SUBSET Call) /\ levels # <<>> /\ OrderedLevels(levels)
    BY <1>2 DEF BeginLevel, BatchInv, TypeOK, OrderInv, LevelsInOrder, InLevels
  <2>2. CASE Final(i)
    BY <2>2
  <2>3. CASE ~ Final(i)
    <3>1. PICK q \in DOMAIN levels : i \in levels[q]
      BY <1>2, <2>3 DEF BeginLevel, OrderInv, NothingLost, In
    <3>2. 1 \in DOMAIN levels /\ Head(levels) = levels[1] /\ ~ (q < 1)
      BY <2>1, HeadTaken
    <3>3. i \notin plannable
      BY <2>1, <3>1, <3>2 DEF OrderedLevels
    <3>4. q = 1
      BY <2>1, <3>1, <3>3 DEF OrderedLevels
    <3>5. QED
      BY <3>1, <3>2, <3>3, <3>4
  <2>4. QED
    BY <2>2, <2>3
<1>3. CASE EndLevels
  BY <1>3 DEF LevelIsNext, EndLevels, CloseBatch
<1>4. CASE EndLevel
  BY <1>4 DEF LevelIsNext, EndLevel, CloseBatch
<1>5. ASSUME NEW i \in Call, RefuseCall(i) PROVE LevelIsNext'
  BY <1>5 DEF BatchInv, OrderInv, TypeOK, LevelIsNext, Final, RefuseCall, Immediate,
     AfterAuthorizing
<1>6. CASE RescheduleRunnable
  BY <1>6 DEF OrderInv, LevelIsNext, Final, RescheduleRunnable, call
<1>7. CASE EndSublevels
  BY <1>7 DEF LevelIsNext, EndSublevels
<1>8. CASE EmitStarts
  BY <1>8 DEF OrderInv, LevelIsNext, Final, EmitStarts, call
<1>9. CASE Launch
  BY <1>9 DEF BatchInv, OrderInv, LevelIsNext, Final, SublevelsAhead, AllIn, Launch,
     plan
<1>10. CASE Join
  BY <1>10 DEF OrderInv, LevelIsNext, Final, Join, plan, call
<1>11. CASE GraceSettled
  BY <1>11 DEF OrderInv, LevelIsNext, Final, GraceSettled, plan, call
<1>12. CASE GraceExpires
  BY <1>12 DEF LevelIsNext, GraceExpires
<1>13. CASE EmitResult
  BY <1>13 DEF LevelIsNext, EmitResult, Emitted
<1>14. CASE EndBatch \/ EndTurn \/ NextTurn
  BY <1>14 DEF LevelIsNext, EndBatch, EndTurn, NextTurn
<1>15. CASE HandleFailure
  BY <1>15 DEF LevelIsNext, HandleFailure
<1>16. CASE EmitClosure
  BY <1>16 DEF LevelIsNext, EmitClosure, Emitted
<1>17. CASE EndFailure
  BY <1>17 DEF LevelIsNext, EndFailure
<1>18. ASSUME NEW i \in Call, HookReturns(i) PROVE LevelIsNext'
  BY <1>18 DEF BatchInv, OrderInv, TypeOK, LevelIsNext, Final, LevelsAhead, AllIn,
     HookReturns, Immediate, AfterAuthorizing
<1>19. ASSUME NEW i \in Call, RaceSettles(i) PROVE LevelIsNext'
  BY <1>19 DEF OrderInv, LevelIsNext, Final, RaceSettles, plan
<1>20. ASSUME NEW i \in Call, FinalizeTerminal(i) PROVE LevelIsNext'
  BY <1>20 DEF BatchInv, OrderInv, TypeOK, LevelIsNext, Final, FinalizeTerminal,
     Finalized, plan
<1>21. ASSUME NEW i \in Call, EmitEnd(i) PROVE LevelIsNext'
  BY <1>21 DEF OrderInv, LevelIsNext, Final, EmitEnd, plan
<1>22. ASSUME NEW i \in Call, AfterHookReturns(i) PROVE LevelIsNext'
  BY <1>22 DEF OrderInv, LevelIsNext, Final, AfterHookReturns, Finalized, plan
<1>23. ASSUME NEW i \in Call, ToolSettles(i) PROVE LevelIsNext'
  BY <1>23 DEF OrderInv, LevelIsNext, Final, ToolSettles, plan
<1>24. ASSUME NEW i \in Call, TimerFires(i) PROVE LevelIsNext'
  BY <1>24 DEF OrderInv, LevelIsNext, Final, TimerFires, plan
<1>25. ASSUME NEW i \in Call, LateSettlement(i) PROVE LevelIsNext'
  BY <1>25 DEF OrderInv, LevelIsNext, Final, LateSettlement, plan, call
<1>26. CASE Abort
  BY <1>26 DEF LevelIsNext, Abort
<1>27. CASE UNCHANGED vars
  BY <1>27 DEF OrderInv, LevelIsNext, Final, vars, plan, call
<1>28. QED
  BY <1>1, <1>2, <1>3, <1>4, <1>5, <1>6, <1>7, <1>8, <1>9, <1>10, <1>11, <1>12, <1>13,
     <1>14,
     <1>15, <1>16, <1>17, <1>18, <1>19, <1>20, <1>21, <1>22, <1>23, <1>24, <1>25, <1>26,
     <1>27 DEF Next, Runner, Executor

\* A launch starts calls of a level whose predecessors in the plan are final.
LEMMA SourceOrderKept == BatchInv /\ OrderInv /\ [Next]_vars => ConflictsRunInSourceOrder'
<1> SUFFICES ASSUME BatchInv, OrderInv, [Next]_vars PROVE ConflictsRunInSourceOrder'
  OBVIOUS
<1>1. CASE Schedule
  BY <1>1 DEF OrderInv, ConflictsRunInSourceOrder, Schedule, call
<1>2. CASE BeginLevel
  BY <1>2 DEF OrderInv, ConflictsRunInSourceOrder, BeginLevel, call
<1>3. CASE EndLevels
  BY <1>3 DEF OrderInv, ConflictsRunInSourceOrder, EndLevels, plan, call
<1>4. CASE EndLevel
  BY <1>4 DEF OrderInv, ConflictsRunInSourceOrder, EndLevel, plan, call
<1>5. ASSUME NEW i \in Call, RefuseCall(i) PROVE ConflictsRunInSourceOrder'
  BY <1>5 DEF BatchInv, OrderInv, TypeOK, ConflictsRunInSourceOrder, RefuseCall,
     Immediate, AfterAuthorizing
<1>6. CASE RescheduleRunnable
  BY <1>6 DEF OrderInv, ConflictsRunInSourceOrder, RescheduleRunnable, call
<1>7. CASE EndSublevels
  BY <1>7 DEF OrderInv, ConflictsRunInSourceOrder, EndSublevels, plan, call
<1>8. CASE EmitStarts
  BY <1>8 DEF OrderInv, ConflictsRunInSourceOrder, EmitStarts, call
<1>9. CASE Launch
  BY <1>9 DEF BatchInv, OrderInv, ConflictsRunInSourceOrder, LevelIsNext, LevelsInOrder,
     SublevelsWithin, Final, SublevelsAhead, AllIn, Launch, plan
<1>10. CASE Join
  BY <1>10 DEF OrderInv, ConflictsRunInSourceOrder, Join, plan, call
<1>11. CASE GraceSettled
  BY <1>11 DEF OrderInv, ConflictsRunInSourceOrder, GraceSettled, plan, call
<1>12. CASE GraceExpires
  BY <1>12 DEF OrderInv, ConflictsRunInSourceOrder, GraceExpires, plan, call
<1>13. CASE EmitResult
  BY <1>13 DEF OrderInv, ConflictsRunInSourceOrder, EmitResult, plan, call
<1>14. CASE EndBatch \/ EndTurn \/ NextTurn
  BY <1>14 DEF OrderInv, ConflictsRunInSourceOrder, EndBatch, EndTurn, NextTurn, plan, call
<1>15. CASE HandleFailure
  BY <1>15 DEF OrderInv, ConflictsRunInSourceOrder, HandleFailure, plan, call
<1>16. CASE EmitClosure
  BY <1>16 DEF OrderInv, ConflictsRunInSourceOrder, EmitClosure, plan, call
<1>17. CASE EndFailure
  BY <1>17 DEF OrderInv, ConflictsRunInSourceOrder, EndFailure, plan, call
<1>18. ASSUME NEW i \in Call, HookReturns(i) PROVE ConflictsRunInSourceOrder'
  BY <1>18 DEF BatchInv, OrderInv, TypeOK, ConflictsRunInSourceOrder, LevelsAhead,
     AllIn, HookReturns, Immediate, AfterAuthorizing
<1>19. ASSUME NEW i \in Call, RaceSettles(i) PROVE ConflictsRunInSourceOrder'
  BY <1>19 DEF OrderInv, ConflictsRunInSourceOrder, RaceSettles, plan
<1>20. ASSUME NEW i \in Call, FinalizeTerminal(i) PROVE ConflictsRunInSourceOrder'
  BY <1>20 DEF BatchInv, OrderInv, TypeOK, ConflictsRunInSourceOrder, FinalizeTerminal,
     Finalized, plan
<1>21. ASSUME NEW i \in Call, EmitEnd(i) PROVE ConflictsRunInSourceOrder'
  BY <1>21 DEF OrderInv, ConflictsRunInSourceOrder, EmitEnd, plan
<1>22. ASSUME NEW i \in Call, AfterHookReturns(i) PROVE ConflictsRunInSourceOrder'
  BY <1>22 DEF OrderInv, ConflictsRunInSourceOrder, AfterHookReturns, Finalized, plan
<1>23. ASSUME NEW i \in Call, ToolSettles(i) PROVE ConflictsRunInSourceOrder'
  BY <1>23 DEF OrderInv, ConflictsRunInSourceOrder, ToolSettles, plan
<1>24. ASSUME NEW i \in Call, TimerFires(i) PROVE ConflictsRunInSourceOrder'
  BY <1>24 DEF OrderInv, ConflictsRunInSourceOrder, TimerFires, plan
<1>25. ASSUME NEW i \in Call, LateSettlement(i) PROVE ConflictsRunInSourceOrder'
  BY <1>25 DEF OrderInv, ConflictsRunInSourceOrder, LateSettlement, plan, call
<1>26. CASE Abort
  BY <1>26 DEF OrderInv, ConflictsRunInSourceOrder, Abort, plan
<1>27. CASE UNCHANGED vars
  BY <1>27 DEF OrderInv, ConflictsRunInSourceOrder, vars, plan, call
<1>28. QED
  BY <1>1, <1>2, <1>3, <1>4, <1>5, <1>6, <1>7, <1>8, <1>9, <1>10, <1>11, <1>12, <1>13,
     <1>14,
     <1>15, <1>16, <1>17, <1>18, <1>19, <1>20, <1>21, <1>22, <1>23, <1>24, <1>25, <1>26,
     <1>27 DEF Next, Runner, Executor

\* The order of the plan holds at first.
LEMMA OrderInvInit == Init => OrderInv
<1> SUFFICES ASSUME Init PROVE OrderInv
  OBVIOUS
<1>1. NothingLost /\ LevelsInOrder
  BY DEF Init, NothingLost, LevelsInOrder, InLevels
<1>2. SublevelsWithin /\ LevelIsNext /\ ConflictsRunInSourceOrder
  BY DEF Init, SublevelsWithin, LevelIsNext, ConflictsRunInSourceOrder
<1>3. QED
  BY <1>1, <1>2 DEF OrderInv

\* Every step keeps the order of the plan.
LEMMA OrderInvNext == BatchInv /\ OrderInv /\ [Next]_vars => OrderInv'
  BY NothingLostKept, LevelsInOrderKept, SublevelsWithinKept, LevelIsNextKept,
     SourceOrderKept
     DEF OrderInv

\* The order of the plan is kept in every state.
LEMMA OrderInvHolds == Spec => []OrderInv
  BY OrderInvInit, OrderInvNext, BatchInvHolds, PTL DEF Spec

\* Of two calls whose emitted arguments conflict the later one never starts before
\* the earlier one is decided.
THEOREM SourceOrderIsKept == Spec => []ConflictsRunInSourceOrder
<1>1. OrderInv => ConflictsRunInSourceOrder
  BY DEF OrderInv
<1>2. QED
  BY <1>1, OrderInvHolds, PTL

-------------------------------------------------------------------------------
(* The barrier between two sublevels. *)

\* In a step that starts tools the run is not aborted and no tool is running.
Starts ==
  (\E i \in Call : tool[i] = "idle" /\ tool'[i] = "running") => ~ aborted /\ Quiet

\* Only a launch starts tools, and it does so behind the barrier.
LEMMA StartStep == BatchInv /\ [Next]_vars => Starts
<1> SUFFICES ASSUME BatchInv, [Next]_vars PROVE Starts
  OBVIOUS
<1>1. CASE Schedule
  BY <1>1 DEF Starts, Schedule, call
<1>2. CASE BeginLevel
  BY <1>2 DEF Starts, BeginLevel, call
<1>3. CASE EndLevels
  BY <1>3 DEF Starts, EndLevels, call
<1>4. CASE EndLevel
  BY <1>4 DEF Starts, EndLevel, call
<1>5. ASSUME NEW i \in Call, RefuseCall(i) PROVE Starts
  BY <1>5 DEF Starts, RefuseCall, AfterAuthorizing
<1>6. CASE RescheduleRunnable
  BY <1>6 DEF Starts, RescheduleRunnable, call
<1>7. CASE EndSublevels
  BY <1>7 DEF Starts, EndSublevels, call
<1>8. CASE EmitStarts
  BY <1>8 DEF Starts, EmitStarts, call
<1>9. CASE Launch
  BY <1>9 DEF BatchInv, Starts, Launch, Barrier
<1>10. CASE Join
  BY <1>10 DEF Starts, Join, call
<1>11. CASE GraceSettled
  BY <1>11 DEF Starts, GraceSettled, call
<1>12. CASE GraceExpires
  BY <1>12 DEF Starts, GraceExpires, call
<1>13. CASE EmitResult
  BY <1>13 DEF Starts, EmitResult, call
<1>14. CASE EndBatch \/ EndTurn \/ NextTurn
  BY <1>14 DEF Starts, EndBatch, EndTurn, NextTurn, call
<1>15. CASE HandleFailure
  BY <1>15 DEF Starts, HandleFailure, call
<1>16. CASE EmitClosure
  BY <1>16 DEF Starts, EmitClosure, call
<1>17. CASE EndFailure
  BY <1>17 DEF Starts, EndFailure, call
<1>18. ASSUME NEW i \in Call, HookReturns(i) PROVE Starts
  BY <1>18 DEF Starts, HookReturns, AfterAuthorizing
<1>19. ASSUME NEW i \in Call, RaceSettles(i) PROVE Starts
  BY <1>19 DEF Starts, RaceSettles
<1>20. ASSUME NEW i \in Call, FinalizeTerminal(i) PROVE Starts
  BY <1>20 DEF Starts, FinalizeTerminal, Finalized
<1>21. ASSUME NEW i \in Call, EmitEnd(i) PROVE Starts
  BY <1>21 DEF Starts, EmitEnd
<1>22. ASSUME NEW i \in Call, AfterHookReturns(i) PROVE Starts
  BY <1>22 DEF Starts, AfterHookReturns, Finalized
<1>23. ASSUME NEW i \in Call, ToolSettles(i) PROVE Starts
  BY <1>23 DEF Starts, ToolSettles
<1>24. ASSUME NEW i \in Call, TimerFires(i) PROVE Starts
  BY <1>24 DEF Starts, TimerFires
<1>25. ASSUME NEW i \in Call, LateSettlement(i) PROVE Starts
  BY <1>25 DEF Starts, LateSettlement, call
<1>26. CASE Abort
  BY <1>26 DEF Starts, Abort
<1>27. CASE UNCHANGED vars
  BY <1>27 DEF Starts, vars, call
<1>28. QED
  BY <1>1, <1>2, <1>3, <1>4, <1>5, <1>6, <1>7, <1>8, <1>9, <1>10, <1>11, <1>12, <1>13,
     <1>14,
     <1>15, <1>16, <1>17, <1>18, <1>19, <1>20, <1>21, <1>22, <1>23, <1>24, <1>25, <1>26,
     <1>27 DEF Next, Runner, Executor

\* A tool starts only in a run that is not aborted and after every tool of the
\* sublevels before its own has settled.
THEOREM BarrierHolds == Spec => StartsBehindBarrier
<1>1. BatchInv /\ [Next]_vars =>
        [\A i \in Call : tool[i] = "idle" /\ tool'[i] = "running" =>
           ~ aborted /\ \A j \in Call : tool[j] # "running"]_vars
  BY StartStep DEF Starts, Quiet
<1>2. QED
  BY <1>1, BatchInvHolds, PTL DEF Spec, StartsBehindBarrier

-------------------------------------------------------------------------------
(* The results in the transcript. *)

\* The results still to be emitted are those of the calls the transcript lacks.
PendingIsMissing ==
  /\ \A i \in Missing : \E r \in pending : r.call = i
  /\ \A r \in pending : r.call \in Missing
  /\ \A r, s \in pending : r.call = s.call => r = s

\* The transcript holds the results of the first calls, in source order.
TranscriptIsPrefix ==
  /\ \A k, l \in DOMAIN transcript : k < l => transcript[k].call < transcript[l].call
  /\ \A k \in DOMAIN transcript : \A i \in Missing : transcript[k].call < i

ResultInv ==
  /\ TranscriptIsPrefix
  /\ InLevels \/ pc = "schedule" => transcript = <<>>
  /\ pc \in {"emit", "closing"} => PendingIsMissing
  /\ pc \in {"turnEnd", "nextTurn", "provider", "ended"} => Missing = {}

\* Every call has a result when the batch is closed.
LEMMA ClosedCovers ==
  ASSUME NEW reason, CloseBatch(reason), UNCHANGED transcript, transcript = <<>>,
         reason # "no" \/ aborted \/ \A i \in Call : outcome[i].disposition # "none"
  PROVE  PendingIsMissing'
<1>1. pending' = {BatchResult(i) : i \in Call}
  BY DEF CloseBatch
<1>2. \A i \in Call : BatchResult(i).call = i
  BY DEF BatchResult
<1>3. Missing' = Call
  BY DEF Missing
<1>4. QED
  BY <1>1, <1>2, <1>3 DEF PendingIsMissing

\* A step that leaves the results alone.
LEMMA ResultFrame ==
  ASSUME ResultInv, UNCHANGED <<transcript, pending>>, pc' \in {pc, "failing"}
  PROVE  ResultInv'
<1>1. Missing' = Missing
  BY DEF Missing
<1>2. TranscriptIsPrefix' /\ (PendingIsMissing => PendingIsMissing')
  BY <1>1 DEF ResultInv, TranscriptIsPrefix, PendingIsMissing
<1>3. QED
  BY <1>1, <1>2 DEF ResultInv, InLevels

\* One result is emitted, or its emission failed.
LEMMA EmittedNext ==
  ASSUME TypeOK, TranscriptIsPrefix, PendingIsMissing,
         NEW r \in pending, NEW onFailure, Emitted(r, onFailure)
  PROVE  /\ TranscriptIsPrefix'
         /\ pc' \in {pc, onFailure}
         /\ pc' # onFailure => PendingIsMissing'
         /\ Missing' \in {Missing, Missing \ {r.call}}
<1>1. transcript \in Seq(Result) /\ r \in Result /\ r.call \in Missing /\ Missing \subseteq Call
  BY DEF TypeOK, PendingIsMissing, Missing
<1>2. CASE UNCHANGED <<transcript, pending>>
  <2>1. Missing' = Missing
    BY <1>2 DEF Missing
  <2>2. QED
    BY <1>2, <2>1 DEF Emitted, TranscriptIsPrefix, PendingIsMissing
<1>3. CASE transcript' = Append(transcript, r) /\ pending' = pending \ {r}
  <2>1. /\ DOMAIN transcript' = 1..(Len(transcript) + 1) /\ DOMAIN transcript = 1..Len(transcript)
        /\ transcript'[Len(transcript) + 1] = r
        /\ \A k \in DOMAIN transcript : transcript'[k] = transcript[k]
        /\ Len(transcript) \in Nat
    BY <1>1, <1>3
  <2>2. Missing' = Missing \ {r.call}
    <3>1. \A i \in Call : (\A k \in DOMAIN transcript' : transcript'[k].call # i) <=>
                          (\A k \in DOMAIN transcript : transcript[k].call # i) /\ r.call # i
      BY <2>1
    <3>2. QED
      BY <3>1 DEF Missing
  <2>3. \A i \in Missing \ {r.call} : r.call < i
    <3> SUFFICES ASSUME NEW i \in Missing \ {r.call} PROVE r.call < i
      OBVIOUS
    <3>1. PICK s \in pending : s.call = i
      BY DEF PendingIsMissing
    <3>2. r.call <= i /\ r.call # i /\ r.call \in Int /\ i \in Int
      <4>1. i \in Call /\ r.call \in Call /\ i # r.call
        BY <1>1
      <4>2. r.call <= s.call
        BY DEF Emitted
      <4>3. QED
        BY <3>1, <4>1, <4>2 DEF Call
    <3>3. QED
      BY <3>2
  <2>4. TranscriptIsPrefix'
    <3>1. ASSUME NEW k \in DOMAIN transcript', NEW l \in DOMAIN transcript', k < l
          PROVE  transcript'[k].call < transcript'[l].call
      <4>1. CASE l = Len(transcript) + 1
        BY <1>1, <2>1, <3>1, <4>1 DEF TranscriptIsPrefix
      <4>2. CASE l # Len(transcript) + 1
        BY <2>1, <3>1, <4>2 DEF TranscriptIsPrefix
      <4>3. QED
        BY <4>1, <4>2
    <3>2. ASSUME NEW k \in DOMAIN transcript', NEW i \in Missing'
          PROVE  transcript'[k].call < i
      <4>1. CASE k = Len(transcript) + 1
        BY <2>1, <2>2, <2>3, <4>1
      <4>2. CASE k # Len(transcript) + 1
        BY <2>1, <2>2, <4>2 DEF TranscriptIsPrefix
      <4>3. QED
        BY <4>1, <4>2
    <3>3. QED
      BY <3>1, <3>2 DEF TranscriptIsPrefix
  <2>5. PendingIsMissing'
    BY <1>3, <2>2 DEF PendingIsMissing
  <2>6. QED
    BY <1>3, <2>2, <2>4, <2>5 DEF Emitted
<1>4. QED
  BY <1>2, <1>3 DEF Emitted

\* Every step keeps the transcript a prefix, and its rest pending.
LEMMA ResultInvNext == BatchInv /\ OrderInv /\ ResultInv /\ [Next]_vars => ResultInv'
<1> SUFFICES ASSUME BatchInv, OrderInv, ResultInv, [Next]_vars PROVE ResultInv'
  OBVIOUS
<1>1. CASE Schedule
  BY <1>1 DEF ResultInv, TranscriptIsPrefix, Schedule, log
<1>2. CASE BeginLevel
  BY <1>2 DEF ResultInv, TranscriptIsPrefix, InLevels, BeginLevel, log
<1>3. CASE EndLevels
  <2>1. transcript = <<>> /\ UNCHANGED transcript /\ CloseBatch("no")
    BY <1>3 DEF EndLevels, ResultInv, InLevels
  <2>2. aborted \/ \A i \in Call : outcome[i].disposition # "none"
    BY <1>3 DEF EndLevels, OrderInv, NothingLost, Final, In
  <2>3. PendingIsMissing' /\ pc' = "emit"
    BY <2>1, <2>2, ClosedCovers DEF CloseBatch
  <2>4. QED
    BY <2>1, <2>3 DEF ResultInv, TranscriptIsPrefix, Missing, InLevels
<1>4. CASE EndLevel
  <2>1. transcript = <<>> /\ UNCHANGED transcript /\ TranscriptIsPrefix'
    BY <1>4 DEF EndLevel, ResultInv, InLevels, TranscriptIsPrefix, Missing
  <2>2. CASE pc' = "level"
    BY <2>1, <2>2 DEF ResultInv, InLevels
  <2>3. CASE pc' # "level"
    <3>1. PICK reason : CloseBatch(reason) /\ (reason # "no" \/ aborted)
      BY <1>4, <2>3 DEF EndLevel
    <3>2. PendingIsMissing' /\ pc' = "emit"
      BY <2>1, <3>1, ClosedCovers DEF CloseBatch
    <3>3. QED
      BY <2>1, <3>2 DEF ResultInv, InLevels
  <2>4. QED
    BY <2>2, <2>3
<1>5. ASSUME NEW i \in Call, RefuseCall(i) PROVE ResultInv'
  BY <1>5 DEF ResultInv, TranscriptIsPrefix, InLevels, RefuseCall, AfterAuthorizing, log
<1>6. CASE RescheduleRunnable
  BY <1>6 DEF ResultInv, TranscriptIsPrefix, InLevels, RescheduleRunnable, log
<1>7. CASE EndSublevels
  BY <1>7 DEF ResultInv, TranscriptIsPrefix, InLevels, EndSublevels, log
<1>8. CASE EmitStarts
  BY <1>8 DEF ResultInv, TranscriptIsPrefix, InLevels, EmitStarts, log
<1>9. CASE Launch
  BY <1>9 DEF ResultInv, TranscriptIsPrefix, InLevels, Launch, log
<1>10. CASE Join
  BY <1>10 DEF ResultInv, TranscriptIsPrefix, InLevels, Join, log
<1>11. CASE GraceSettled
  BY <1>11 DEF ResultInv, TranscriptIsPrefix, InLevels, GraceSettled, log
<1>12. CASE GraceExpires
  BY <1>12 DEF ResultInv, TranscriptIsPrefix, InLevels, GraceExpires, log
<1>13. CASE EmitResult
  <2>1. PICK r \in pending : Emitted(r, "failing")
    BY <1>13 DEF EmitResult
  <2>2. pc = "emit" /\ TypeOK /\ TranscriptIsPrefix /\ PendingIsMissing
    BY <1>13 DEF EmitResult, BatchInv, ResultInv
  <2>3. TranscriptIsPrefix' /\ pc' \in {"emit", "failing"} /\ (pc' = "emit" => PendingIsMissing')
    BY <2>1, <2>2, EmittedNext
  <2>4. QED
    BY <2>3 DEF ResultInv, InLevels
<1>14. CASE EndBatch \/ EndTurn \/ NextTurn
  <2>1. Missing = {} /\ UNCHANGED <<transcript, pending>> /\ ~ InLevels' /\ pc' # "schedule"
    BY <1>14 DEF EndBatch, EndTurn, NextTurn, ResultInv, PendingIsMissing, InLevels, log
  <2>2. QED
    BY <1>14, <2>1 DEF EndBatch, EndTurn, NextTurn, ResultInv, TranscriptIsPrefix, PendingIsMissing, Missing
<1>15. CASE HandleFailure
  <2>1. UNCHANGED transcript /\ Missing' = Missing /\ pc' = "closing"
    BY <1>15 DEF HandleFailure, Missing
  <2> DEFINE closure(i) == [call |-> i, disposition |-> "aborted", started |-> FALSE]
  <2>2. pending' = {[call |-> i, disposition |-> "aborted", started |-> FALSE] : i \in Missing}
    BY <1>15 DEF HandleFailure
  <2>3. /\ \A r \in pending' : r.call \in Missing
        /\ \A i \in Missing : \E r \in pending' : r.call = i
    <3>1. \A i \in Missing : closure(i) \in pending' /\ closure(i).call = i
      BY <2>2
    <3>2. \A r \in pending' : \E i \in Missing : r = closure(i)
      BY <2>2
    <3> HIDE DEF closure
    <3>3. \A r \in pending' : r.call \in Missing
      BY <3>1, <3>2
    <3>4. QED
      BY <3>1, <3>3
  <2>4. \A r, s \in pending' : r.call = s.call => r = s
    <3> SUFFICES ASSUME NEW r \in pending', NEW s \in pending', r.call = s.call PROVE r = s
      OBVIOUS
    <3>1. PICK i \in Missing : r = closure(i)
      BY <2>2
    <3>2. PICK j \in Missing : s = closure(j)
      BY <2>2
    <3>3. i = j
      BY <3>1, <3>2
    <3>4. QED
      BY <3>1, <3>2, <3>3
  <2>5. PendingIsMissing'
    BY <2>1, <2>3, <2>4 DEF PendingIsMissing
  <2>6. QED
    BY <2>1, <2>5 DEF ResultInv, TranscriptIsPrefix, InLevels
<1>16. CASE EmitClosure
  <2>1. PICK r \in pending : Emitted(r, "rejected")
    BY <1>16 DEF EmitClosure
  <2>2. pc = "closing" /\ TypeOK /\ TranscriptIsPrefix /\ PendingIsMissing
    BY <1>16 DEF EmitClosure, BatchInv, ResultInv
  <2>3. TranscriptIsPrefix' /\ pc' \in {"closing", "rejected"} /\ (pc' = "closing" => PendingIsMissing')
    BY <2>1, <2>2, EmittedNext
  <2>4. QED
    BY <2>3 DEF ResultInv, InLevels
<1>17. CASE EndFailure
  <2>1. Missing = {} /\ UNCHANGED <<transcript, pending>> /\ ~ InLevels' /\ pc' # "schedule"
    BY <1>17 DEF EndFailure, ResultInv, PendingIsMissing, InLevels, log
  <2>2. QED
    BY <1>17, <2>1 DEF EndFailure, ResultInv, TranscriptIsPrefix, PendingIsMissing,
       Missing
<1>18. ASSUME NEW i \in Call, HookReturns(i) PROVE ResultInv'
  BY <1>18 DEF ResultInv, TranscriptIsPrefix, InLevels, HookReturns, AfterAuthorizing,
     log
<1>19. ASSUME NEW i \in Call, RaceSettles(i) PROVE ResultInv'
  BY <1>19, ResultFrame DEF RaceSettles, log
<1>20. ASSUME NEW i \in Call, FinalizeTerminal(i) PROVE ResultInv'
  BY <1>20, ResultFrame DEF FinalizeTerminal, Finalized, log
<1>21. ASSUME NEW i \in Call, EmitEnd(i) PROVE ResultInv'
  BY <1>21, ResultFrame DEF EmitEnd, log
<1>22. ASSUME NEW i \in Call, AfterHookReturns(i) PROVE ResultInv'
  BY <1>22, ResultFrame DEF AfterHookReturns, Finalized, log
<1>23. ASSUME NEW i \in Call, ToolSettles(i) PROVE ResultInv'
  BY <1>23, ResultFrame DEF ToolSettles, log
<1>24. ASSUME NEW i \in Call, TimerFires(i) PROVE ResultInv'
  BY <1>24, ResultFrame DEF TimerFires, log
<1>25. ASSUME NEW i \in Call, LateSettlement(i) PROVE ResultInv'
  BY <1>25, ResultFrame DEF LateSettlement
<1>26. CASE Abort
  BY <1>26, ResultFrame DEF Abort, log
<1>27. CASE UNCHANGED vars
  BY <1>27 DEF ResultInv, TranscriptIsPrefix, PendingIsMissing, Missing, InLevels, vars,
     log
<1>28. QED
  BY <1>1, <1>2, <1>3, <1>4, <1>5, <1>6, <1>7, <1>8, <1>9, <1>10, <1>11, <1>12, <1>13,
     <1>14,
     <1>15, <1>16, <1>17, <1>18, <1>19, <1>20, <1>21, <1>22, <1>23, <1>24, <1>25, <1>26,
     <1>27 DEF Next, Runner, Executor

\* The transcript is a prefix of the results in every state.
LEMMA ResultInvHolds == Spec => []ResultInv
<1>1. Init => ResultInv
  BY DEF Init, ResultInv, TranscriptIsPrefix, InLevels
<1>2. QED
  BY <1>1, ResultInvNext, BatchInvHolds, OrderInvHolds, PTL DEF Spec

\* The transcript has at most one result per call, in source order, and one for
\* every call when the run has ended or goes on, whatever failed on the way.
THEOREM TranscriptIsComplete == Spec => []OneResultPerCall
<1>1. ResultInv => OneResultPerCall
  BY DEF ResultInv, TranscriptIsPrefix, OneResultPerCall
<1>2. QED
  BY <1>1, ResultInvHolds, PTL

-------------------------------------------------------------------------------
(* Late settlements. *)

\* A result tells of the timeout or the abort of its call; a call whose result does
\* not can no longer time out.
TellsCause(r) ==
  \/ r.disposition \in {"timeout", "aborted"}
  \/ /\ cause[r.call] \notin {"timeout", "aborted"}
     /\ phase[r.call] \notin {"racing", "finalizing", "ending"}

AtRest(i) == phase[i] \notin {"racing", "finalizing", "ending"}

\* Executors are at work while the runner joins them, and after it was abandoned.
ExecutorsJoined ==
  /\ pc \in {"schedule", "level", "authorize", "sublevel", "launch", "grace", "levelEnd", "emit",
             "turnEnd", "nextTurn"} =>
       \A i \in Call : AtRest(i)
  /\ pc = "join" => \A i \in Call : AtRest(i) \/ i \in group
  /\ \A i \in Call : phase[i] \in {"ending", "final"} /\ cause[i] \in {"timeout", "aborted"} =>
       outcome[i].disposition \in {"timeout", "aborted"}

ResultsTell ==
  /\ \A k \in DOMAIN transcript : TellsCause(transcript[k])
  /\ pc \in {"emit", "closing"} => \A r \in pending : TellsCause(r)

CommittedFirst ==
  /\ late \subseteq committed
  /\ \A i \in late : cause[i] \in {"timeout", "aborted"} /\ phase[i] # "racing"
  /\ InLevels \/ pc = "schedule" => committed = {}
  /\ pc = "emit" => committed \cap Missing = {}

AuditInv == ExecutorsJoined /\ ResultsTell /\ CommittedFirst

\* A step that leaves the results alone and no call that is at rest.
LEMMA TellsFrame ==
  ASSUME TypeOK, ResultsTell, UNCHANGED <<transcript, pending>>, pc' \in {pc, "failing"},
         \A i \in Call : AtRest(i) => phase'[i] \notin {"racing", "finalizing", "ending"}
                                      /\ cause'[i] = cause[i]
  PROVE  ResultsTell'
<1>1. \A r \in Result : TellsCause(r) => TellsCause(r)'
  BY DEF TellsCause, AtRest, Result
<1>2. pending \subseteq Result /\ \A k \in DOMAIN transcript : transcript[k] \in Result
  BY DEF TypeOK
<1>3. QED
  BY <1>1, <1>2 DEF ResultsTell

\* When the batch is closed every call is at rest, and its result tells its cause.
LEMMA ClosedTells ==
  ASSUME TypeOK, Unlaunched, ExecutorsJoined, \A i \in Call : AtRest(i),
         NEW reason, CloseBatch(reason), UNCHANGED call
  PROVE  \A r \in pending' : TellsCause(r)'
<1>1. ASSUME NEW i \in Call PROVE TellsCause(BatchResult(i))
  <2>1. BatchResult(i).call = i
    BY DEF BatchResult
  <2>2. CASE cause[i] \notin {"timeout", "aborted"}
    BY <2>1, <2>2 DEF TellsCause, AtRest
  <2>3. CASE cause[i] \in {"timeout", "aborted"}
    <3>1. phase[i] = "final"
      BY <2>3 DEF Unlaunched, AtRest, TypeOK
    <3>2. outcome[i].disposition \in {"timeout", "aborted"}
      BY <2>3, <3>1 DEF ExecutorsJoined
    <3>3. BatchResult(i).disposition = outcome[i].disposition
      BY <3>2 DEF BatchResult
    <3>4. QED
      BY <3>2, <3>3 DEF TellsCause
  <2>4. QED
    BY <2>2, <2>3
<1>2. \A r \in pending' : \E i \in Call : r = BatchResult(i)
  BY DEF CloseBatch
<1>3. \A r \in pending' : TellsCause(r)
  BY <1>1, <1>2
<1>4. QED
  BY <1>3 DEF TellsCause, call

\* Emitting a result makes it neither more nor less telling.
LEMMA EmittedTells ==
  ASSUME TypeOK, ResultsTell, pc \in {"emit", "closing"}, UNCHANGED call,
         NEW r \in pending, NEW onFailure, Emitted(r, onFailure)
  PROVE  ResultsTell'
<1>1. transcript \in Seq(Result) /\ r \in Result
  BY DEF TypeOK
<1>2. \A s \in pending : TellsCause(s)
  BY DEF ResultsTell
<1>3. \A k \in DOMAIN transcript : TellsCause(transcript[k])
  BY DEF ResultsTell
<1>4. pending' \subseteq pending
  BY DEF Emitted
<1>5. \A k \in DOMAIN transcript' : TellsCause(transcript'[k])
  <2>1. CASE transcript' = transcript
    BY <1>3, <2>1
  <2>2. CASE transcript' = Append(transcript, r)
    <3>1. /\ DOMAIN transcript' = 1..(Len(transcript) + 1) /\ DOMAIN transcript = 1..Len(transcript)
          /\ transcript'[Len(transcript) + 1] = r
          /\ \A k \in DOMAIN transcript : transcript'[k] = transcript[k]
          /\ Len(transcript) \in Nat
      BY <1>1, <2>2
    <3>2. QED
      BY <1>2, <1>3, <3>1
  <2>3. QED
    BY <2>1, <2>2 DEF Emitted
<1>6. \A s \in pending' : TellsCause(s)
  BY <1>2, <1>4
<1>7. UNCHANGED <<phase, cause>>
  BY DEF call
<1>8. QED
  BY <1>5, <1>6, <1>7 DEF ResultsTell, TellsCause

\* The runner leaves a join when its executors have returned.
LEMMA JoinedKept == BatchInv /\ ResultInv /\ AuditInv /\ [Next]_vars => ExecutorsJoined'
<1> SUFFICES ASSUME BatchInv, ResultInv, AuditInv, [Next]_vars PROVE ExecutorsJoined'
  OBVIOUS
<1>1. CASE Schedule
  BY <1>1 DEF AuditInv, ExecutorsJoined, AtRest, Schedule, call
<1>2. CASE BeginLevel
  BY <1>2 DEF AuditInv, ExecutorsJoined, AtRest, BeginLevel, call
<1>3. CASE EndLevels
  BY <1>3 DEF AuditInv, ExecutorsJoined, AtRest, EndLevels, call
<1>4. CASE EndLevel
  BY <1>4 DEF AuditInv, ExecutorsJoined, AtRest, EndLevel, call
<1>5. ASSUME NEW i \in Call, RefuseCall(i) PROVE ExecutorsJoined'
  BY <1>5 DEF BatchInv, AuditInv, TypeOK, ExecutorsJoined, AtRest, Unlaunched,
     LevelsAhead, AllIn, RefuseCall, Immediate, AfterAuthorizing
<1>6. CASE RescheduleRunnable
  BY <1>6 DEF AuditInv, ExecutorsJoined, AtRest, RescheduleRunnable, call
<1>7. CASE EndSublevels
  BY <1>7 DEF AuditInv, ExecutorsJoined, AtRest, EndSublevels, call
<1>8. CASE EmitStarts
  BY <1>8 DEF AuditInv, ExecutorsJoined, AtRest, EmitStarts, call
<1>9. CASE Launch
  BY <1>9 DEF AuditInv, ExecutorsJoined, AtRest, Launch
<1>10. CASE Join
  BY <1>10 DEF AuditInv, ExecutorsJoined, AtRest, Join, call
<1>11. CASE GraceSettled
  BY <1>11 DEF AuditInv, ExecutorsJoined, AtRest, GraceSettled, call
<1>12. CASE GraceExpires
  BY <1>12 DEF AuditInv, ExecutorsJoined, AtRest, GraceExpires, call
<1>13. CASE EmitResult
  BY <1>13 DEF AuditInv, ExecutorsJoined, AtRest, EmitResult, call
<1>14. CASE EndBatch \/ EndTurn \/ NextTurn
  BY <1>14 DEF AuditInv, ExecutorsJoined, AtRest, EndBatch, EndTurn, NextTurn, call
<1>15. CASE HandleFailure
  BY <1>15 DEF AuditInv, ExecutorsJoined, HandleFailure, call
<1>16. CASE EmitClosure
  BY <1>16 DEF AuditInv, ExecutorsJoined, EmitClosure, Emitted, call
<1>17. CASE EndFailure
  BY <1>17 DEF AuditInv, ExecutorsJoined, EndFailure, call
<1>18. ASSUME NEW i \in Call, HookReturns(i) PROVE ExecutorsJoined'
  BY <1>18 DEF BatchInv, AuditInv, TypeOK, ExecutorsJoined, AtRest, Unlaunched,
     LevelsAhead, AllIn, HookReturns, Immediate, AfterAuthorizing
<1>19. ASSUME NEW i \in Call, RaceSettles(i) PROVE ExecutorsJoined'
  BY <1>19 DEF BatchInv, AuditInv, TypeOK, ExecutorsJoined, AtRest, RaceSettles
<1>20. ASSUME NEW i \in Call, FinalizeTerminal(i) PROVE ExecutorsJoined'
  BY <1>20, SMTT(60) DEF BatchInv, ResultInv, AuditInv, TypeOK, ExecutorsJoined, AtRest,
     Unlaunched, FinalizeTerminal, Finalized
<1>21. ASSUME NEW i \in Call, EmitEnd(i) PROVE ExecutorsJoined'
  BY <1>21 DEF AuditInv, ExecutorsJoined, AtRest, EmitEnd
<1>22. ASSUME NEW i \in Call, AfterHookReturns(i) PROVE ExecutorsJoined'
  BY <1>22 DEF AuditInv, ExecutorsJoined, AtRest, AfterHookReturns, Finalized
<1>23. ASSUME NEW i \in Call, ToolSettles(i) PROVE ExecutorsJoined'
  BY <1>23 DEF AuditInv, ExecutorsJoined, AtRest, ToolSettles
<1>24. ASSUME NEW i \in Call, TimerFires(i) PROVE ExecutorsJoined'
  BY <1>24 DEF AuditInv, ExecutorsJoined, AtRest, TimerFires
<1>25. ASSUME NEW i \in Call, LateSettlement(i) PROVE ExecutorsJoined'
  BY <1>25 DEF AuditInv, ExecutorsJoined, AtRest, LateSettlement, call
<1>26. CASE Abort
  BY <1>26 DEF AuditInv, ExecutorsJoined, AtRest, Abort
<1>27. CASE UNCHANGED vars
  BY <1>27 DEF AuditInv, ExecutorsJoined, AtRest, vars, call
<1>28. QED
  BY <1>1, <1>2, <1>3, <1>4, <1>5, <1>6, <1>7, <1>8, <1>9, <1>10, <1>11, <1>12, <1>13,
     <1>14,
     <1>15, <1>16, <1>17, <1>18, <1>19, <1>20, <1>21, <1>22, <1>23, <1>24, <1>25, <1>26,
     <1>27 DEF Next, Runner, Executor

\* A result is made after the race of its call is decided, and tells how.
LEMMA TellKept == BatchInv /\ ResultInv /\ AuditInv /\ [Next]_vars => ResultsTell'
<1> SUFFICES ASSUME BatchInv, ResultInv, AuditInv, [Next]_vars PROVE ResultsTell'
  OBVIOUS
<1>1. CASE Schedule
  BY <1>1 DEF AuditInv, ResultsTell, TellsCause, Schedule, call, log
<1>2. CASE BeginLevel
  BY <1>2 DEF AuditInv, ResultsTell, TellsCause, BeginLevel, call, log
<1>3. CASE EndLevels
  <2>1. \A r \in pending' : TellsCause(r)'
    BY <1>3, ClosedTells DEF EndLevels, BatchInv, AuditInv, ExecutorsJoined
  <2>2. transcript' = <<>>
    BY <1>3 DEF EndLevels, ResultInv, InLevels
  <2>3. QED
    BY <2>1, <2>2 DEF ResultsTell
<1>4. CASE EndLevel
  <2>1. transcript' = <<>> /\ pc' \in {"level", "emit"}
    BY <1>4 DEF EndLevel, ResultInv, InLevels, CloseBatch
  <2>2. CASE pc' = "level"
    BY <2>1, <2>2 DEF ResultsTell
  <2>3. CASE pc' = "emit"
    <3>1. PICK reason : CloseBatch(reason)
      BY <1>4, <2>3 DEF EndLevel
    <3>2. \A r \in pending' : TellsCause(r)'
      BY <1>4, <3>1, ClosedTells DEF EndLevel, BatchInv, AuditInv, ExecutorsJoined
    <3>3. QED
      BY <2>1, <3>2 DEF ResultsTell
  <2>4. QED
    BY <2>1, <2>2, <2>3
<1>5. ASSUME NEW i \in Call, RefuseCall(i) PROVE ResultsTell'
  BY <1>5 DEF ResultsTell, ResultInv, InLevels, RefuseCall, AfterAuthorizing, log
<1>6. CASE RescheduleRunnable
  BY <1>6 DEF AuditInv, ResultsTell, TellsCause, RescheduleRunnable, call, log
<1>7. CASE EndSublevels
  BY <1>7 DEF AuditInv, ResultsTell, TellsCause, EndSublevels, call, log
<1>8. CASE EmitStarts
  BY <1>8 DEF AuditInv, ResultsTell, TellsCause, EmitStarts, call, log
<1>9. CASE Launch
  BY <1>9 DEF ResultsTell, ResultInv, InLevels, Launch, log
<1>10. CASE Join
  BY <1>10 DEF AuditInv, ResultsTell, TellsCause, Join, call, log
<1>11. CASE GraceSettled
  BY <1>11 DEF AuditInv, ResultsTell, TellsCause, GraceSettled, call, log
<1>12. CASE GraceExpires
  BY <1>12 DEF AuditInv, ResultsTell, TellsCause, GraceExpires, call, log
<1>13. CASE EmitResult
  <2>1. PICK r \in pending : Emitted(r, "failing")
    BY <1>13 DEF EmitResult
  <2>2. QED
    BY <1>13, <2>1, EmittedTells DEF EmitResult, BatchInv, AuditInv
<1>14. CASE EndBatch \/ EndTurn \/ NextTurn
  BY <1>14 DEF AuditInv, ResultsTell, TellsCause, EndBatch, EndTurn, NextTurn, call, log
<1>15. CASE HandleFailure
  BY <1>15 DEF AuditInv, ResultsTell, TellsCause, HandleFailure, call
<1>16. CASE EmitClosure
  <2>1. PICK r \in pending : Emitted(r, "rejected")
    BY <1>16 DEF EmitClosure
  <2>2. QED
    BY <1>16, <2>1, EmittedTells DEF EmitClosure, BatchInv, AuditInv
<1>17. CASE EndFailure
  BY <1>17 DEF AuditInv, ResultsTell, TellsCause, EndFailure, call, log
<1>18. ASSUME NEW i \in Call, HookReturns(i) PROVE ResultsTell'
  BY <1>18 DEF ResultsTell, ResultInv, InLevels, HookReturns, AfterAuthorizing, log
<1>19. ASSUME NEW i \in Call, RaceSettles(i) PROVE ResultsTell'
  BY <1>19, TellsFrame DEF RaceSettles, BatchInv, TypeOK, AuditInv, AtRest, log
<1>20. ASSUME NEW i \in Call, FinalizeTerminal(i) PROVE ResultsTell'
  BY <1>20, TellsFrame DEF FinalizeTerminal, Finalized, BatchInv, TypeOK, AuditInv,
     AtRest, log
<1>21. ASSUME NEW i \in Call, EmitEnd(i) PROVE ResultsTell'
  BY <1>21, TellsFrame DEF EmitEnd, BatchInv, AuditInv, AtRest, log
<1>22. ASSUME NEW i \in Call, AfterHookReturns(i) PROVE ResultsTell'
  BY <1>22, TellsFrame DEF AfterHookReturns, Finalized, BatchInv, AuditInv, AtRest, log
<1>23. ASSUME NEW i \in Call, ToolSettles(i) PROVE ResultsTell'
  BY <1>23, TellsFrame DEF ToolSettles, BatchInv, AuditInv, AtRest, log
<1>24. ASSUME NEW i \in Call, TimerFires(i) PROVE ResultsTell'
  BY <1>24, TellsFrame DEF TimerFires, BatchInv, AuditInv, AtRest, log
<1>25. ASSUME NEW i \in Call, LateSettlement(i) PROVE ResultsTell'
  BY <1>25, TellsFrame DEF LateSettlement, BatchInv, AuditInv, AtRest, call
<1>26. CASE Abort
  BY <1>26, TellsFrame DEF Abort, BatchInv, AuditInv, AtRest, log
<1>27. CASE UNCHANGED vars
  BY <1>27 DEF AuditInv, ResultsTell, TellsCause, vars, call, log
<1>28. QED
  BY <1>1, <1>2, <1>3, <1>4, <1>5, <1>6, <1>7, <1>8, <1>9, <1>10, <1>11, <1>12, <1>13,
     <1>14,
     <1>15, <1>16, <1>17, <1>18, <1>19, <1>20, <1>21, <1>22, <1>23, <1>24, <1>25, <1>26,
     <1>27 DEF Next, Runner, Executor

\* A result is committed before a late settlement can be recorded.
LEMMA CommittedKept == BatchInv /\ ResultInv /\ AuditInv /\ [Next]_vars => CommittedFirst'
<1> SUFFICES ASSUME BatchInv, ResultInv, AuditInv, [Next]_vars PROVE CommittedFirst'
  OBVIOUS
<1>1. CASE Schedule
  BY <1>1 DEF AuditInv, CommittedFirst, Schedule, log
<1>2. CASE BeginLevel
  BY <1>2 DEF AuditInv, CommittedFirst, InLevels, BeginLevel, log
<1>3. CASE EndLevels
  BY <1>3 DEF AuditInv, CommittedFirst, InLevels, EndLevels
<1>4. CASE EndLevel
  BY <1>4 DEF AuditInv, CommittedFirst, InLevels, EndLevel
<1>5. ASSUME NEW i \in Call, RefuseCall(i) PROVE CommittedFirst'
  BY <1>5 DEF AuditInv, CommittedFirst, InLevels, RefuseCall, AfterAuthorizing, log
<1>6. CASE RescheduleRunnable
  BY <1>6 DEF AuditInv, CommittedFirst, InLevels, RescheduleRunnable, log
<1>7. CASE EndSublevels
  BY <1>7 DEF AuditInv, CommittedFirst, InLevels, EndSublevels, log
<1>8. CASE EmitStarts
  BY <1>8 DEF AuditInv, CommittedFirst, InLevels, EmitStarts, log
<1>9. CASE Launch
  BY <1>9 DEF AuditInv, CommittedFirst, InLevels, Launch, log
<1>10. CASE Join
  BY <1>10 DEF AuditInv, CommittedFirst, InLevels, Join, log
<1>11. CASE GraceSettled
  BY <1>11 DEF AuditInv, CommittedFirst, InLevels, GraceSettled, log
<1>12. CASE GraceExpires
  BY <1>12 DEF AuditInv, CommittedFirst, InLevels, GraceExpires, log
<1>13. CASE EmitResult
  <2>1. PICK r \in pending : Emitted(r, "failing") /\ committed' = committed \cup {r.call}
    BY <1>13 DEF EmitResult
  <2>2. pc = "emit" /\ UNCHANGED <<late, cause>>
    BY <1>13 DEF EmitResult, call
  <2>3. pc' = "emit" => committed' \cap Missing' = {}
    <3> SUFFICES ASSUME pc' = "emit" PROVE committed' \cap Missing' = {}
      OBVIOUS
    <3>1. transcript' = Append(transcript, r) /\ transcript \in Seq(Result) /\ r \in Result
      BY <2>1 DEF Emitted, BatchInv, TypeOK
    <3>2. \A i \in Missing' : i \in Missing /\ i # r.call
      BY <3>1 DEF Missing
    <3>3. committed \cap Missing = {}
      BY <2>2 DEF AuditInv, CommittedFirst
    <3>4. QED
      BY <2>1, <3>2, <3>3
  <2>4. pc' \in {"emit", "failing"}
    BY <2>1, <2>2 DEF Emitted
  <2>5. phase' = phase
    BY <1>13 DEF EmitResult, call
  <2>6. late \subseteq committed' /\ UNCHANGED <<late, cause, phase>>
    BY <2>1, <2>2, <2>5 DEF AuditInv, CommittedFirst
  <2>7. QED
    BY <2>3, <2>4, <2>6 DEF AuditInv, CommittedFirst, InLevels
<1>14. CASE EndBatch \/ EndTurn \/ NextTurn
  BY <1>14 DEF AuditInv, CommittedFirst, InLevels, EndBatch, EndTurn, NextTurn, call, log
<1>15. CASE HandleFailure
  BY <1>15 DEF AuditInv, CommittedFirst, InLevels, HandleFailure, call
<1>16. CASE EmitClosure
  BY <1>16 DEF AuditInv, CommittedFirst, InLevels, EmitClosure, Emitted, call
<1>17. CASE EndFailure
  BY <1>17 DEF AuditInv, CommittedFirst, InLevels, EndFailure, call, log
<1>18. ASSUME NEW i \in Call, HookReturns(i) PROVE CommittedFirst'
  BY <1>18 DEF AuditInv, CommittedFirst, InLevels, HookReturns, AfterAuthorizing, log
<1>19. ASSUME NEW i \in Call, RaceSettles(i) PROVE CommittedFirst'
  BY <1>19 DEF BatchInv, AuditInv, TypeOK, CommittedFirst, Missing, InLevels,
     RaceSettles, log
<1>20. ASSUME NEW i \in Call, FinalizeTerminal(i) PROVE CommittedFirst'
  <2>1. \A j \in Call : phase'[j] = "racing" => phase[j] = "racing"
    BY <1>20 DEF FinalizeTerminal, Finalized, BatchInv, TypeOK
  <2>2. late \subseteq Call /\ UNCHANGED <<late, committed, transcript, cause, pc>>
    BY <1>20 DEF FinalizeTerminal, Finalized, BatchInv, TypeOK, log
  <2>3. QED
    BY <2>1, <2>2 DEF AuditInv, CommittedFirst, Missing, InLevels
<1>21. ASSUME NEW i \in Call, EmitEnd(i) PROVE CommittedFirst'
  BY <1>21 DEF AuditInv, CommittedFirst, Missing, InLevels, EmitEnd, log
<1>22. ASSUME NEW i \in Call, AfterHookReturns(i) PROVE CommittedFirst'
  BY <1>22 DEF AuditInv, CommittedFirst, Missing, InLevels, AfterHookReturns, Finalized,
     log
<1>23. ASSUME NEW i \in Call, ToolSettles(i) PROVE CommittedFirst'
  BY <1>23 DEF AuditInv, CommittedFirst, Missing, InLevels, ToolSettles, log
<1>24. ASSUME NEW i \in Call, TimerFires(i) PROVE CommittedFirst'
  BY <1>24 DEF AuditInv, CommittedFirst, Missing, InLevels, TimerFires, log
<1>25. ASSUME NEW i \in Call, LateSettlement(i) PROVE CommittedFirst'
  BY <1>25 DEF AuditInv, CommittedFirst, Missing, InLevels, LateSettlement, call
<1>26. CASE Abort
  BY <1>26 DEF BatchInv, AuditInv, TypeOK, CommittedFirst, Missing, InLevels, Abort, log
<1>27. CASE UNCHANGED vars
  BY <1>27 DEF AuditInv, CommittedFirst, Missing, InLevels, vars, call, log
<1>28. QED
  BY <1>1, <1>2, <1>3, <1>4, <1>5, <1>6, <1>7, <1>8, <1>9, <1>10, <1>11, <1>12, <1>13,
     <1>14,
     <1>15, <1>16, <1>17, <1>18, <1>19, <1>20, <1>21, <1>22, <1>23, <1>24, <1>25, <1>26,
     <1>27 DEF Next, Runner, Executor

\* Late settlements find their result committed in every state.
LEMMA AuditInvHolds == Spec => []AuditInv
<1>1. Init => AuditInv
  BY DEF Init, AuditInv, ExecutorsJoined, AtRest, ResultsTell, CommittedFirst
<1>2. BatchInv /\ ResultInv /\ AuditInv /\ [Next]_vars => AuditInv'
  BY JoinedKept, TellKept, CommittedKept DEF AuditInv
<1>3. QED
  BY <1>1, <1>2, BatchInvHolds, ResultInvHolds, PTL DEF Spec

\* A late settlement is reported only of a call whose timeout or abort is in the
\* transcript, except while the failure path has not completed the transcript.
THEOREM LateSettlementsAreAudits == Spec => []LateAuditsCommittedResult
<1>1. BatchInv /\ ResultInv /\ AuditInv => LateAuditsCommittedResult
  <2> SUFFICES ASSUME BatchInv, ResultInv, AuditInv, pc \notin {"failing", "closing", "rejected"},
                      NEW i \in late
               PROVE  \E k \in DOMAIN transcript :
                        transcript[k].call = i /\ transcript[k].disposition \in {"timeout", "aborted"}
    BY DEF LateAuditsCommittedResult
  <2>1. i \in committed /\ i \in Call /\ cause[i] \in {"timeout", "aborted"}
    BY DEF AuditInv, CommittedFirst, BatchInv, TypeOK
  <2>2. pc \in {"emit", "turnEnd", "nextTurn", "provider", "ended"}
    BY <2>1 DEF AuditInv, CommittedFirst, BatchInv, TypeOK, InLevels
  <2>3. i \notin Missing
    BY <2>1, <2>2 DEF AuditInv, CommittedFirst, ResultInv
  <2>4. PICK k \in DOMAIN transcript : transcript[k].call = i
    BY <2>1, <2>3 DEF Missing
  <2>5. TellsCause(transcript[k])
    BY DEF AuditInv, ResultsTell
  <2>6. QED
    BY <2>1, <2>4, <2>5 DEF TellsCause
<1>2. QED
  BY <1>1, BatchInvHolds, ResultInvHolds, AuditInvHolds, PTL

-------------------------------------------------------------------------------
(* What the order is by the arguments the calls really run with. *)

Earlier(i, j, c) == i < j /\ resolutionsConflict(c[i], c[j])

CandidateLevels == {schedulePlannedDagLevels[p] : p \in DOMAIN schedulePlannedDagLevels}

AtSublevels == pc \in {"sublevel", "launch", "join", "grace"}

\* Levels are taken from the plan as they are.
LevelsOfPlan ==
  /\ \A p \in DOMAIN levels : levels[p] \in CandidateLevels
  /\ pc \in {"authorize", "sublevel", "launch", "join", "grace"} => level \in CandidateLevels

\* No tool of a level starts before all its hooks have been called.
LevelAuthorized ==
  /\ pc = "authorize" => \A i \in level : /\ tool[i] = "idle"
                                          /\ i \notin unauthorized => phase[i] # "planned"
  /\ AtSublevels => \A i \in level : phase[i] # "planned"

\* The sublevels to come are in source order, and so is the one in work with them.
SublevelsInOrder ==
  /\ AtSublevels =>
       \A p, q \in DOMAIN sublevels : \A i \in sublevels[p], j \in sublevels[q] :
         Earlier(i, j, claims) => p < q
  /\ pc = "launch" =>
       \A p \in DOMAIN sublevels : \A i \in sublevels[p], j \in group : ~ Earlier(i, j, claims)

\* Of two calls of one candidate level that conflict by the arguments they run with,
\* the later one starts when the execution of the earlier one, if there is one, has
\* settled: runDagLevelCalls plans the level again with what the hooks left.
LevelKeepsSourceOrder ==
  \A L \in CandidateLevels : \A i, j \in L :
    tool[j] # "idle" /\ Earlier(i, j, claims) => phase[i] = "final" /\ tool[i] # "running"

LevelInv == LevelsOfPlan /\ LevelAuthorized /\ SublevelsInOrder /\ LevelKeepsSourceOrder

\* Tools only settle, and what executors have done is not undone.
Proceeds ==
  /\ \A i \in Call : tool'[i] # tool[i] => tool[i] = "running" /\ tool'[i] = "settled"
  /\ \A i \in Call : /\ phase[i] = "final" => phase'[i] = "final"
                     /\ phase[i] # "planned" => phase'[i] # "planned"

\* A step that authorizes, plans and starts nothing.
Carries ==
  /\ Proceeds
  /\ UNCHANGED <<plan, claims, group>>
  /\ pc' \in {"authorize", "launch"} => pc' = pc
  /\ AtSublevels' => AtSublevels

\* The hook of a call is done with, or the call is refused.
Authorizes(i) ==
  /\ pc = "authorize" /\ i \in unauthorized /\ phase[i] = "planned"
  /\ phase'[i] \in {"prepared", "final"} /\ \A j \in Call \ {i} : phase'[j] = phase[j]
  /\ \A j \in Call \ {i} : claims'[j] = claims[j]
  /\ unauthorized' = unauthorized \ {i}
  /\ pc' \in {"authorize", "levelEnd"}
  /\ UNCHANGED <<planned, plannable, levels, level, sublevels, group, tool>>

\* What a step does to the plan and to the executions.
LEMMA StepEffect ==
  ASSUME BatchInv, [Next]_vars
  PROVE  \/ Schedule \/ BeginLevel \/ RescheduleRunnable \/ EmitStarts \/ Launch
         \/ \E i \in Call : Authorizes(i)
         \/ Carries
<1> USE DEF Carries, Proceeds, AtSublevels
<1>1. CASE EndLevels
  BY <1>1 DEF EndLevels, CloseBatch, call
<1>2. CASE EndLevel
  BY <1>2 DEF EndLevel, CloseBatch, call
<1>3. ASSUME NEW i \in Call, RefuseCall(i) \/ HookReturns(i) PROVE Authorizes(i)
  <2>1. phase[i] = "planned" /\ phase \in [Call -> {"planned", "prepared", "racing", "finalizing", "ending", "final"}]
        /\ claims \in [Call -> Resolution]
    BY <1>3 DEF RefuseCall, HookReturns, BatchInv, LevelsAhead, AllIn, TypeOK
  <2>2. \/ phase' = [phase EXCEPT ![i] = "final"] /\ claims' = claims
        \/ phase' = [phase EXCEPT ![i] = "prepared"] /\ \E r : claims' = [claims EXCEPT ![i] = r]
    BY <1>3 DEF RefuseCall, HookReturns, Immediate
  <2>3. AfterAuthorizing(i) /\ pc = "authorize" /\ i \in unauthorized
    BY <1>3 DEF RefuseCall, HookReturns
  <2>4. QED
    BY <2>1, <2>2, <2>3 DEF Authorizes, AfterAuthorizing
<1>4. CASE EndSublevels \/ Join \/ GraceSettled \/ GraceExpires
  BY <1>4 DEF EndSublevels, Join, GraceSettled, GraceExpires, call
<1>5. CASE EmitResult
  BY <1>5 DEF EmitResult, Emitted, call
<1>6. CASE EndBatch \/ EndTurn \/ NextTurn \/ HandleFailure \/ EndFailure
  BY <1>6 DEF EndBatch, EndTurn, NextTurn, HandleFailure, EndFailure, call
<1>7. CASE EmitClosure
  BY <1>7 DEF EmitClosure, Emitted, call
<1>8. ASSUME NEW i \in Call, RaceSettles(i) \/ FinalizeTerminal(i) \/ AfterHookReturns(i)
      PROVE  Carries
  <2>1. /\ phase[i] \in {"racing", "finalizing"}
        /\ \E p \in {"finalizing", "ending"} : phase' = [phase EXCEPT ![i] = p]
        /\ UNCHANGED <<plan, claims, group, pc, tool>>
    BY <1>8 DEF RaceSettles, FinalizeTerminal, AfterHookReturns, Finalized
  <2>2. QED
    BY <2>1 DEF BatchInv, TypeOK
<1>9. ASSUME NEW i \in Call, EmitEnd(i) PROVE Carries
  BY <1>9 DEF EmitEnd, BatchInv, TypeOK
<1>10. ASSUME NEW i \in Call, ToolSettles(i) PROVE Carries
  BY <1>10 DEF ToolSettles, BatchInv, TypeOK
<1>11. ASSUME NEW i \in Call, TimerFires(i) \/ LateSettlement(i) PROVE Carries
  BY <1>11 DEF TimerFires, LateSettlement, call
<1>12. CASE Abort \/ UNCHANGED vars
  BY <1>12 DEF Abort, vars, call
<1>13. QED
  BY <1>1, <1>2, <1>3, <1>4, <1>5, <1>6, <1>7, <1>8, <1>9, <1>10, <1>11, <1>12
     DEF Next, Runner, Executor

\* The batch is planned once: its candidate levels are disjoint and stay.
LEMMA CandidatesStay ==
  ASSUME BatchInv, [Next]_vars
  PROVE  /\ UNCHANGED <<planned, plannable>> /\ CandidateLevels' = CandidateLevels
         /\ \A L, M \in CandidateLevels : L # M => L \cap M = {}
         /\ \A L \in CandidateLevels : L \subseteq Call
<1>1. UNCHANGED <<planned, plannable>>
  BY StepEffect DEF Schedule, BeginLevel, RescheduleRunnable, EmitStarts, Launch, Authorizes,
     Carries, plan
<1>2. plannable \in SUBSET Call
  BY DEF BatchInv, TypeOK
<1>3. schedulePlannedDagLevels' = schedulePlannedDagLevels
  BY <1>1 DEF schedulePlannedDagLevels
<1>4. schedulePlannedDagLevels \in Seq(SUBSET Call) /\ Disjoint(schedulePlannedDagLevels)
  BY <1>2, BatchScheduled
<1>5. QED
  BY <1>1, <1>3, <1>4 DEF CandidateLevels, Disjoint

\* A level is taken from the plan.
LEMMA LevelsOfPlanKept == BatchInv /\ LevelInv /\ [Next]_vars => LevelsOfPlan'
<1> SUFFICES ASSUME BatchInv, LevelInv, [Next]_vars PROVE LevelsOfPlan'
  OBVIOUS
<1>1. CandidateLevels' = CandidateLevels
  BY CandidatesStay
<1>2. CASE Schedule
  <2>1. \A p \in DOMAIN schedulePlannedDagLevels : schedulePlannedDagLevels[p] \in CandidateLevels
    BY DEF CandidateLevels
  <2>2. levels' \in {<<>>, schedulePlannedDagLevels} /\ pc' = "level"
    BY <1>2 DEF Schedule
  <2>3. QED
    BY <1>1, <2>1, <2>2 DEF LevelsOfPlan
<1>3. CASE BeginLevel
  <2>1. /\ levels \in Seq(SUBSET Call) /\ levels # <<>> /\ pc' = "authorize"
        /\ level' = Head(levels) /\ levels' = Tail(levels)
    BY <1>3 DEF BeginLevel, BatchInv, TypeOK
  <2>2. \A p \in DOMAIN levels : levels[p] \in CandidateLevels
    BY DEF LevelInv, LevelsOfPlan
  <2>3. Head(levels) \in CandidateLevels /\ \A p \in DOMAIN Tail(levels) : Tail(levels)[p] \in CandidateLevels
    BY <2>1, <2>2, HeadTaken
  <2>4. QED
    BY <1>1, <2>1, <2>3 DEF LevelsOfPlan
<1>4. CASE RescheduleRunnable
  BY <1>1, <1>4 DEF RescheduleRunnable, LevelInv, LevelsOfPlan
<1>5. CASE EmitStarts
  BY <1>1, <1>5 DEF EmitStarts, LevelInv, LevelsOfPlan
<1>6. CASE Launch
  BY <1>1, <1>6 DEF Launch, LevelInv, LevelsOfPlan, plan
<1>7. CASE \E i \in Call : Authorizes(i)
  BY <1>1, <1>7 DEF Authorizes, LevelInv, LevelsOfPlan
<1>8. CASE Carries
  BY <1>1, <1>8 DEF Carries, AtSublevels, LevelInv, LevelsOfPlan, plan
<1>9. QED
  BY <1>2, <1>3, <1>4, <1>5, <1>6, <1>7, <1>8, StepEffect

\* The hooks of a level are called before its first sublevel is made.
LEMMA LevelAuthorizedKept == BatchInv /\ LevelInv /\ [Next]_vars => LevelAuthorized'
<1> SUFFICES ASSUME BatchInv, LevelInv, [Next]_vars PROVE LevelAuthorized'
  OBVIOUS
<1> USE DEF AtSublevels
<1>1. CASE Schedule
  BY <1>1 DEF Schedule, LevelAuthorized
<1>2. CASE BeginLevel
  <2>1. \A i \in Head(levels) : phase[i] = "planned" /\ tool[i] = "idle"
    BY <1>2, HeadTaken DEF BeginLevel, BatchInv, TypeOK, LevelsAhead, InLevels, AllIn, Unlaunched
  <2>2. QED
    BY <1>2, <2>1 DEF BeginLevel, LevelAuthorized, call
<1>3. CASE RescheduleRunnable
  BY <1>3 DEF RescheduleRunnable, LevelInv, LevelAuthorized, call
<1>4. CASE EmitStarts
  BY <1>4 DEF EmitStarts, LevelInv, LevelAuthorized, call
<1>5. CASE Launch
  BY <1>5 DEF Launch, LevelInv, LevelAuthorized, BatchInv, TypeOK, plan
<1>6. ASSUME NEW i \in Call, Authorizes(i) PROVE LevelAuthorized'
  BY <1>6 DEF Authorizes, LevelInv, LevelAuthorized, BatchInv, TypeOK
<1>7. CASE Carries
  BY <1>7 DEF Carries, Proceeds, LevelInv, LevelAuthorized, BatchInv, TypeOK, plan
<1>8. QED
  BY <1>1, <1>2, <1>3, <1>4, <1>5, <1>6, <1>7, StepEffect

\* Taking the first of the sublevels leaves them in source order.
LEMMA SublevelsInOrderKept == BatchInv /\ LevelInv /\ [Next]_vars => SublevelsInOrder'
<1> SUFFICES ASSUME BatchInv, LevelInv, [Next]_vars PROVE SublevelsInOrder'
  OBVIOUS
<1> USE DEF AtSublevels
<1>1. CASE Schedule
  BY <1>1 DEF Schedule, SublevelsInOrder
<1>2. CASE BeginLevel
  BY <1>2 DEF BeginLevel, SublevelsInOrder
<1>3. CASE RescheduleRunnable
  <2> DEFINE S == {i \in level : phase[i] = "prepared"}
             s == scheduleDagLevels(claims, S, maxToolConcurrency)
  <2>1. \A p, q \in DOMAIN s : \A i \in s[p], j \in s[q] : Earlier(i, j, claims) => p < q
    <3>1. S \in SUBSET Call
      BY DEF BatchInv, TypeOK
    <3> HIDE DEF S
    <3>2. QED
      BY <3>1, CallsScheduled DEF Earlier
  <2>2. pc' \in {"sublevel", "levelEnd"} /\ UNCHANGED claims /\ (pc' = "sublevel" => sublevels' = s)
    BY <1>3 DEF RescheduleRunnable
  <2> HIDE DEF s
  <2>3. QED
    BY <2>1, <2>2 DEF SublevelsInOrder, Earlier
<1>4. CASE EmitStarts
  <2>1. /\ sublevels \in Seq(SUBSET Call) /\ sublevels # <<>>
        /\ group' = Head(sublevels) /\ sublevels' = Tail(sublevels) /\ claims' = claims
        /\ pc = "sublevel"
    BY <1>4 DEF EmitStarts, BatchInv, TypeOK
  <2>2. \A p, q \in DOMAIN sublevels : \A i \in sublevels[p], j \in sublevels[q] :
          Earlier(i, j, claims) => p < q
    BY <2>1 DEF LevelInv, SublevelsInOrder
  <2>3. ASSUME NEW p \in DOMAIN sublevels', NEW q \in DOMAIN sublevels',
               NEW i \in sublevels'[p], NEW j \in sublevels'[q], Earlier(i, j, claims)
        PROVE  p < q
    <3>1. p + 1 < q + 1
      BY <2>1, <2>2, <2>3, HeadTaken
    <3>2. p \in Nat /\ q \in Nat
      BY <2>1
    <3>3. QED
      BY <3>1, <3>2
  <2>4. ASSUME NEW p \in DOMAIN sublevels', NEW i \in sublevels'[p], NEW j \in group',
               Earlier(i, j, claims)
        PROVE  FALSE
    <3>1. p + 1 < 1
      BY <2>1, <2>2, <2>4, HeadTaken
    <3>2. p \in Nat
      BY <2>1
    <3>3. QED
      BY <3>1, <3>2
  <2>5. QED
    BY <2>1, <2>3, <2>4 DEF SublevelsInOrder, Earlier
<1>5. CASE Launch
  BY <1>5 DEF Launch, LevelInv, SublevelsInOrder, Earlier, plan
<1>6. CASE \E i \in Call : Authorizes(i)
  BY <1>6 DEF Authorizes, SublevelsInOrder
<1>7. CASE Carries
  BY <1>7 DEF Carries, LevelInv, SublevelsInOrder, Earlier, plan
<1>8. QED
  BY <1>1, <1>2, <1>3, <1>4, <1>5, <1>6, <1>7, StepEffect

\* A sublevel starts when what conflicts with its calls and precedes them is done with.
LEMMA LevelOrderKept ==
  BatchInv /\ OrderInv /\ LevelInv /\ [Next]_vars => LevelKeepsSourceOrder'
<1> SUFFICES ASSUME BatchInv, OrderInv, LevelInv, [Next]_vars,
                    NEW L \in CandidateLevels, NEW i \in L, NEW j \in L,
                    tool'[j] # "idle", Earlier(i, j, claims')
             PROVE  phase'[i] = "final" /\ tool'[i] # "running"
  BY CandidatesStay DEF LevelKeepsSourceOrder, Earlier
<1>1. i \in Call /\ j \in Call /\ (i \in level /\ level \in CandidateLevels => L = level)
      /\ (j \in level /\ level \in CandidateLevels => L = level)
  BY CandidatesStay
<1>2. Earlier(i, j, claims) /\ tool[j] # "idle" => phase[i] = "final" /\ tool[i] # "running"
  BY DEF LevelInv, LevelKeepsSourceOrder
<1>3. CASE UNCHANGED <<claims, phase, tool>>
  BY <1>2, <1>3 DEF Earlier
<1>4. CASE Launch
  <2>1. /\ pc = "launch" /\ claims' = claims /\ Earlier(i, j, claims)
        /\ phase' = [k \in Call |-> IF k \in group THEN IF aborted THEN "finalizing" ELSE "racing"
                                    ELSE phase[k]]
        /\ tool' = IF aborted THEN tool
                   ELSE [k \in Call |-> IF k \in group THEN "running" ELSE tool[k]]
    BY <1>4 DEF Launch, Earlier
  <2>2. \A k \in group : phase[k] = "prepared"
    BY <2>1 DEF BatchInv, SublevelsAhead, AllIn
  <2>3. CASE tool[j] # "idle"
    BY <1>1, <1>2, <2>1, <2>2, <2>3
  <2>4. CASE tool[j] = "idle"
    <3>1. j \in group /\ ~ aborted
      BY <1>1, <2>1, <2>4
    <3>2. j \in level /\ L = level
      BY <1>1, <2>1, <3>1 DEF OrderInv, SublevelsWithin, LevelInv, LevelsOfPlan
    <3>3. i \notin group /\ ~ In(sublevels, i)
      BY <2>1, <3>1 DEF BatchInv, SublevelsAhead, ConflictFree, LevelInv, SublevelsInOrder,
         Earlier, In
    <3>4. ~ In(levels, i)
      BY <2>1, <3>2 DEF LevelInv, LevelAuthorized, AtSublevels, BatchInv, LevelsAhead, InLevels,
         AllIn, In
    <3>5. Final(i)
      BY <1>1, <2>1, <3>1, <3>3, <3>4 DEF OrderInv, NothingLost
    <3>6. tool[i] # "running"
      BY <1>1, <2>1, <3>1 DEF BatchInv, Barrier, Quiet
    <3>7. QED
      BY <1>1, <2>1, <3>1, <3>3, <3>5, <3>6 DEF Final
  <2>5. QED
    BY <2>3, <2>4
<1>5. ASSUME NEW k \in Call, Authorizes(k)
      PROVE  phase'[i] = "final" /\ tool'[i] # "running"
  <2>1. k \in level /\ level \in CandidateLevels /\ pc = "authorize" /\ tool' = tool
    BY <1>5 DEF Authorizes, BatchInv, TypeOK, LevelInv, LevelsOfPlan
  <2>2. tool[j] = "idle" \/ j \notin level
    BY <2>1 DEF LevelInv, LevelAuthorized
  <2>3. k # i /\ k # j
    BY <1>1, <2>1, <2>2
  <2>4. QED
    BY <1>1, <1>2, <1>5, <2>1, <2>3 DEF Authorizes, Earlier
<1>6. CASE Carries
  BY <1>1, <1>2, <1>6 DEF Carries, Proceeds, Earlier
<1>7. QED
  BY <1>3, <1>4, <1>5, <1>6, StepEffect
     DEF Schedule, BeginLevel, RescheduleRunnable, EmitStarts, call

\* The levels keep the order in every state.
LEMMA LevelInvHolds == Spec => []LevelInv
<1>1. Init => LevelInv
  <2> SUFFICES ASSUME Init PROVE LevelInv
    OBVIOUS
  <2>1. LevelKeepsSourceOrder
    <3>1. \A L \in CandidateLevels : L \subseteq Call
      BY BatchScheduled, BatchAssumption DEF Init, CandidateLevels
    <3>2. QED
      BY <3>1 DEF Init, LevelKeepsSourceOrder
  <2>2. QED
    BY <2>1 DEF Init, LevelInv, LevelsOfPlan, LevelAuthorized, AtSublevels, SublevelsInOrder
<1>2. BatchInv /\ OrderInv /\ LevelInv /\ [Next]_vars => LevelInv'
  BY LevelsOfPlanKept, LevelAuthorizedKept, SublevelsInOrderKept, LevelOrderKept DEF LevelInv
<1>3. QED
  BY <1>1, <1>2, BatchInvHolds, OrderInvHolds, PTL DEF Spec

\* Of two calls of one candidate level that conflict by the arguments they run with, the
\* later one starts after the execution of the earlier one has settled.
THEOREM LevelsKeepSourceOrder == Spec => []LevelKeepsSourceOrder
<1>1. LevelInv => LevelKeepsSourceOrder
  BY DEF LevelInv
<1>2. QED
  BY <1>1, LevelInvHolds, PTL

\* Of two calls whose emitted arguments conflict, in whatever levels, the later one
\* starts when the execution of the earlier one, if there is one, has settled, also
\* when that one timed out.
EmittedConflictsSettle ==
  \A i, j \in Call : tool[j] # "idle" /\ Earlier(i, j, planned) => tool[i] # "running"

\* A call is behind the executions that it conflicts with by the emitted arguments: the
\* order that hooks can reverse is only that of conflicts which they have made.
THEOREM EmittedConflictsAreSettled == Spec => []EmittedConflictsSettle
<1>1. Init => EmittedConflictsSettle
  BY DEF Init, EmittedConflictsSettle
<1>2. ASSUME BatchInv, OrderInv, EmittedConflictsSettle, [Next]_vars
      PROVE  EmittedConflictsSettle'
  <2> SUFFICES ASSUME NEW i \in Call, NEW j \in Call, tool'[j] # "idle", Earlier(i, j, planned')
               PROVE  tool'[i] # "running"
    BY DEF EmittedConflictsSettle
  <2>1. planned' = planned /\ Earlier(i, j, planned)
    BY <1>2, CandidatesStay DEF Earlier
  <2>2. tool[j] # "idle" => tool[i] # "running" /\ phase[i] = "final"
    BY <1>2, <2>1 DEF EmittedConflictsSettle, OrderInv, ConflictsRunInSourceOrder, Earlier
  <2>3. CASE Launch
    <3>1. phase'[i] = "final"
      BY <1>2, <2>1, SourceOrderKept DEF ConflictsRunInSourceOrder, Earlier
    <3>2. tool'[i] = tool[i]
      BY <2>3, <3>1 DEF Launch
    <3>3. tool[j] = "idle" => tool[i] # "running"
      BY <1>2, <2>3 DEF Launch, BatchInv, Barrier, Quiet
    <3>4. QED
      BY <2>2, <3>2, <3>3
  <2>4. CASE tool'[i] = tool[i] /\ tool'[j] = tool[j]
    BY <2>2, <2>4
  <2>5. CASE Carries
    BY <2>2, <2>5 DEF Carries, Proceeds
  <2>6. QED
    BY <1>2, <2>3, <2>4, <2>5, StepEffect
       DEF Schedule, BeginLevel, RescheduleRunnable, EmitStarts, Authorizes, call
<1>3. QED
  BY <1>1, <1>2, BatchInvHolds, OrderInvHolds, PTL DEF Spec

-------------------------------------------------------------------------------
(* What a result says of the execution. *)

Tells(r) == r.started <=> tool[r.call] # "idle"

\* What planFailureTermination writes for a call without a result.
IsClosure(r) == r.disposition = "aborted" /\ ~ r.started

\* The flag of an outcome is taken when the race of the call has been decided.
OutcomesTell ==
  \A i \in Call : outcome[i].started <=> phase[i] \in {"ending", "final"} /\ tool[i] # "idle"

PendingTells ==
  /\ pc = "emit" => \A r \in pending : Tells(r)
  /\ pc = "closing" => \A r \in pending : IsClosure(r)

\* A result says truly whether the execution of its call began; only those that the
\* failure path makes up for calls without a result may deny an execution that did.
EnvelopeNeverOverstates ==
  \A k \in DOMAIN transcript :
    Tells(transcript[k]) \/ (IsClosure(transcript[k]) /\ pc \in {"closing", "ended", "rejected"})

EnvelopeInv == OutcomesTell /\ PendingTells /\ EnvelopeNeverOverstates

\* Whether the execution of a call has begun.
SameStarts == \A i \in Call : tool'[i] = "idle" <=> tool[i] = "idle"

\* Only a launch begins executions.
LEMMA StartsByLaunch ==
  ASSUME BatchInv, [Next]_vars
  PROVE  Launch \/ SameStarts
  BY StepEffect DEF Schedule, BeginLevel, RescheduleRunnable, EmitStarts, Authorizes, Carries,
     Proceeds, SameStarts, call

\* What a step does to the outcomes.
LEMMA OutcomesTellKept == BatchInv /\ EnvelopeInv /\ [Next]_vars => OutcomesTell'
<1> SUFFICES ASSUME BatchInv, EnvelopeInv, [Next]_vars, NEW i \in Call
             PROVE  outcome'[i].started <=> phase'[i] \in {"ending", "final"} /\ tool'[i] # "idle"
  BY DEF OutcomesTell
<1> DEFINE Phases == {"planned", "prepared", "racing", "finalizing", "ending", "final"}
<1>1. /\ outcome[i].started <=> phase[i] \in {"ending", "final"} /\ tool[i] # "idle"
      /\ phase \in [Call -> Phases] /\ tool \in [Call -> {"idle", "running", "settled"}]
      /\ outcome \in [Call -> Outcome]
      /\ phase[i] \in {"planned", "prepared"} => tool[i] = "idle"
  BY DEF EnvelopeInv, OutcomesTell, BatchInv, TypeOK, Unlaunched
<1> USE DEF call
<1>2. CASE UNCHANGED <<phase, tool, outcome>>
  BY <1>1, <1>2
<1>3. ASSUME NEW k \in Call, RefuseCall(k) \/ HookReturns(k)
      PROVE  outcome'[i].started <=> phase'[i] \in {"ending", "final"} /\ tool'[i] # "idle"
  <2>1. /\ phase[k] = "planned" /\ tool' = tool
        /\ \E p \in {"prepared", "final"} : phase' = [phase EXCEPT ![k] = p]
        /\ outcome' = outcome \/ \E d : outcome' = [outcome EXCEPT ![k].disposition = d]
    BY <1>3 DEF RefuseCall, HookReturns, Immediate, AfterAuthorizing, BatchInv, LevelsAhead, AllIn
  <2>2. outcome'[i].started = outcome[i].started
    BY <1>1, <2>1 DEF Outcome
  <2>3. QED
    BY <1>1, <2>1, <2>2
<1>4. CASE Launch
  <2>1. /\ outcome' = outcome /\ phase' \in [Call -> Phases]
        /\ i \in group => phase[i] = "prepared" /\ phase'[i] \in {"racing", "finalizing"}
        /\ i \notin group => phase'[i] = phase[i] /\ tool'[i] = tool[i]
    BY <1>1, <1>4 DEF Launch, BatchInv, SublevelsAhead, AllIn
  <2>2. QED
    BY <1>1, <2>1
<1>5. ASSUME NEW k \in Call, RaceSettles(k) \/ EmitEnd(k) \/ ToolSettles(k)
      PROVE  outcome'[i].started <=> phase'[i] \in {"ending", "final"} /\ tool'[i] # "idle"
  BY <1>1, <1>5 DEF RaceSettles, EmitEnd, ToolSettles
<1>6. ASSUME NEW k \in Call, NEW d, NEW t, Finalized(k, d, t), phase[k] = "finalizing"
      PROVE  outcome'[i].started <=> phase'[i] \in {"ending", "final"} /\ tool'[i] # "idle"
  BY <1>1, <1>6 DEF Finalized
<1>7. ASSUME NEW k \in Call, FinalizeTerminal(k) \/ AfterHookReturns(k)
      PROVE  outcome'[i].started <=> phase'[i] \in {"ending", "final"} /\ tool'[i] # "idle"
  BY <1>6, <1>7 DEF FinalizeTerminal, AfterHookReturns
<1>8. QED
  BY <1>2, <1>3, <1>4, <1>5, <1>7
     DEF Next, Runner, Executor, Schedule, BeginLevel, EndLevels, EndLevel, RescheduleRunnable,
         EndSublevels, EmitStarts, Join, GraceSettled, GraceExpires, EmitResult, EndBatch, EndTurn, NextTurn,
         HandleFailure, EmitClosure, EndFailure, TimerFires, LateSettlement, Abort, vars

\* When the batch is closed every execution has its outcome, so the results tell it.
LEMMA ClosedTellsExecution ==
  ASSUME BatchInv, OrderInv, EnvelopeInv, \A i \in Call : AtRest(i), pc \in {"level", "levelEnd"},
         NEW reason, CloseBatch(reason), UNCHANGED call
  PROVE  \A r \in pending' : Tells(r)'
<1>1. ASSUME NEW i \in Call PROVE Tells(BatchResult(i))
  <2>1. BatchResult(i).call = i
    BY DEF BatchResult
  <2>2. outcome[i].started <=> phase[i] \in {"ending", "final"} /\ tool[i] # "idle"
    BY DEF EnvelopeInv, OutcomesTell
  <2>3. CASE outcome[i].disposition # "none"
    <3>1. phase[i] \in {"ending", "final"} \/ tool[i] = "idle"
      BY DEF BatchInv, Unlaunched, AtRest, TypeOK
    <3>2. BatchResult(i).started = outcome[i].started
      BY <2>3 DEF BatchResult
    <3>3. QED
      BY <2>1, <2>2, <3>1, <3>2 DEF Tells
  <2>4. CASE outcome[i].disposition = "none"
    <3>1. phase[i] \notin {"ending", "final"} /\ phase[i] \in {"planned", "prepared"}
      BY <2>4 DEF OrderInv, NothingLost, AtRest, BatchInv, TypeOK
    <3>2. tool[i] = "idle" /\ BatchResult(i).started = FALSE
      BY <2>4, <3>1 DEF BatchInv, Unlaunched, BatchResult
    <3>3. QED
      BY <2>1, <3>2 DEF Tells
  <2>5. QED
    BY <2>3, <2>4
<1>2. \A r \in pending' : \E i \in Call : r = BatchResult(i)
  BY DEF CloseBatch
<1>3. \A r \in pending' : Tells(r)
  BY <1>1, <1>2
<1>4. QED
  BY <1>3 DEF Tells, call

\* A step that leaves the results alone and starts nothing.
LEMMA EnvelopeFrame ==
  ASSUME TypeOK, PendingTells, EnvelopeNeverOverstates, UNCHANGED <<transcript, pending>>,
         pc' \in {"emit", "closing"} => pc' = pc,
         pc \in {"closing", "ended", "rejected"} => pc' \in {"closing", "ended", "rejected"},
         SameStarts \/ (transcript = <<>> /\ pc' \notin {"emit", "closing"})
  PROVE  PendingTells' /\ EnvelopeNeverOverstates'
<1>1. pending \subseteq Result /\ \A k \in DOMAIN transcript : transcript[k] \in Result
  BY DEF TypeOK
<1>2. SameStarts => \A r \in Result : Tells(r) => Tells(r)'
  BY DEF SameStarts, Tells, Result
<1>3. \A r \in Result : IsClosure(r)' <=> IsClosure(r)
  BY DEF IsClosure
<1>4. PendingTells'
  BY <1>1, <1>2, <1>3 DEF PendingTells
<1>5. CASE transcript = <<>>
  BY <1>4, <1>5 DEF EnvelopeNeverOverstates, Tells, IsClosure
<1>6. CASE SameStarts
  <2>1. \A k \in DOMAIN transcript : /\ transcript[k] \in Result /\ transcript'[k] = transcript[k]
                                     /\ transcript[k].call \in Call
    BY <1>1 DEF Result
  <2>2. QED
    BY <1>4, <1>6, <2>1 DEF EnvelopeNeverOverstates, SameStarts, Tells, IsClosure
<1>7. QED
  BY <1>5, <1>6

\* A result is emitted as it was made.
LEMMA EmittedKeepsEnvelope ==
  ASSUME TypeOK, PendingTells, EnvelopeNeverOverstates, UNCHANGED call,
         NEW r \in pending, NEW onFailure, Emitted(r, onFailure),
         \/ pc = "emit" /\ onFailure = "failing"
         \/ pc = "closing" /\ onFailure = "rejected"
  PROVE  PendingTells' /\ EnvelopeNeverOverstates'
<1>1. /\ transcript \in Seq(Result) /\ r \in Result /\ pc' \in {pc, onFailure}
      /\ pending' \subseteq pending
  BY DEF TypeOK, Emitted
<1>2. tool' = tool
  BY DEF call
<1>3. PendingTells'
  BY <1>1, <1>2 DEF PendingTells, Tells, IsClosure
<1> DEFINE Fine(s) == Tells(s) \/ (IsClosure(s) /\ pc \in {"closing", "ended", "rejected"})
<1>4. Fine(r) /\ \A k \in DOMAIN transcript : Fine(transcript[k])
  BY DEF PendingTells, EnvelopeNeverOverstates
<1> HIDE DEF Fine
<1>5. \A k \in DOMAIN transcript' : Fine(transcript'[k])
  <2>1. CASE transcript' = transcript
    BY <1>4, <2>1
  <2>2. CASE transcript' = Append(transcript, r)
    <3>1. /\ DOMAIN transcript' = 1..(Len(transcript) + 1) /\ DOMAIN transcript = 1..Len(transcript)
          /\ transcript'[Len(transcript) + 1] = r
          /\ \A k \in DOMAIN transcript : transcript'[k] = transcript[k]
          /\ Len(transcript) \in Nat
      BY <1>1, <2>2
    <3>2. QED
      BY <1>4, <3>1
  <2>3. QED
    BY <2>1, <2>2 DEF Emitted
<1>6. EnvelopeNeverOverstates'
  BY <1>1, <1>2, <1>5 DEF Fine, EnvelopeNeverOverstates, Tells, IsClosure
<1>7. QED
  BY <1>3, <1>6

\* A result is made when the execution of its call is decided, or denies it.
LEMMA EnvelopeKept ==
  BatchInv /\ OrderInv /\ ResultInv /\ AuditInv /\ EnvelopeInv /\ [Next]_vars =>
    PendingTells' /\ EnvelopeNeverOverstates'
<1> SUFFICES ASSUME BatchInv, OrderInv, ResultInv, AuditInv, EnvelopeInv, [Next]_vars
             PROVE  PendingTells' /\ EnvelopeNeverOverstates'
  OBVIOUS
<1>1. TypeOK /\ PendingTells /\ EnvelopeNeverOverstates
  BY DEF BatchInv, EnvelopeInv
<1> USE DEF log
<1>2. CASE UNCHANGED call /\ UNCHANGED transcript /\ pc \in {"level", "levelEnd"}
           /\ \E reason : CloseBatch(reason)
  <2>1. \A i \in Call : AtRest(i)
    BY <1>2 DEF AuditInv, ExecutorsJoined
  <2>2. pc' = "emit" /\ \A r \in pending' : Tells(r)'
    BY <1>2, <2>1, ClosedTellsExecution DEF CloseBatch
  <2>3. transcript' = <<>>
    BY <1>2 DEF ResultInv, InLevels
  <2>4. QED
    BY <2>2, <2>3 DEF PendingTells, EnvelopeNeverOverstates
<1>3. CASE EmitResult
  BY <1>1, <1>3, EmittedKeepsEnvelope DEF EmitResult
<1>4. CASE EmitClosure
  BY <1>1, <1>4, EmittedKeepsEnvelope DEF EmitClosure
<1>5. CASE HandleFailure
  <2>1. \A r \in pending' : IsClosure(r)'
    <3> DEFINE closure(i) == [call |-> i, disposition |-> "aborted", started |-> FALSE]
    <3>1. \A r \in pending' : \E i \in Missing : r = closure(i)
      BY <1>5 DEF HandleFailure
    <3>2. QED
      BY <3>1 DEF IsClosure
  <2>2. pc' = "closing" /\ UNCHANGED <<transcript, tool>> /\ pc = "failing"
    BY <1>5 DEF HandleFailure, call
  <2>3. QED
    BY <1>1, <2>1, <2>2 DEF PendingTells, EnvelopeNeverOverstates, Tells, IsClosure
<1>6. CASE Launch
  BY <1>1, <1>6, EnvelopeFrame DEF Launch, ResultInv, InLevels
<1>7. CASE /\ UNCHANGED <<transcript, pending>> /\ (pc' \in {"emit", "closing"} => pc' = pc)
           /\ (pc \in {"closing", "ended", "rejected"} => pc' \in {"closing", "ended", "rejected"})
  <2>1. Launch \/ SameStarts
    BY StartsByLaunch
  <2>2. CASE SameStarts
    BY <1>1, <1>7, <2>2, EnvelopeFrame
  <2>3. QED
    BY <1>6, <2>1, <2>2
<1>8. CASE EndLevels \/ EndLevel
  BY <1>2, <1>7, <1>8 DEF EndLevels, EndLevel
<1>9. ASSUME NEW i \in Call, EmitEnd(i) PROVE PendingTells' /\ EnvelopeNeverOverstates'
  BY <1>7, <1>9 DEF EmitEnd, Abandoned
<1>10. ASSUME NEW i \in Call, FinalizeTerminal(i) \/ AfterHookReturns(i)
       PROVE  PendingTells' /\ EnvelopeNeverOverstates'
  BY <1>7, <1>10 DEF FinalizeTerminal, AfterHookReturns, Finalized
<1>11. ASSUME NEW i \in Call, RefuseCall(i) \/ HookReturns(i)
       PROVE  PendingTells' /\ EnvelopeNeverOverstates'
  BY <1>7, <1>11 DEF RefuseCall, HookReturns, AfterAuthorizing
<1>12. QED
  BY <1>3, <1>4, <1>5, <1>6, <1>7, <1>8, <1>9, <1>10, <1>11
     DEF Next, Runner, Executor, Schedule, BeginLevel, RescheduleRunnable, EndSublevels, EmitStarts,
         Join, GraceSettled, GraceExpires, EndBatch, EndTurn, NextTurn, EndFailure, RaceSettles, ToolSettles, TimerFires,
         LateSettlement, Abort, vars

\* Results that tell of an execution tell the truth, and so do all results but those
\* made up for the calls without one after a listener has failed.
THEOREM EnvelopesNeverOverstate == Spec => []EnvelopeNeverOverstates
<1>1. Init => EnvelopeInv
  BY DEF Init, NoOutcome, EnvelopeInv, OutcomesTell, PendingTells, EnvelopeNeverOverstates
<1>2. BatchInv /\ OrderInv /\ ResultInv /\ AuditInv /\ EnvelopeInv /\ [Next]_vars => EnvelopeInv'
  BY OutcomesTellKept, EnvelopeKept DEF EnvelopeInv
<1>3. EnvelopeInv => EnvelopeNeverOverstates
  BY DEF EnvelopeInv
<1>4. QED
  BY <1>1, <1>2, <1>3, BatchInvHolds, OrderInvHolds, ResultInvHolds, AuditInvHolds, PTL DEF Spec

-------------------------------------------------------------------------------
(* What makes a batch terminate. *)

\* A batch is terminated by the results of one candidate level, every one of them; a
\* call that has no outcome then has not been executed.
TerminatesByLevel ==
  stop = "terminated" =>
    /\ \E L \in CandidateLevels : AllTerminate(L)
    /\ \A i \in Call : outcome[i].disposition = "none" => tool[i] = "idle"

\* The level that ends is one of the plan, and all its hooks have been called.
LevelEnds ==
  pc = "levelEnd" => /\ level \in CandidateLevels
                     /\ ~ aborted => \A i \in level : phase[i] # "planned"

\* A batch that was terminated is over, and the level that did it is final.
TerminatedByLevel ==
  stop = "terminated" =>
    /\ pc # "schedule" /\ ~ InLevels
    /\ \A i \in Call : AtRest(i)
    /\ \E L \in CandidateLevels : AllTerminate(L) /\ \A i \in L : Final(i)

StopInv == LevelEnds /\ TerminatedByLevel

\* How a level comes to its end.
LEMMA LevelEndsKept ==
  BatchInv /\ AuditInv /\ LevelInv /\ LevelEnds /\ [Next]_vars => LevelEnds'
<1> SUFFICES ASSUME BatchInv, AuditInv, LevelInv, LevelEnds, [Next]_vars, pc' = "levelEnd"
             PROVE  level' \in CandidateLevels /\ (~ aborted' => \A i \in level' : phase'[i] # "planned")
  BY CandidatesStay DEF LevelEnds
<1> USE DEF AtSublevels, call, plan, log
<1>1. /\ AtSublevels => level \in CandidateLevels /\ \A i \in level : phase[i] # "planned"
      /\ pc = "authorize" => level \in CandidateLevels
      /\ pc = "levelEnd" => /\ level \in CandidateLevels
                            /\ ~ aborted => \A i \in level : phase[i] # "planned"
      /\ level \subseteq Call
  BY DEF LevelInv, LevelsOfPlan, LevelAuthorized, LevelEnds, BatchInv, TypeOK
<1>2. CASE Schedule \/ BeginLevel \/ EndLevels \/ EndLevel \/ EmitStarts \/ Launch \/ EmitResult
           \/ EndBatch \/ EndTurn \/ NextTurn \/ HandleFailure \/ EmitClosure \/ EndFailure
  BY <1>2 DEF Schedule, BeginLevel, EndLevels, EndLevel, CloseBatch, EmitStarts, Launch, EmitResult,
     Emitted, EndBatch, EndTurn, NextTurn, HandleFailure, EmitClosure, EndFailure
<1>3. CASE RescheduleRunnable
  BY <1>1, <1>3 DEF RescheduleRunnable
<1>4. CASE EndSublevels \/ Join \/ GraceSettled \/ GraceExpires
  BY <1>1, <1>4 DEF EndSublevels, Join, GraceSettled, GraceExpires
<1>5. ASSUME NEW i \in Call, RefuseCall(i) \/ HookReturns(i)
      PROVE  level' \in CandidateLevels /\ (~ aborted' => \A j \in level' : phase'[j] # "planned")
  BY <1>1, <1>5 DEF RefuseCall, HookReturns, AfterAuthorizing
<1>6. ASSUME \/ Abort \/ UNCHANGED vars
             \/ \E i \in Call : \/ ToolSettles(i) \/ TimerFires(i) \/ LateSettlement(i)
                                \/ RaceSettles(i) \/ FinalizeTerminal(i) \/ AfterHookReturns(i) \/ EmitEnd(i)
      PROVE  level' \in CandidateLevels /\ (~ aborted' => \A i \in level' : phase'[i] # "planned")
  <2>1. /\ pc = "levelEnd" /\ level' = level /\ (~ aborted' => ~ aborted)
        /\ \A i \in Call : phase[i] # "planned" => phase'[i] # "planned"
    BY <1>6 DEF Abort, vars, ToolSettles, TimerFires, LateSettlement, RaceSettles, FinalizeTerminal,
       AfterHookReturns, Finalized, EmitEnd, BatchInv, TypeOK
  <2>2. QED
    BY <1>1, <2>1
<1>7. QED
  BY <1>2, <1>3, <1>4, <1>5, <1>6 DEF Next, Runner, Executor

\* A batch is terminated by the level that ends, and what that rests on stays.
LEMMA TerminatedKept ==
  BatchInv /\ OrderInv /\ AuditInv /\ StopInv /\ [Next]_vars => TerminatedByLevel'
<1> SUFFICES ASSUME BatchInv, OrderInv, AuditInv, StopInv, [Next]_vars, stop' = "terminated"
             PROVE  TerminatedByLevel'
  BY DEF TerminatedByLevel
<1> USE DEF call, plan, log, vars
<1>1. CandidateLevels' = CandidateLevels /\ \A L \in CandidateLevels : L \subseteq Call
  BY CandidatesStay
<1>2. CASE stop = "terminated"
  <2>1. /\ pc # "schedule" /\ ~ InLevels /\ \A i \in Call : AtRest(i)
        /\ \E L \in CandidateLevels : AllTerminate(L) /\ \A i \in L : Final(i)
    BY <1>2 DEF StopInv, TerminatedByLevel
  <2>2. UNCHANGED <<phase, outcome>> /\ pc' # "schedule" /\ ~ InLevels'
    <3>1. \A i \in Call : phase[i] \notin {"racing", "finalizing", "ending"}
      BY <2>1 DEF AtRest
    <3>2. pc \in {"emit", "turnEnd", "nextTurn", "failing", "closing", "provider", "ended", "rejected"}
      BY <2>1 DEF InLevels, BatchInv, TypeOK
    <3>3. QED
      BY <3>1, <3>2
         DEF Next, Runner, Executor, Schedule, BeginLevel, EndLevels, EndLevel, RescheduleRunnable,
             EndSublevels, EmitStarts, Launch, Join, GraceSettled, GraceExpires, EmitResult, Emitted,
             EndBatch, EndTurn, NextTurn, HandleFailure, EmitClosure, EndFailure, RefuseCall, HookReturns, RaceSettles,
             FinalizeTerminal, AfterHookReturns, EmitEnd, ToolSettles, TimerFires, LateSettlement,
             Abort, InLevels
  <2>3. /\ \A i \in Call : AtRest(i)'
        /\ \E L \in CandidateLevels' : AllTerminate(L)' /\ \A i \in L : Final(i)'
    BY <1>1, <2>1, <2>2 DEF AtRest, AllTerminate, Final
  <2>4. QED
    BY <2>2, <2>3 DEF TerminatedByLevel
<1>3. CASE stop # "terminated"
  <2>1. EndLevel /\ ~ aborted /\ stop = "no" /\ AllTerminate(LevelOutcomes) /\ CloseBatch("terminated")
    <3>1. EndLevel
      BY <1>3
         DEF Next, Runner, Executor, Schedule, BeginLevel, EndLevels, CloseBatch, RescheduleRunnable,
             EndSublevels, EmitStarts, Launch, Join, GraceSettled, GraceExpires, EmitResult, Emitted,
             EndBatch, EndTurn, NextTurn, HandleFailure, EmitClosure, EndFailure, RefuseCall, HookReturns, RaceSettles,
             FinalizeTerminal, AfterHookReturns, Finalized, EmitEnd, ToolSettles, TimerFires,
             LateSettlement, Abort, AfterAuthorizing
    <3>2. QED
      BY <1>3, <3>1 DEF EndLevel, CloseBatch
  <2>2. pc = "levelEnd" /\ pc' = "emit" /\ UNCHANGED <<phase, outcome, level>>
    BY <2>1 DEF EndLevel, CloseBatch
  <2>3. /\ level \in CandidateLevels /\ level \subseteq Call /\ \A i \in level : phase[i] # "planned"
        /\ \A i \in Call : AtRest(i)
    BY <1>1, <2>1, <2>2 DEF StopInv, LevelEnds, AuditInv, ExecutorsJoined
  <2>4. \A i \in level : Final(i) /\ outcome[i].disposition # "none"
    <3> TAKE i \in level
    <3>1. ~ In(levels, i)
      BY <2>2, <2>3 DEF BatchInv, LevelsAhead, InLevels, AllIn, In
    <3>2. Final(i)
      BY <2>1, <2>2, <2>3, <3>1 DEF OrderInv, NothingLost
    <3>3. QED
      BY <2>3, <3>2 DEF OrderInv, NothingLost, Final
  <2>5. LevelOutcomes = level
    BY <2>4 DEF LevelOutcomes
  <2>6. \E L \in CandidateLevels : AllTerminate(L) /\ \A i \in L : Final(i)
    BY <2>1, <2>3, <2>4, <2>5
  <2>7. /\ \A i \in Call : AtRest(i)'
        /\ \E L \in CandidateLevels' : AllTerminate(L)' /\ \A i \in L : Final(i)'
    BY <1>1, <2>2, <2>3, <2>6 DEF AtRest, AllTerminate, Final
  <2>8. QED
    BY <2>2, <2>7 DEF TerminatedByLevel, InLevels
<1>4. QED
  BY <1>2, <1>3

\* A terminating batch is stopped by one level as a whole, although the results of the
\* levels before it need not terminate, and what it skips has not been executed.
THEOREM TerminatesByOneLevel == Spec => []TerminatesByLevel
<1>1. Init => StopInv
  BY DEF Init, StopInv, LevelEnds, TerminatedByLevel
<1>2. BatchInv /\ OrderInv /\ AuditInv /\ LevelInv /\ StopInv /\ [Next]_vars => StopInv'
  BY LevelEndsKept, TerminatedKept DEF StopInv
<1>3. BatchInv /\ OrderInv /\ StopInv => TerminatesByLevel
  <2> SUFFICES ASSUME BatchInv, OrderInv, StopInv, stop = "terminated"
               PROVE  /\ \E L \in CandidateLevels : AllTerminate(L)
                      /\ \A i \in Call : outcome[i].disposition = "none" => tool[i] = "idle"
    BY DEF TerminatesByLevel
  <2>1. \A i \in Call : outcome[i].disposition = "none" => phase[i] \in {"planned", "prepared"}
    BY DEF StopInv, TerminatedByLevel, AtRest, OrderInv, NothingLost, BatchInv, TypeOK
  <2>2. QED
    BY <2>1 DEF StopInv, TerminatedByLevel, BatchInv, Unlaunched
<1>4. QED
  BY <1>1, <1>2, <1>3, BatchInvHolds, OrderInvHolds, AuditInvHolds, LevelInvHolds, PTL DEF Spec

===============================================================================
