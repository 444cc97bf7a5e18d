---------------------------- MODULE DagPlanProofs ----------------------------
(***************************************************************************)
(* Proofs about the dag-v2 scheduler, for every batch, every set of        *)
(* resources, every overlap relation and every cap: the levels are ordered *)
(* and needed, and the plan is complete and is the schedule of DagSchedule.*)
(***************************************************************************)
EXTENDS DagPlan, DagScheduleProofs, FiniteSetTheorems, TLAPS

-------------------------------------------------------------------------------
(* The level check of the code and the pairwise check decide the same. *)

\* A level holds exactly the claims of its calls, by access.
LevelsHoldClaims ==
  \A l \in DOMAIN levels :
    /\ levels[l].hasExclusive <=> \E i \in levels[l].indices : entries[i].exclusive
    /\ \A i \in levels[l].indices : ~ entries[i].exclusive =>
         /\ WritesOf(entries[i]) \subseteq levels[l].writeClaims
         /\ ReadsOf(entries[i]) \subseteq levels[l].readClaims
    /\ \A c \in levels[l].writeClaims : \E i \in levels[l].indices : c \in WritesOf(entries[i])
    /\ \A c \in levels[l].readClaims : \E i \in levels[l].indices : c \in ReadsOf(entries[i])

\* Conflict does not depend on which of the two calls comes first.
LEMMA ConflictSymmetric ==
  ASSUME NEW r \in Resolution, NEW s \in Resolution
  PROVE  resolutionsConflict(r, s) <=> resolutionsConflict(s, r)
BY OverlapAssumption DEF resolutionsConflict, claimsConflict, Resolution, Claim

\* "Equivalent to the full pairwise resolutionsConflict check" (comment of
\* resolutionConflictsLevel): comparing a call with the accumulated claims of a
\* level gives the same answer as comparing it with each call of the level.
LEMMA LevelCheckIsPairwise ==
  ASSUME TypeOK, PlacedExactlyOnce, LevelsHoldClaims,
         NEW e \in Index, NEW l \in DOMAIN levels
  PROVE  resolutionConflictsLevel(entries[e], levels[l]) <=>
           \E i \in levels[l].indices : resolutionsConflict(entries[i], entries[e])
<1>1. levels[l] \in Level /\ levels[l].indices \subseteq Index
  <2>1. levels \in Seq(Level)
    BY DEF TypeOK
  <2>2. levels[l] \in Level
    BY <2>1
  <2>3. QED
    BY <2>2 DEF Level
<1>2. entries[e] \in Resolution /\ \A i \in levels[l].indices : entries[i] \in Resolution
  BY <1>1 DEF TypeOK
<1>3. ASSUME resolutionConflictsLevel(entries[e], levels[l])
      PROVE  \E i \in levels[l].indices : resolutionsConflict(entries[i], entries[e])
  <2>1. CASE levels[l].hasExclusive
    BY <2>1 DEF LevelsHoldClaims, resolutionsConflict
  <2>2. CASE entries[e].exclusive
    BY <2>2 DEF PlacedExactlyOnce, resolutionsConflict
  <2>3. CASE \E c \in WritesOf(entries[e]), d \in levels[l].writeClaims \cup levels[l].readClaims :
               claimsConflict(c, d)
    <3>1. PICK c \in WritesOf(entries[e]), d \in levels[l].writeClaims \cup levels[l].readClaims :
                 claimsConflict(c, d)
      BY <2>3
    <3>2. PICK i \in levels[l].indices : d \in entries[i].claims
      BY <3>1 DEF LevelsHoldClaims, WritesOf, ReadsOf
    <3>3. c \in entries[e].claims
      BY DEF WritesOf
    <3>4. resolutionsConflict(entries[e], entries[i])
      BY <3>1, <3>2, <3>3 DEF resolutionsConflict
    <3>5. QED
      BY <3>4, <1>2, ConflictSymmetric
  <2>4. CASE \E c \in ReadsOf(entries[e]), d \in levels[l].writeClaims : claimsConflict(c, d)
    <3>1. PICK c \in ReadsOf(entries[e]), d \in levels[l].writeClaims : claimsConflict(c, d)
      BY <2>4
    <3>2. PICK i \in levels[l].indices : d \in entries[i].claims
      BY <3>1 DEF LevelsHoldClaims, WritesOf
    <3>3. c \in entries[e].claims
      BY DEF ReadsOf
    <3>4. resolutionsConflict(entries[e], entries[i])
      BY <3>1, <3>2, <3>3 DEF resolutionsConflict
    <3>5. QED
      BY <3>4, <1>2, ConflictSymmetric
  <2>5. QED
    BY <1>3, <2>1, <2>2, <2>3, <2>4 DEF resolutionConflictsLevel
<1>4. ASSUME NEW i \in levels[l].indices, resolutionsConflict(entries[i], entries[e])
      PROVE  resolutionConflictsLevel(entries[e], levels[l])
  <2>1. CASE entries[i].exclusive
    BY <2>1 DEF LevelsHoldClaims, resolutionConflictsLevel
  <2>2. CASE entries[e].exclusive
    BY <2>2 DEF resolutionConflictsLevel
  <2>3. CASE ~ entries[i].exclusive /\ ~ entries[e].exclusive
    <3>1. PICK d \in entries[i].claims, c \in entries[e].claims : claimsConflict(d, c)
      BY <1>4, <2>3 DEF resolutionsConflict
    <3>2. c \in Claim /\ d \in Claim
      BY <1>2 DEF Resolution
    <3>3. claimsConflict(c, d)
      BY <3>1, <3>2, OverlapAssumption DEF claimsConflict, Claim
    <3>4. d \in levels[l].writeClaims \cup levels[l].readClaims
      BY <2>3, <3>2 DEF LevelsHoldClaims, WritesOf, ReadsOf, Claim, Access
    <3>5. d.access = "write" => d \in levels[l].writeClaims
      BY <2>3 DEF LevelsHoldClaims, WritesOf
    <3>6. CASE c.access = "write"
      BY <3>3, <3>4, <3>6 DEF resolutionConflictsLevel, WritesOf
    <3>7. CASE c.access = "read"
      <4>1. d.access = "write"
        BY <3>7, <3>3 DEF claimsConflict
      <4>2. c \in ReadsOf(entries[e])
        BY <3>7 DEF ReadsOf
      <4>3. QED
        BY <4>1, <4>2, <3>3, <3>5 DEF resolutionConflictsLevel
    <3>8. QED
      BY <3>2, <3>6, <3>7 DEF Claim, Access
  <2>4. QED
    BY <2>1, <2>2, <2>3
<1>5. QED
  BY <1>3, <1>4

-------------------------------------------------------------------------------
(* Type correctness. *)

\* A level stays a level when a call joins it.
LEMMA JoinType ==
  ASSUME TypeOK, NEW level \in Level, NEW e \in Index
  PROVE  /\ Join(level, e) \in Level
         /\ Join(level, e).indices = level.indices \cup {e}
<1>1. entries[e] \in Resolution
  BY DEF TypeOK
<1>2. WritesOf(entries[e]) \subseteq Claim /\ ReadsOf(entries[e]) \subseteq Claim
  BY <1>1 DEF WritesOf, ReadsOf, Resolution
<1>3. QED
  BY <1>2 DEF Join, Level

\* A new level has the type of a level.
LEMMA EmptyLevelType == EmptyLevel \in Level
BY DEF EmptyLevel, Level

\* What one iteration of assignDagLevels does to the levels: the new entry joins
\* its target and every other level is as before.
LEMMA AssignEntryEffect ==
  ASSUME TypeOK, AssignEntry
  PROVE  \E t \in 1..(Len(levels) + 1) :
           /\ IsTarget(placed + 1, t)
           /\ levels' \in Seq(Level)
           /\ Len(levels') = IF t > Len(levels) THEN Len(levels) + 1 ELSE Len(levels)
           /\ t \in DOMAIN levels'
           /\ levels'[t] = Join(IF t > Len(levels) THEN EmptyLevel ELSE levels[t], placed + 1)
           /\ \A l \in DOMAIN levels : l # t => levels'[l] = levels[l]
           /\ DOMAIN levels' = DOMAIN levels \cup {t}
<1>1. PICK t \in 1..(Len(levels) + 1) :
             /\ IsTarget(placed + 1, t)
             /\ levels' = IF t > Len(levels)
                          THEN Append(levels, Join(EmptyLevel, placed + 1))
                          ELSE [levels EXCEPT ![t] = Join(@, placed + 1)]
  BY DEF AssignEntry
<1>2. levels \in Seq(Level) /\ placed + 1 \in Index
  BY PlanAssumption DEF TypeOK, AssignEntry, Index
<1>3. Len(levels) \in Nat /\ DOMAIN levels = 1..Len(levels)
  BY <1>2
<1>4. CASE t > Len(levels)
  <2>1. Join(EmptyLevel, placed + 1) \in Level
    BY <1>2, JoinType, EmptyLevelType
  <2>2. levels' = Append(levels, Join(EmptyLevel, placed + 1)) /\ t = Len(levels) + 1
    BY <1>1, <1>3, <1>4
  <2>3. QED
    BY <1>1, <1>2, <1>3, <1>4, <2>1, <2>2
<1>5. CASE t <= Len(levels)
  <2>1. t \in DOMAIN levels /\ levels[t] \in Level
    BY <1>2, <1>3, <1>5
  <2>2. Join(levels[t], placed + 1) \in Level
    BY <1>2, <2>1, JoinType
  <2>3. levels' = [levels EXCEPT ![t] = Join(levels[t], placed + 1)]
    <3>1. ~ (t > Len(levels))
      BY <1>3, <1>5
    <3>2. QED
      BY <1>1, <3>1, Zenon
  <2>4. QED
    BY <1>1, <1>2, <1>3, <1>5, <2>1, <2>2, <2>3
<1>6. t > Len(levels) \/ t <= Len(levels)
  BY <1>1, <1>3
<1>7. QED
  BY <1>4, <1>5, <1>6, Zenon

\* A slice is a part of its level.
LEMMA SliceSubset == \A S, from : Slice(S, from) \subseteq S
BY DEF Slice

\* The first state has the types.
LEMMA InitType == Init => TypeOK
BY PlanAssumption DEF Init, TypeOK

\* Every step keeps the types.
LEMMA NextType == TypeOK /\ [Next]_planVars => TypeOK'
<1> SUFFICES ASSUME TypeOK, [Next]_planVars PROVE TypeOK'
  OBVIOUS
<1>1. CASE AssignEntry
  <2>1. levels' \in Seq(Level) /\ Len(levels') >= Len(levels)
    <3>1. Len(levels) \in Nat
      BY DEF TypeOK
    <3>2. PICK t \in 1..(Len(levels) + 1) :
            /\ levels' \in Seq(Level)
            /\ Len(levels') = IF t > Len(levels) THEN Len(levels) + 1 ELSE Len(levels)
      BY <1>1, AssignEntryEffect, Zenon
    <3>3. QED
      BY <3>1, <3>2
  <2>2. current' \in 1..(Len(levels') + 1)
    BY <1>1, <2>1 DEF TypeOK, AssignEntry
  <2>3. QED
    BY <1>1, <2>1, <2>2, PlanAssumption DEF TypeOK, AssignEntry
<1>2. CASE ChunkLevel
  <2>1. levels \in Seq(Level) /\ current \in 1..Len(levels)
    BY <1>2 DEF TypeOK, ChunkLevel
  <2>2. levels[current].indices \in SUBSET Index
    <3>1. levels[current] \in Level
      BY <2>1
    <3>2. QED
      BY <3>1 DEF Level
  <2>3. Slice(levels[current].indices, start) \in SUBSET Index
    BY <2>2, SliceSubset
  <2>4. chunked' \in Seq(SUBSET Index)
    <3>1. chunked \in Seq(SUBSET Index)
      BY DEF TypeOK
    <3>2. \E S \in SUBSET Index : chunked' = Append(chunked, S)
      BY <1>2, <2>2, <2>3 DEF ChunkLevel, WholeLevel, SliceLevel
    <3>3. QED
      BY <3>1, <3>2
  <2>5. current' \in 1..(Len(levels) + 1) /\ start' \in Nat
    BY <1>2, <2>1 DEF TypeOK, ChunkLevel, WholeLevel, SliceLevel
  <2>6. QED
    BY <1>2, <2>4, <2>5 DEF TypeOK, ChunkLevel
<1>3. CASE UNCHANGED planVars
  BY <1>3 DEF planVars, TypeOK
<1>4. QED
  BY <1>1, <1>2, <1>3 DEF Next

\* The state of the scheduler keeps its types.
THEOREM PlanTypeCorrect == Spec => []TypeOK
BY InitType, NextType, PTL DEF Spec

-------------------------------------------------------------------------------
(* The levels: order of conflicts and no needless barrier. *)

LevelInv ==
  /\ TypeOK
  /\ PlacedExactlyOnce
  /\ LevelsHoldClaims
  /\ ConflictAdvancesLevel
  /\ NoNeedlessBarrier

\* The invariant of the levels holds at first.
LEMMA LevelInvInit == Init => LevelInv
BY InitType DEF Init, LevelInv, PlacedExactlyOnce, LevelsHoldClaims,
   ConflictAdvancesLevel, NoNeedlessBarrier

\* What the executor of the loop may rely on after one iteration: the new entry
\* is the largest one placed, and the levels other than its own are unchanged.
LEMMA AssignEntryIndices ==
  ASSUME LevelInv, AssignEntry
  PROVE  \E t \in 1..(Len(levels) + 1) :
           /\ IsTarget(placed + 1, t)
           /\ DOMAIN levels' = DOMAIN levels \cup {t}
           /\ levels'[t] = Join(IF t > Len(levels) THEN EmptyLevel ELSE levels[t], placed + 1)
           /\ levels'[t].indices = (IF t > Len(levels) THEN {} ELSE levels[t].indices)
                                   \cup {placed + 1}
           /\ \A l \in DOMAIN levels : l # t => levels'[l] = levels[l]
           /\ t \notin DOMAIN levels <=> t > Len(levels)
<1>1. TypeOK /\ placed + 1 \in Index /\ levels \in Seq(Level)
  BY PlanAssumption DEF LevelInv, TypeOK, AssignEntry, Index
<1>2. PICK t \in 1..(Len(levels) + 1) :
           /\ IsTarget(placed + 1, t)
           /\ DOMAIN levels' = DOMAIN levels \cup {t}
           /\ levels'[t] = Join(IF t > Len(levels) THEN EmptyLevel ELSE levels[t], placed + 1)
           /\ \A l \in DOMAIN levels : l # t => levels'[l] = levels[l]
  BY <1>1, AssignEntryEffect, Zenon
<1>3. Len(levels) \in Nat /\ DOMAIN levels = 1..Len(levels)
  BY <1>1
<1>4. t \notin DOMAIN levels <=> t > Len(levels)
  BY <1>2, <1>3
<1>5. CASE t > Len(levels)
  <2>1. levels'[t].indices = EmptyLevel.indices \cup {placed + 1}
    BY <1>1, <1>2, <1>5, JoinType, EmptyLevelType
  <2>2. QED
    BY <1>2, <1>4, <1>5, <2>1 DEF EmptyLevel
<1>6. CASE ~ (t > Len(levels))
  <2>1. levels[t] \in Level
    BY <1>1, <1>3, <1>4, <1>6
  <2>2. levels'[t].indices = levels[t].indices \cup {placed + 1}
    BY <1>1, <1>2, <1>6, <2>1, JoinType
  <2>3. QED
    BY <1>2, <1>4, <1>6, <2>2
<1>7. QED
  BY <1>5, <1>6

\* Placing an entry puts it into one level and moves no other.
LEMMA AssignEntryKeepsPlaced ==
  ASSUME LevelInv, AssignEntry
  PROVE  PlacedExactlyOnce'
<1>1. PICK t \in 1..(Len(levels) + 1) :
           /\ DOMAIN levels' = DOMAIN levels \cup {t}
           /\ levels'[t].indices = (IF t > Len(levels) THEN {} ELSE levels[t].indices)
                                   \cup {placed + 1}
           /\ \A l \in DOMAIN levels : l # t => levels'[l] = levels[l]
           /\ t \notin DOMAIN levels <=> t > Len(levels)
  BY AssignEntryIndices, Zenon
<1>2. placed' = placed + 1 /\ placed \in Nat
  BY PlanAssumption DEF AssignEntry, LevelInv, TypeOK
<1>3. /\ \A l \in DOMAIN levels : levels[l].indices # {}
      /\ \A l, m \in DOMAIN levels : l # m => levels[l].indices \cap levels[m].indices = {}
      /\ UNION {levels[l].indices : l \in DOMAIN levels} = 1..placed
  BY DEF LevelInv, PlacedExactlyOnce
<1>4. \A l \in DOMAIN levels : placed + 1 \notin levels[l].indices
  BY <1>2, <1>3
<1>5. \A l \in DOMAIN levels' : levels'[l].indices # {}
  BY <1>1, <1>3
<1>6. \A l, m \in DOMAIN levels' : l # m => levels'[l].indices \cap levels'[m].indices = {}
  BY <1>1, <1>3, <1>4
<1>7. UNION {levels'[l].indices : l \in DOMAIN levels'}
        = (UNION {levels[l].indices : l \in DOMAIN levels}) \cup {placed + 1}
  BY <1>1
<1>8. (1..placed) \cup {placed + 1} = 1..(placed + 1)
  BY <1>2
<1>9. QED
  BY <1>2, <1>3, <1>5, <1>6, <1>7, <1>8 DEF PlacedExactlyOnce

\* Placing an entry adds its claims, and nothing else, to its level.
LEMMA AssignEntryKeepsClaims ==
  ASSUME LevelInv, AssignEntry
  PROVE  LevelsHoldClaims'
<1>1. PICK t \in 1..(Len(levels) + 1) :
           /\ DOMAIN levels' = DOMAIN levels \cup {t}
           /\ levels'[t] = Join(IF t > Len(levels) THEN EmptyLevel ELSE levels[t], placed + 1)
           /\ \A l \in DOMAIN levels : l # t => levels'[l] = levels[l]
           /\ t \notin DOMAIN levels <=> t > Len(levels)
  BY AssignEntryIndices, Zenon
<1> DEFINE old == IF t > Len(levels) THEN EmptyLevel ELSE levels[t]
           e   == placed + 1
           HoldsClaims(level) ==
             /\ level.hasExclusive <=> \E i \in level.indices : entries[i].exclusive
             /\ \A i \in level.indices : ~ entries[i].exclusive =>
                  /\ WritesOf(entries[i]) \subseteq level.writeClaims
                  /\ ReadsOf(entries[i]) \subseteq level.readClaims
             /\ \A c \in level.writeClaims : \E i \in level.indices : c \in WritesOf(entries[i])
             /\ \A c \in level.readClaims : \E i \in level.indices : c \in ReadsOf(entries[i])
<1>2. levels \in Seq(Level) /\ e \in Index /\ entries' = entries /\ entries \in [Index -> Resolution]
  BY PlanAssumption DEF LevelInv, TypeOK, AssignEntry, Index
<1>3. \A l \in DOMAIN levels : HoldsClaims(levels[l])
  BY DEF LevelInv, LevelsHoldClaims
<1>4. old \in Level /\ HoldsClaims(old)
  <2>1. CASE t > Len(levels)
    BY <2>1, EmptyLevelType DEF EmptyLevel
  <2>2. CASE ~ (t > Len(levels))
    <3>1. t \in DOMAIN levels
      BY <1>1, <2>2
    <3>2. levels[t] \in Level
      BY <1>2, <3>1
    <3>3. QED
      BY <1>3, <2>2, <3>1, <3>2
  <2>3. QED
    BY <2>1, <2>2
<1>5. HoldsClaims(Join(old, e))
  <2> HIDE DEF old
  <2>1. CASE entries[e].exclusive
    <3>1. /\ Join(old, e).indices = old.indices \cup {e}
          /\ Join(old, e).hasExclusive = TRUE
          /\ Join(old, e).writeClaims = old.writeClaims
          /\ Join(old, e).readClaims = old.readClaims
      BY <1>4, <2>1 DEF Join, Level
    <3>2. QED
      BY <1>4, <2>1, <3>1
  <2>2. CASE ~ entries[e].exclusive
    <3>1. /\ Join(old, e).indices = old.indices \cup {e}
          /\ Join(old, e).hasExclusive = old.hasExclusive
          /\ Join(old, e).writeClaims = old.writeClaims \cup WritesOf(entries[e])
          /\ Join(old, e).readClaims = old.readClaims \cup ReadsOf(entries[e])
      BY <1>4, <2>2 DEF Join, Level
    <3>2. QED
      BY <1>4, <2>2, <3>1
  <2>3. QED
    BY <2>1, <2>2
<1>6. \A l \in DOMAIN levels' : HoldsClaims(levels'[l])
  BY <1>1, <1>3, <1>5
<1>7. QED
  BY <1>2, <1>6 DEF LevelsHoldClaims, WritesOf, ReadsOf

\* Placing an entry keeps conflicts ordered and barriers needed.
LEMMA AssignEntryKeepsOrder ==
  ASSUME LevelInv, AssignEntry
  PROVE  ConflictAdvancesLevel' /\ NoNeedlessBarrier'
<1>1. PICK t \in 1..(Len(levels) + 1) :
           /\ IsTarget(placed + 1, t)
           /\ DOMAIN levels' = DOMAIN levels \cup {t}
           /\ levels'[t].indices = (IF t > Len(levels) THEN {} ELSE levels[t].indices)
                                   \cup {placed + 1}
           /\ \A l \in DOMAIN levels : l # t => levels'[l] = levels[l]
           /\ t \notin DOMAIN levels <=> t > Len(levels)
  BY AssignEntryIndices, Zenon
<1> DEFINE e == placed + 1
           old(l) == IF l \in DOMAIN levels THEN levels[l].indices ELSE {}
<1>2. /\ levels \in Seq(Level) /\ e \in Index /\ entries' = entries
      /\ entries \in [Index -> Resolution] /\ placed \in Nat
      /\ TypeOK /\ PlacedExactlyOnce /\ LevelsHoldClaims
  BY PlanAssumption DEF LevelInv, TypeOK, AssignEntry, Index
<1>3. Len(levels) \in Nat /\ DOMAIN levels = 1..Len(levels)
  BY <1>2
<1>4. \A l \in DOMAIN levels' : levels'[l].indices = IF l = t THEN old(l) \cup {e} ELSE old(l)
  BY <1>1
<1>5. \A l \in DOMAIN levels : \A i \in levels[l].indices : i \in 1..placed
  BY <1>2 DEF PlacedExactlyOnce
<1>6. \A l \in DOMAIN levels' : \A i \in old(l) : i \in Nat /\ i < e /\ l \in DOMAIN levels
  BY <1>2, <1>5
<1>7. \A l \in DOMAIN levels : l >= t =>
        \A i \in levels[l].indices : ~ resolutionsConflict(entries[i], entries[e])
  <2> SUFFICES ASSUME NEW l \in DOMAIN levels, l >= t, NEW i \in levels[l].indices
               PROVE  ~ resolutionsConflict(entries[i], entries[e])
    OBVIOUS
  <2>1. ~ resolutionConflictsLevel(entries[e], levels[l])
    BY <1>1, <1>3 DEF IsTarget
  <2>2. QED
    BY <1>2, <2>1, LevelCheckIsPairwise, Zenon
<1>8. ConflictAdvancesLevel'
  <2> SUFFICES ASSUME NEW l \in DOMAIN levels', NEW m \in DOMAIN levels',
                      NEW i \in levels'[l].indices, NEW j \in levels'[m].indices,
                      i < j, resolutionsConflict(entries[i], entries[j])
               PROVE  l < m
    BY <1>2, Zenon DEF ConflictAdvancesLevel, resolutionsConflict, claimsConflict
  <2>1. CASE i \in old(l) /\ j \in old(m)
    BY <1>6, <2>1 DEF LevelInv, ConflictAdvancesLevel
  <2>2. CASE i \in old(l) /\ m = t /\ j = e
    <3>1. l \in DOMAIN levels /\ i \in levels[l].indices
      BY <1>6, <2>2
    <3>2. ~ (l >= t)
      BY <1>7, <2>2, <3>1
    <3>3. QED
      BY <1>1, <1>3, <2>2, <3>1, <3>2
  <2>3. CASE l = t /\ i = e
    <3>1. j \in old(m) \/ j = e
      <4> HIDE DEF old, e
      <4>1. QED
        BY <1>4
    <3>2. (j \in Nat /\ j < e) \/ j = e
      BY <1>6, <3>1
    <3>3. QED
      BY <1>2, <2>3, <3>2
  <2>4. /\ i \in old(l) \/ (l = t /\ i = e)
        /\ j \in old(m) \/ (m = t /\ j = e)
    <3> HIDE DEF old, e
    <3>1. QED
      BY <1>4
  <2>5. QED
    BY <2>1, <2>2, <2>3, <2>4, Zenon
<1>9. NoNeedlessBarrier'
  <2> SUFFICES ASSUME NEW m \in DOMAIN levels', m > 1, NEW j \in levels'[m].indices
               PROVE  \E i \in levels'[m - 1].indices :
                        i < j /\ resolutionsConflict(entries[i], entries[j])
    BY <1>2, Zenon DEF NoNeedlessBarrier, resolutionsConflict, claimsConflict
  <2>1. m - 1 \in DOMAIN levels /\ m - 1 \in DOMAIN levels'
    BY <1>1, <1>3
  <2>2. levels[m - 1].indices \subseteq levels'[m - 1].indices
    BY <1>4, <2>1
  <2>3. CASE j \in old(m)
    <3>1. m \in DOMAIN levels
      BY <1>6, <2>3
    <3>2. \E i \in levels[m - 1].indices :
                   i < j /\ resolutionsConflict(entries[i], entries[j])
      BY <2>3, <3>1 DEF LevelInv, NoNeedlessBarrier
    <3>3. QED
      BY <2>2, <3>2
  <2>4. CASE m = t /\ j = e
    <3>1. resolutionConflictsLevel(entries[e], levels[t - 1])
      BY <1>1, <2>4 DEF IsTarget
    <3>2. \E i \in levels[t - 1].indices : resolutionsConflict(entries[i], entries[e])
      BY <1>2, <2>1, <2>4, <3>1, LevelCheckIsPairwise, Zenon
    <3>3. \A i \in levels[t - 1].indices : i < e
      BY <1>2, <1>5, <2>1, <2>4
    <3>4. QED
      BY <2>2, <2>4, <3>2, <3>3
  <2>5. j \in old(m) \/ (m = t /\ j = e)
    <3> HIDE DEF old, e
    <3>1. QED
      BY <1>4
  <2>6. QED
    BY <2>3, <2>4, <2>5, Zenon
<1>10. QED
  BY <1>8, <1>9

\* Every step keeps the invariant of the levels.
LEMMA LevelInvNext == LevelInv /\ [Next]_planVars => LevelInv'
<1> SUFFICES ASSUME LevelInv, [Next]_planVars PROVE LevelInv'
  OBVIOUS
<1>1. TypeOK'
  BY NextType DEF LevelInv
<1>2. CASE AssignEntry
  BY <1>1, <1>2, AssignEntryKeepsPlaced, AssignEntryKeepsClaims, AssignEntryKeepsOrder DEF LevelInv
<1>3. CASE ChunkLevel \/ UNCHANGED planVars
  <2>1. UNCHANGED <<entries, placed, levels>>
    BY <1>3 DEF ChunkLevel, planVars
  <2>2. QED
    BY <1>1, <2>1 DEF LevelInv, PlacedExactlyOnce, LevelsHoldClaims, ConflictAdvancesLevel,
       NoNeedlessBarrier, resolutionsConflict, claimsConflict, WritesOf, ReadsOf
<1>4. QED
  BY <1>2, <1>3 DEF Next

\* The invariant of the levels holds in every state.
LEMMA LevelInvHolds == Spec => []LevelInv
BY LevelInvInit, LevelInvNext, PTL DEF Spec

\* For every batch, of two conflicting calls the earlier one has the strictly
\* earlier level: the calls of a level may run concurrently.
THEOREM ConflictsAreOrdered == Spec => []ConflictAdvancesLevel
BY LevelInvHolds, PTL DEF LevelInv

\* For every batch, a call waits for the level before its own only because it
\* conflicts with an earlier call there.
THEOREM BarriersAreNeeded == Spec => []NoNeedlessBarrier
BY LevelInvHolds, PTL DEF LevelInv

-------------------------------------------------------------------------------
(* The chunks: width and order. *)

\* The rank of a member of a finite set of numbers grows with the member, and
\* is between 1 and the size of the set.
LEMMA RankGrows ==
  ASSUME NEW S, S \subseteq Int, IsFiniteSet(S), NEW i \in S, NEW j \in S
  PROVE  /\ Rank(S, i) \in 1..Cardinality(S)
         /\ i < j => Rank(S, i) < Rank(S, j)
<1> DEFINE upTo(k) == {x \in S : x <= k}
<1>1. \A k \in S : /\ upTo(k) \subseteq S /\ k \in upTo(k)
                   /\ IsFiniteSet(upTo(k)) /\ Cardinality(upTo(k)) \in Nat
                   /\ Cardinality(upTo(k)) <= Cardinality(S)
  <2> TAKE k \in S
  <2>1. upTo(k) \subseteq S /\ k \in upTo(k)
    OBVIOUS
  <2>2. QED
    BY <2>1, FS_Subset, FS_CardinalityType
<1>2. Cardinality(upTo(i)) # 0 /\ Cardinality(S) \in Nat
  BY <1>1, FS_EmptySet, FS_CardinalityType
<1>3. ASSUME i < j PROVE Cardinality(upTo(i)) < Cardinality(upTo(j))
  <2>1. upTo(i) \subseteq upTo(j) /\ j \in upTo(j) /\ j \notin upTo(i)
    <3>1. \A x \in S : x \in Int
      OBVIOUS
    <3>2. \A x \in S : x <= i => x <= j
      BY <1>3, <3>1
    <3>3. ~ (j <= i)
      BY <1>3, <3>1
    <3>4. QED
      BY <1>1, <3>2, <3>3
  <2>2. upTo(i) # upTo(j)
    BY <2>1
  <2> HIDE DEF upTo
  <2>3. Cardinality(upTo(i)) <= Cardinality(upTo(j)) /\
        (Cardinality(upTo(i)) = Cardinality(upTo(j)) => upTo(i) = upTo(j))
    BY <1>1, <2>1, FS_Subset
  <2>4. QED
    BY <1>1, <2>2, <2>3
<1>4. QED
  <2> HIDE DEF upTo
  <2>1. Rank(S, i) = Cardinality(upTo(i)) /\ Rank(S, j) = Cardinality(upTo(j))
    BY DEF Rank, upTo
  <2>2. QED
    BY <1>1, <1>2, <1>3, <2>1

\* A slice has at most cap members: their ranks are distinct numbers of the
\* window.
LEMMA SliceWidth ==
  ASSUME NEW S, S \subseteq Int, IsFiniteSet(S), NEW from \in Nat, cap \in Nat
  PROVE  Cardinality(Slice(S, from)) <= cap
<1> DEFINE T == Slice(S, from)
           window == (from + 1)..(from + cap)
           rank == [i \in T |-> Rank(S, i)]
<1>1. T \subseteq S /\ IsFiniteSet(T)
  BY SliceSubset, FS_Subset
<1>2. \A i \in T : Rank(S, i) \in window
  <2> TAKE i \in T
  <2>1. Rank(S, i) \in Nat
    <3>1. i \in S
      BY <1>1
    <3>2. Rank(S, i) \in 1..Cardinality(S) /\ Cardinality(S) \in Nat
      BY <3>1, RankGrows, FS_CardinalityType
    <3>3. QED
      BY <3>2
  <2>2. from < Rank(S, i) /\ Rank(S, i) <= from + cap
    BY DEF Slice
  <2>3. QED
    BY <2>1, <2>2
<1>3. \A i, j \in T : rank[i] = rank[j] => i = j
  <2> SUFFICES ASSUME NEW i \in T, NEW j \in T, Rank(S, i) = Rank(S, j) PROVE i = j
    OBVIOUS
  <2>1. i \in S /\ j \in S /\ i \in Int /\ j \in Int
    BY <1>1
  <2>2. Rank(S, i) \in Nat /\ Rank(S, j) \in Nat
    BY <1>2
  <2>3. (i < j => Rank(S, i) < Rank(S, j)) /\ (j < i => Rank(S, j) < Rank(S, i))
    BY <2>1, RankGrows
  <2>4. QED
    BY <2>1, <2>2, <2>3
<1>4. rank \in Injection(T, window)
  <2>1. rank \in [T -> window]
    BY <1>2
  <2> HIDE DEF rank, T, window
  <2>2. QED
    BY <1>3, <2>1 DEF Injection, IsInjective
<1>5. IsFiniteSet(window) /\ Cardinality(window) = cap
  BY FS_Interval
<1>6. QED
  BY <1>4, <1>5, FS_Injection

\* A call is cut already: its level is done, or it is among the first members of
\* the level in work.
CutAlready(i) ==
  \E l \in DOMAIN levels :
    /\ i \in levels[l].indices
    /\ l < current \/ (l = current /\ Rank(levels[l].indices, i) <= start)

\* Chunks follow the levels, and source order within a level.
ChunksFollowLevels ==
  \A c, d \in DOMAIN chunked : c < d =>
    \A i \in chunked[c], j \in chunked[d] : \A l, m \in DOMAIN levels :
      i \in levels[l].indices /\ j \in levels[m].indices => l < m \/ (l = m /\ i < j)

ChunkInv ==
  /\ LevelInv
  /\ chunked # <<>> \/ current > 1 \/ start > 0 => placed = N
  /\ start > 0 => /\ current \in DOMAIN levels
                  /\ cap > 0 /\ cap < Cardinality(levels[current].indices)
  /\ \A c \in DOMAIN chunked : \A i \in chunked[c] : CutAlready(i)
  /\ \A c \in DOMAIN chunked : \E l \in DOMAIN levels : chunked[c] \subseteq levels[l].indices
  /\ ChunksFollowLevels
  /\ ChunkWithinCap

\* No chunk exists at first.
LEMMA ChunkInvInit == Init => ChunkInv
BY LevelInvInit DEF Init, ChunkInv, ChunksFollowLevels, ChunkWithinCap

\* What one iteration of applyConcurrencyCap appends.
LEMMA ChunkLevelEffect ==
  ASSUME ChunkInv, ChunkLevel
  PROVE  \E S \in SUBSET levels[current].indices :
           /\ chunked' = Append(chunked, S)
           /\ cap > 0 => Cardinality(S) <= cap
           /\ \A i \in S : start < Rank(levels[current].indices, i)
           /\ \/ current' = current + 1 /\ start' = 0
              \/ /\ current' = current /\ start' = start + cap
                 /\ cap > 0 /\ cap < Cardinality(levels[current].indices)
                 /\ \A i \in S : Rank(levels[current].indices, i) <= start + cap
<1> DEFINE L == levels[current].indices
<1>1. current \in DOMAIN levels /\ levels \in Seq(Level) /\ start \in Nat /\ cap \in Nat
  BY DEF ChunkInv, LevelInv, TypeOK, ChunkLevel
<1>2. L \subseteq Int /\ IsFiniteSet(L) /\ Cardinality(L) \in Nat
  <2>1. levels[current] \in Level
    BY <1>1
  <2>2. L \subseteq Index
    BY <2>1 DEF Level
  <2>3. IsFiniteSet(Index) /\ Index \subseteq Int
    BY FS_Interval, PlanAssumption DEF Index
  <2>4. QED
    BY <2>2, <2>3, FS_Subset, FS_CardinalityType
<1>3. CASE WholeLevel
  <2>1. start = 0
    BY <1>1, <1>2, <1>3 DEF ChunkInv, WholeLevel
  <2>2. \A i \in L : start < Rank(L, i)
    <3> HIDE DEF L
    <3> TAKE i \in L
    <3>1. Rank(L, i) \in 1..Cardinality(L)
      BY <1>2, RankGrows
    <3>2. QED
      BY <1>2, <2>1, <3>1
  <2>3. chunked' = Append(chunked, L) /\ current' = current + 1 /\ start' = 0
    BY <1>3, <2>1 DEF WholeLevel
  <2>4. cap > 0 => Cardinality(L) <= cap
    BY <1>3, <1>1 DEF WholeLevel
  <2>5. QED
    BY <2>2, <2>3, <2>4
<1>4. CASE SliceLevel
  <2>1. Cardinality(Slice(L, start)) <= cap
    <3> HIDE DEF L
    <3>1. QED
      BY <1>1, <1>2, SliceWidth
  <2>2. \A i \in Slice(L, start) : start < Rank(L, i) /\ Rank(L, i) <= start + cap
    BY DEF Slice
  <2>3. /\ chunked' = Append(chunked, Slice(L, start))
        /\ cap > 0 /\ cap < Cardinality(L)
        /\ \/ current' = current + 1 /\ start' = 0
           \/ current' = current /\ start' = start + cap
    BY <1>1, <1>2, <1>4 DEF SliceLevel
  <2>4. QED
    BY <2>1, <2>2, <2>3, SliceSubset
<1>5. QED
  BY <1>3, <1>4 DEF ChunkLevel

\* Cutting a level keeps the chunks narrow and in the order of the levels.
LEMMA ChunkLevelKeeps ==
  ASSUME ChunkInv, ChunkLevel
  PROVE  ChunkInv'
<1> DEFINE L == levels[current].indices
<1>1. PICK S \in SUBSET L :
           /\ chunked' = Append(chunked, S)
           /\ cap > 0 => Cardinality(S) <= cap
           /\ \A i \in S : start < Rank(L, i)
           /\ \/ current' = current + 1 /\ start' = 0
              \/ /\ current' = current /\ start' = start + cap
                 /\ cap > 0 /\ cap < Cardinality(L)
                 /\ \A i \in S : Rank(L, i) <= start + cap
  BY ChunkLevelEffect, Zenon
<1>2. /\ current \in DOMAIN levels /\ start \in Nat /\ cap \in Nat /\ levels \in Seq(Level)
      /\ chunked \in Seq(SUBSET Index) /\ placed = N
      /\ UNCHANGED <<entries, cap, placed, levels>>
  BY DEF ChunkInv, LevelInv, TypeOK, ChunkLevel
<1>3. LevelInv'
  BY LevelInvNext DEF ChunkInv, Next
<1>4. L \subseteq Int /\ IsFiniteSet(L) /\ S \subseteq L /\ current \in Nat
  <2>1. levels[current] \in Level
    BY <1>2
  <2>2. L \subseteq Index
    BY <2>1 DEF Level
  <2>3. IsFiniteSet(Index) /\ Index \subseteq Int
    BY FS_Interval, PlanAssumption DEF Index
  <2>4. S \subseteq L
    OBVIOUS
  <2>5. IsFiniteSet(L) /\ L \subseteq Int
    BY <2>2, <2>3, FS_Subset
  <2>6. current \in Nat
    BY <1>2
  <2>7. QED
    BY <2>4, <2>5, <2>6
<1>5. DOMAIN chunked' = 1..(Len(chunked) + 1) /\ Len(chunked) \in Nat
      /\ DOMAIN chunked = 1..Len(chunked)
  BY <1>1, <1>2
<1>6. \A c \in DOMAIN chunked' :
        \/ c \in DOMAIN chunked /\ chunked'[c] = chunked[c]
        \/ c = Len(chunked) + 1 /\ chunked'[c] = S
  BY <1>1, <1>2, <1>5
<1>7. ASSUME start' > 0
      PROVE  current' \in DOMAIN levels' /\ cap' > 0 /\ cap' < Cardinality(levels'[current'].indices)
  BY <1>1, <1>2, <1>7
<1>8. ASSUME NEW c \in DOMAIN chunked', NEW i \in chunked'[c] PROVE CutAlready(i)'
  <2> SUFFICES \E l \in DOMAIN levels :
                 /\ i \in levels[l].indices
                 /\ l < current' \/ (l = current' /\ Rank(levels[l].indices, i) <= start')
    BY <1>2 DEF CutAlready, Rank
  <2>1. CASE i \in S
    BY <1>1, <1>2, <1>4, <2>1
  <2>2. CASE c \in DOMAIN chunked /\ i \in chunked[c]
    <3>1. PICK l \in DOMAIN levels :
            /\ i \in levels[l].indices
            /\ l < current \/ (l = current /\ Rank(levels[l].indices, i) <= start)
      BY <2>2 DEF ChunkInv, CutAlready
    <3>2. Len(levels) \in Nat /\ l \in Nat
      BY <1>2
    <3>3. CASE l < current
      BY <1>1, <1>4, <3>1, <3>2, <3>3
    <3>4. CASE l = current /\ Rank(L, i) <= start
      <4>1. Rank(L, i) \in 1..Cardinality(L) /\ Cardinality(L) \in Nat
        BY <1>4, <3>1, <3>4, RankGrows, FS_CardinalityType
      <4>2. Rank(L, i) \in Nat
        BY <4>1
      <4>3. CASE current' = current + 1
        BY <1>2, <1>4, <3>1, <3>4, <4>3
      <4>4. CASE current' = current /\ start' = start + cap
        <5>1. Rank(L, i) <= start'
          BY <1>2, <3>4, <4>2, <4>4
        <5>2. QED
          BY <3>1, <3>4, <4>4, <5>1
      <4>5. QED
        BY <1>1, <4>3, <4>4
    <3>5. QED
      BY <3>1, <3>3, <3>4
  <2>3. QED
    BY <1>6, <2>1, <2>2
<1>9. \A c \in DOMAIN chunked' : \E l \in DOMAIN levels : chunked'[c] \subseteq levels[l].indices
  BY <1>2, <1>4, <1>6 DEF ChunkInv
<1>10. ChunksFollowLevels'
  <2> SUFFICES ASSUME NEW c \in DOMAIN chunked', NEW d \in DOMAIN chunked', c < d,
                      NEW i \in chunked'[c], NEW j \in chunked'[d],
                      NEW l \in DOMAIN levels, NEW m \in DOMAIN levels,
                      i \in levels[l].indices, j \in levels[m].indices
               PROVE  l < m \/ (l = m /\ i < j)
    BY <1>2 DEF ChunksFollowLevels
  <2>1. c \in DOMAIN chunked /\ chunked'[c] = chunked[c]
    BY <1>5, <1>6
  <2>2. CASE d \in DOMAIN chunked /\ chunked'[d] = chunked[d]
    BY <2>1, <2>2 DEF ChunkInv, ChunksFollowLevels
  <2>3. CASE chunked'[d] = S
    <3>1. j \in L /\ i \in chunked[c]
      BY <1>4, <2>1, <2>3
    <3>2. \A n, k \in DOMAIN levels : n # k => levels[n].indices \cap levels[k].indices = {}
      BY DEF ChunkInv, LevelInv, PlacedExactlyOnce
    <3>3. m = current
      BY <1>2, <3>1, <3>2
    <3>4. PICK n \in DOMAIN levels :
            /\ i \in levels[n].indices
            /\ n < current \/ (n = current /\ Rank(levels[n].indices, i) <= start)
      BY <2>1, <3>1 DEF ChunkInv, CutAlready
    <3>5. n = l
      BY <3>2, <3>4
    <3>6. CASE l = current /\ Rank(L, i) <= start
      <4>1. i \in L
        BY <3>6
      <4>2. Rank(L, i) \in 1..Cardinality(L) /\ Rank(L, j) \in 1..Cardinality(L)
            /\ Cardinality(L) \in Nat /\ i \in Int /\ j \in Int
        BY <1>4, <3>1, <4>1, RankGrows, FS_CardinalityType
      <4>3. start < Rank(L, j)
        BY <1>1, <2>3
      <4>4. ~ (Rank(L, j) <= Rank(L, i))
        BY <1>2, <3>6, <4>2, <4>3
      <4>5. j < i => Rank(L, j) < Rank(L, i)
        BY <1>4, <3>1, <4>1, RankGrows
      <4>6. i # j /\ ~ (j < i)
        BY <4>2, <4>4, <4>5
      <4>7. QED
        BY <3>3, <3>6, <4>2, <4>6
    <3>7. QED
      BY <3>3, <3>4, <3>5, <3>6
  <2>4. QED
    BY <1>6, <2>2, <2>3
<1>11. ChunkWithinCap'
  BY <1>1, <1>2, <1>6 DEF ChunkInv, ChunkWithinCap
<1>12. QED
  BY <1>2, <1>3, <1>7, <1>8, <1>9, <1>10, <1>11 DEF ChunkInv

\* Every step keeps the chunks narrow and ordered.
LEMMA ChunkInvNext == ChunkInv /\ [Next]_planVars => ChunkInv'
<1> SUFFICES ASSUME ChunkInv, [Next]_planVars PROVE ChunkInv'
  OBVIOUS
<1>1. CASE AssignEntry
  <2>1. placed < N /\ placed \in Nat /\ N \in Nat /\ current \in Nat /\ current >= 1 /\ start \in Nat
    BY <1>1, PlanAssumption DEF AssignEntry, ChunkInv, LevelInv, TypeOK
  <2>2. chunked = <<>> /\ current = 1 /\ start = 0
    BY <2>1 DEF ChunkInv
  <2>3. chunked' = <<>> /\ current' = 1 /\ start' = 0
    BY <1>1, <2>2 DEF AssignEntry
  <2>4. LevelInv'
    BY LevelInvNext DEF ChunkInv
  <2>5. ~ (current' > 1) /\ ~ (start' > 0) /\ DOMAIN chunked' = {}
    BY <2>3
  <2>6. ChunksFollowLevels' /\ ChunkWithinCap'
    BY <2>5 DEF ChunksFollowLevels, ChunkWithinCap
  <2>7. /\ (\A c \in DOMAIN chunked : \A i \in chunked[c] : CutAlready(i))'
        /\ (\A c \in DOMAIN chunked : \E l \in DOMAIN levels : chunked[c] \subseteq levels[l].indices)'
    BY <2>5 DEF CutAlready
  <2>8. (chunked # <<>> \/ current > 1 \/ start > 0 => placed = N)'
    BY <2>3, <2>5
  <2>9. (start > 0 => /\ current \in DOMAIN levels
                      /\ cap > 0 /\ cap < Cardinality(levels[current].indices))'
    BY <2>5
  <2>10. QED
    BY <2>4, <2>6, <2>7, <2>8, <2>9 DEF ChunkInv
<1>2. CASE ChunkLevel
  BY <1>2, ChunkLevelKeeps
<1>3. CASE UNCHANGED planVars
  <2>1. LevelInv'
    BY LevelInvNext DEF ChunkInv
  <2>2. UNCHANGED <<cap, placed, levels, current, start, chunked>>
    BY <1>3 DEF planVars
  <2>3. \A i : CutAlready(i)' <=> CutAlready(i)
    BY <2>2 DEF CutAlready, Rank
  <2>4. ChunksFollowLevels' /\ ChunkWithinCap'
    BY <2>2 DEF ChunkInv, ChunksFollowLevels, ChunkWithinCap
  <2>5. QED
    BY <2>1, <2>2, <2>3, <2>4 DEF ChunkInv
<1>4. QED
  BY <1>1, <1>2, <1>3 DEF Next

\* The chunks are narrow and ordered in every state.
LEMMA ChunkInvHolds == Spec => []ChunkInv
BY ChunkInvInit, ChunkInvNext, PTL DEF Spec

\* For every batch and every cap, no chunk is wider than the cap.
THEOREM ChunksAreNarrow == Spec => []ChunkWithinCap
BY ChunkInvHolds, PTL DEF ChunkInv

\* For every batch and every cap, of two conflicting calls the earlier one is in
\* the strictly earlier chunk, and the calls of a chunk may run concurrently.
THEOREM ChunksAreOrdered == Spec => []ChunksKeepConflictOrder
<1>1. ChunkInv => ChunksKeepConflictOrder
  <2> SUFFICES ASSUME ChunkInv, NEW c \in DOMAIN chunked, NEW d \in DOMAIN chunked,
                      NEW i \in chunked[c], NEW j \in chunked[d],
                      i < j, resolutionsConflict(entries[i], entries[j])
               PROVE  c < d
    BY DEF ChunksKeepConflictOrder
  <2>1. PICK l \in DOMAIN levels : chunked[c] \subseteq levels[l].indices
    BY DEF ChunkInv
  <2>2. PICK m \in DOMAIN levels : chunked[d] \subseteq levels[m].indices
    BY DEF ChunkInv
  <2>3. l < m
    BY <2>1, <2>2 DEF ChunkInv, LevelInv, ConflictAdvancesLevel
  <2>4. l \in Nat /\ m \in Nat /\ c \in Nat /\ d \in Nat
    BY DEF ChunkInv, LevelInv, TypeOK
  <2>5. c # d
    <3>1. ASSUME c = d PROVE FALSE
      <4>1. j \in levels[l].indices
        BY <2>1, <3>1
      <4>2. l < l
        BY <2>1, <4>1 DEF ChunkInv, LevelInv, ConflictAdvancesLevel
      <4>3. QED
        BY <2>4, <4>2
    <3>2. QED
      BY <3>1
  <2>6. ~ (d < c)
    BY <2>1, <2>2, <2>3, <2>4 DEF ChunkInv, ChunksFollowLevels
  <2>7. QED
    BY <2>4, <2>5, <2>6
<1>2. QED
  BY <1>1, ChunkInvHolds, PTL

-------------------------------------------------------------------------------
(* The plan is the schedule that the depths of the calls define. *)

LevelsAreDepths ==
  \A l \in DOMAIN levels : \A i \in levels[l].indices : Depth(entries, Index, i) = l

\* The batch is a finite set of numbers.
LEMMA IndexIsFinite == Index \in SUBSET Nat /\ IsFiniteSet(Index)
BY PlanAssumption, FS_Interval DEF Index

\* A call is placed at its depth: its level is behind the levels of all earlier
\* calls it conflicts with, and just behind one of them.
LEMMA AssignEntryKeepsDepths ==
  ASSUME LevelInv, LevelsAreDepths, AssignEntry
  PROVE  LevelsAreDepths'
<1>1. PICK t \in 1..(Len(levels) + 1) :
           /\ DOMAIN levels' = DOMAIN levels \cup {t}
           /\ levels'[t].indices = (IF t > Len(levels) THEN {} ELSE levels[t].indices)
                                   \cup {placed + 1}
           /\ \A l \in DOMAIN levels : l # t => levels'[l] = levels[l]
           /\ t \notin DOMAIN levels <=> t > Len(levels)
  BY AssignEntryIndices, Zenon
<1> DEFINE e == placed + 1
           depth(i) == Depth(entries, Index, i)
<1>2. /\ e \in Index /\ entries' = entries /\ placed \in Nat /\ levels \in Seq(Level)
      /\ PlacedExactlyOnce /\ LevelInv'
  <2>1. LevelInv'
    BY LevelInvNext DEF Next
  <2>2. QED
    BY <2>1, PlanAssumption DEF LevelInv, TypeOK, AssignEntry, Index
<1>3. Len(levels) \in Nat /\ DOMAIN levels = 1..Len(levels) /\ t \in Nat /\ t >= 1
  BY <1>2
<1>4. \A i \in 1..placed : i \in Index /\ \E m \in DOMAIN levels : i \in levels[m].indices /\ depth(i) = m
  <2> TAKE i \in 1..placed
  <2>1. PICK m \in DOMAIN levels : i \in levels[m].indices
    BY <1>2 DEF PlacedExactlyOnce
  <2>2. depth(i) = m
    BY <2>1 DEF LevelsAreDepths
  <2>3. i \in Index
    BY <1>2, PlanAssumption DEF Index
  <2>4. QED
    BY <2>1, <2>2, <2>3
<1>5. \A l, m \in DOMAIN levels' : \A i \in levels'[l].indices, j \in levels'[m].indices :
        i < j /\ resolutionsConflict(entries[i], entries[j]) => l < m
  BY <1>2 DEF LevelInv, ConflictAdvancesLevel, resolutionsConflict, claimsConflict
<1>6. \A m \in DOMAIN levels' : m > 1 =>
        \A j \in levels'[m].indices : \E i \in levels'[m - 1].indices :
          i < j /\ resolutionsConflict(entries[i], entries[j])
  BY <1>2 DEF LevelInv, NoNeedlessBarrier, resolutionsConflict, claimsConflict
<1>7. t \in DOMAIN levels' /\ e \in levels'[t].indices
  BY <1>1
<1>8. depth(e) \in Nat \ {0}
  BY <1>2, IndexIsFinite, DepthIsPositive
<1>9. depth(e) <= t
  <2>1. CASE depth(e) = 1
    BY <1>3, <2>1
  <2>2. CASE \E j \in Index : /\ j < e /\ resolutionsConflict(entries[j], entries[e])
                              /\ depth(e) <= depth(j) + 1
    <3>1. PICK j \in Index : /\ j < e /\ resolutionsConflict(entries[j], entries[e])
                             /\ depth(e) <= depth(j) + 1
      BY <2>2
    <3>2. j \in 1..placed
      BY <1>2, <3>1 DEF Index
    <3>3. PICK m \in DOMAIN levels : j \in levels[m].indices /\ depth(j) = m
      BY <1>4, <3>2
    <3>4. m \in DOMAIN levels' /\ j \in levels'[m].indices
      BY <1>1, <3>3
    <3> HIDE DEF e, depth
    <3>5. m < t
      BY <1>5, <1>7, <3>1, <3>4
    <3>6. m \in Nat
      BY <1>3, <3>3
    <3>7. QED
      BY <1>3, <1>8, <3>1, <3>3, <3>5, <3>6
  <2>3. QED
    BY <1>2, <2>1, <2>2, IndexIsFinite, DeepBehindConflict
<1>10. t <= depth(e)
  <2>1. CASE t = 1
    BY <1>8, <2>1
  <2>2. CASE t > 1
    <3>1. PICK i \in levels'[t - 1].indices : i < e /\ resolutionsConflict(entries[i], entries[e])
      BY <1>6, <1>7, <2>2
    <3>2. t - 1 \in DOMAIN levels /\ t - 1 # t
      BY <1>3, <2>2
    <3>3. i \in levels[t - 1].indices
      BY <1>1, <3>1, <3>2
    <3>4. depth(i) = t - 1
      BY <3>2, <3>3 DEF LevelsAreDepths
    <3>5. i \in Index
      <4>1. levels[t - 1] \in Level
        BY <1>2, <3>2
      <4>2. QED
        BY <3>3, <4>1 DEF Level
    <3>6. depth(i) < depth(e)
      BY <1>2, <3>1, <3>5, IndexIsFinite, ConflictDeepens
    <3> HIDE DEF depth
    <3>7. QED
      BY <1>3, <1>8, <3>4, <3>6
  <2>3. QED
    BY <1>3, <2>1, <2>2
<1>11. depth(e) = t
  <2> HIDE DEF depth
  <2>1. QED
    BY <1>3, <1>8, <1>9, <1>10
<1>12. \A l \in DOMAIN levels' : \A i \in levels'[l].indices : depth(i) = l
  <2> SUFFICES ASSUME NEW l \in DOMAIN levels', NEW i \in levels'[l].indices PROVE depth(i) = l
    OBVIOUS
  <2>1. CASE l = t /\ i = e
    BY <1>11, <2>1
  <2>2. CASE l \in DOMAIN levels /\ i \in levels[l].indices
    BY <2>2 DEF LevelsAreDepths
  <2>3. QED
    BY <1>1, <2>1, <2>2
<1>13. QED
  BY <1>2, <1>12 DEF LevelsAreDepths

\* The part of a level that a call is cut into; a cap of 0 does not cut.
Part(l, i) == IF cap = 0 THEN 0 ELSE (Rank(levels[l].indices, i) - 1) \div cap

\* Chunks are the parts of the levels, in the order of levels and parts, and every
\* call that is cut already is in one.
ChunksAreParts ==
  /\ \E q \in Nat : start = q * cap
  /\ start > 0 => start < Cardinality(levels[current].indices)
  /\ \A i \in Index : CutAlready(i) => \E c \in DOMAIN chunked : i \in chunked[c]
  /\ \A c \in DOMAIN chunked : chunked[c] # {}
  /\ \A c \in DOMAIN chunked : \E l \in DOMAIN levels, k \in Nat :
       \A i \in chunked[c] : i \in levels[l].indices /\ Part(l, i) = k
  /\ \A c, d \in DOMAIN chunked : c < d =>
       \A i \in chunked[c], j \in chunked[d] : \A l, m \in DOMAIN levels :
         i \in levels[l].indices /\ j \in levels[m].indices =>
           l < m \/ (l = m /\ Part(l, i) < Part(m, j))

PlanInv == ChunkInv /\ LevelsAreDepths /\ ChunksAreParts

\* Nothing is placed or cut at first.
LEMMA PlanInvInit == Init => PlanInv
<1> SUFFICES ASSUME Init PROVE PlanInv
  OBVIOUS
<1>1. ChunkInv
  BY ChunkInvInit
<1>2. levels = <<>> /\ chunked = <<>> /\ start = 0 /\ cap \in Nat
  BY PlanAssumption DEF Init
<1>3. start = 0 * cap
  BY <1>2
<1>4. QED
  BY <1>1, <1>2, <1>3 DEF PlanInv, LevelsAreDepths, ChunksAreParts, CutAlready

\* A window of cap positions is a part.
LEMMA WindowIsPart ==
  ASSUME NEW w \in Nat \ {0}, NEW q \in Nat, NEW r \in Nat \ {0}
  PROVE  q * w < r /\ r <= q * w + w <=> (r - 1) \div w = q
OBVIOUS

\* What is before the window is in a smaller part.
LEMMA BeforeWindow ==
  ASSUME NEW w \in Nat \ {0}, NEW q \in Nat, NEW r \in Nat \ {0}, r <= q * w
  PROVE  (r - 1) \div w < q
OBVIOUS

\* Every position of a set is taken by a member.
LEMMA RankIsReached ==
  ASSUME NEW S, S \subseteq Int, IsFiniteSet(S), NEW r \in 1..Cardinality(S)
  PROVE  \E i \in S : Rank(S, i) = r
<1> DEFINE positions == 1..Cardinality(S)
           rank == [i \in S |-> Rank(S, i)]
<1>1. rank \in Injection(S, positions)
  <2>1. \A i \in S : Rank(S, i) \in positions
    BY RankGrows
  <2>2. \A i, j \in S : rank[i] = rank[j] => i = j
    <3> SUFFICES ASSUME NEW i \in S, NEW j \in S, Rank(S, i) = Rank(S, j) PROVE i = j
      OBVIOUS
    <3>1. (i < j => Rank(S, i) < Rank(S, j)) /\ (j < i => Rank(S, j) < Rank(S, i))
      BY RankGrows
    <3>2. Rank(S, i) \in Int /\ i \in Int /\ j \in Int
      BY <2>1
    <3>3. QED
      BY <3>1, <3>2
  <2>3. rank \in [S -> positions]
    BY <2>1
  <2> HIDE DEF rank, positions
  <2>4. QED
    BY <2>2, <2>3 DEF Injection, IsInjective
<1>2. IsFiniteSet(positions) /\ Cardinality(positions) = Cardinality(S)
  BY FS_Interval, FS_CardinalityType
<1>3. rank \in Surjection(S, positions)
  <2> HIDE DEF rank, positions
  <2>1. QED
    BY <1>1, <1>2, FS_Injection
<1>4. \E i \in S : rank[i] = r
  <2> HIDE DEF rank
  <2>1. QED
    BY <1>3 DEF Surjection
<1>5. QED
  BY <1>4

\* One iteration of applyConcurrencyCap appends the next part of the level, and
\* all that counts as cut after it was cut before or is in this part.
LEMMA NextPart ==
  ASSUME PlanInv, ChunkLevel
  PROVE  \E S \in SUBSET levels[current].indices, q \in Nat :
           /\ start = q * cap
           /\ chunked' = Append(chunked, S)
           /\ S # {}
           /\ \A i \in S : Part(current, i) = q
           /\ \A i \in levels[current].indices :
                Rank(levels[current].indices, i) <= start \/ i \in S
                \/ (current' = current /\ start' < Rank(levels[current].indices, i))
           /\ \/ current' = current + 1 /\ start' = 0
              \/ /\ current' = current /\ start' = (q + 1) * cap
                 /\ start' < Cardinality(levels[current].indices)
<1> DEFINE L == levels[current].indices
<1>1. /\ current \in DOMAIN levels /\ levels \in Seq(Level) /\ start \in Nat /\ cap \in Nat
      /\ PlacedExactlyOnce /\ (start > 0 => cap > 0 /\ cap < Cardinality(L))
      /\ (start > 0 => start < Cardinality(L))
  BY DEF PlanInv, ChunksAreParts, ChunkInv, LevelInv, TypeOK, ChunkLevel
<1>2. L \subseteq Int /\ IsFiniteSet(L) /\ Cardinality(L) \in Nat /\ L # {}
  <2>1. levels[current] \in Level
    BY <1>1
  <2>2. L \subseteq Index
    BY <2>1 DEF Level
  <2>3. QED
    BY <1>1, <2>2, IndexIsFinite, FS_Subset, FS_CardinalityType DEF PlacedExactlyOnce
<1>3. \A i \in L : Rank(L, i) \in Nat \ {0} /\ Rank(L, i) <= Cardinality(L)
  <2> HIDE DEF L
  <2> TAKE i \in L
  <2>1. Rank(L, i) \in 1..Cardinality(L)
    BY <1>2, RankGrows
  <2>2. QED
    BY <1>2, <2>1
<1>4. CASE WholeLevel
  <2>1. start = 0 /\ start = 0 * cap
    BY <1>1, <1>2, <1>4 DEF WholeLevel
  <2>2. \A i \in L : Part(current, i) = 0
    <3> TAKE i \in L
    <3>1. CASE cap = 0
      BY <3>1 DEF Part
    <3>2. CASE cap > 0 /\ Cardinality(L) <= cap
      <4>1. (Rank(L, i) - 1) \div cap = 0
        <5>1. 0 * cap < Rank(L, i) /\ Rank(L, i) <= 0 * cap + cap
          BY <1>1, <1>2, <1>3, <3>2
        <5> HIDE DEF L
        <5>2. Rank(L, i) \in Nat \ {0}
          BY <1>3
        <5>3. QED
          BY <1>1, <3>2, <5>1, <5>2, WindowIsPart
      <4>2. QED
        BY <3>2, <4>1 DEF Part
    <3>3. QED
      BY <1>1, <1>4, <3>1, <3>2 DEF WholeLevel
  <2>3. chunked' = Append(chunked, L) /\ current' = current + 1 /\ start' = 0
    BY <1>4, <2>1 DEF WholeLevel
  <2>4. QED
    BY <1>2, <2>1, <2>2, <2>3
<1>5. CASE SliceLevel
  <2> DEFINE S == Slice(L, start)
  <2>1. cap \in Nat \ {0} /\ cap < Cardinality(L) /\ start < Cardinality(L)
    BY <1>1, <1>2, <1>5 DEF SliceLevel
  <2>2. PICK q \in Nat : start = q * cap
    BY DEF PlanInv, ChunksAreParts
  <2>3. S \in SUBSET L /\ \A i \in L : i \in S <=> start < Rank(L, i) /\ Rank(L, i) <= start + cap
    BY DEF Slice
  <2>4. S # {}
    <3>1. start + 1 \in 1..Cardinality(L)
      BY <1>1, <1>2, <2>1
    <3> HIDE DEF L, S
    <3>2. PICK i \in L : Rank(L, i) = start + 1
      BY <1>2, <3>1, RankIsReached
    <3>3. QED
      BY <1>1, <2>1, <2>3, <3>2
  <2>5. \A i \in S : Part(current, i) = q
    <3> TAKE i \in S
    <3>1. i \in L /\ Rank(L, i) \in Nat \ {0}
      BY <1>3, <2>3
    <3>2. q * cap < Rank(L, i) /\ Rank(L, i) <= q * cap + cap
      BY <2>2, <2>3, <3>1
    <3>3. (Rank(L, i) - 1) \div cap = q
      <4> HIDE DEF L, S
      <4>1. QED
        BY <2>1, <3>1, <3>2, WindowIsPart
    <3>4. QED
      BY <2>1, <3>3 DEF Part
  <2>6. chunked' = Append(chunked, S)
    BY <1>5 DEF SliceLevel
  <2>7. CASE start + cap < Cardinality(L)
    <3>1. current' = current /\ start' = start + cap
      BY <1>5, <2>7 DEF SliceLevel
    <3>2. start' = (q + 1) * cap /\ start' < Cardinality(L)
      BY <2>1, <2>2, <2>7, <3>1
    <3>3. \A i \in L : Rank(L, i) <= start \/ i \in S \/ start' < Rank(L, i)
      BY <1>1, <1>3, <2>3, <3>1
    <3> HIDE DEF S
    <3>4. QED
      BY <2>2, <2>3, <2>4, <2>5, <2>6, <3>1, <3>2, <3>3
  <2>8. CASE ~ (start + cap < Cardinality(L))
    <3>1. current' = current + 1 /\ start' = 0
      BY <1>5, <2>8 DEF SliceLevel
    <3>2. \A i \in L : Rank(L, i) <= start \/ i \in S
      BY <1>1, <1>2, <1>3, <2>3, <2>8
    <3> HIDE DEF S
    <3>3. QED
      BY <2>2, <2>3, <2>4, <2>5, <2>6, <3>1, <3>2
  <2>9. QED
    BY <2>7, <2>8
<1>6. QED
  BY <1>4, <1>5 DEF ChunkLevel

\* Cutting a level keeps the chunks the parts of the levels.
LEMMA ChunkLevelKeepsParts ==
  ASSUME PlanInv, ChunkLevel
  PROVE  ChunksAreParts'
<1> DEFINE L == levels[current].indices
<1>1. PICK S \in SUBSET L, q \in Nat :
           /\ start = q * cap
           /\ chunked' = Append(chunked, S)
           /\ S # {}
           /\ \A i \in S : Part(current, i) = q
           /\ \A i \in L : Rank(L, i) <= start \/ i \in S
                           \/ (current' = current /\ start' < Rank(L, i))
           /\ \/ current' = current + 1 /\ start' = 0
              \/ current' = current /\ start' = (q + 1) * cap /\ start' < Cardinality(L)
  BY NextPart, Zenon
<1>2. /\ current \in DOMAIN levels /\ start \in Nat /\ cap \in Nat /\ levels \in Seq(Level)
      /\ chunked \in Seq(SUBSET Index) /\ current \in Nat
      /\ UNCHANGED <<entries, cap, placed, levels>>
      /\ \A c \in DOMAIN chunked : \A i \in chunked[c] : CutAlready(i)
      /\ \A n, k \in DOMAIN levels : n # k => levels[n].indices \cap levels[k].indices = {}
  BY DEF PlanInv, ChunkInv, LevelInv, PlacedExactlyOnce, TypeOK, ChunkLevel
<1>3. DOMAIN chunked' = 1..(Len(chunked) + 1) /\ Len(chunked) \in Nat
      /\ DOMAIN chunked = 1..Len(chunked)
  BY <1>1, <1>2
<1>4. \A c \in DOMAIN chunked' :
        \/ c \in DOMAIN chunked /\ chunked'[c] = chunked[c]
        \/ c = Len(chunked) + 1 /\ chunked'[c] = S
  BY <1>1, <1>2, <1>3
<1>5. \A c \in DOMAIN chunked : c \in DOMAIN chunked' /\ chunked'[c] = chunked[c]
  BY <1>1, <1>2, <1>3
<1>6. Len(chunked) + 1 \in DOMAIN chunked' /\ chunked'[Len(chunked) + 1] = S
  BY <1>1, <1>2, <1>3
<1>7. \A l, i : Part(l, i)' = Part(l, i)
  BY <1>2 DEF Part, Rank
<1>8. \A l \in DOMAIN levels : \A i \in levels[l].indices :
        Rank(levels[l].indices, i) \in Nat \ {0}
  <2> TAKE l \in DOMAIN levels
  <2> TAKE i \in levels[l].indices
  <2> DEFINE M == levels[l].indices
  <2>1. levels[l] \in Level
    BY <1>2
  <2>2. M \in SUBSET Index
    BY <2>1 DEF Level
  <2>3. i \in M
    OBVIOUS
  <2> HIDE DEF M
  <2>4. IsFiniteSet(M)
    BY <2>2, IndexIsFinite, FS_Subset
  <2>5. M \subseteq Int /\ Cardinality(M) \in Nat
    BY <2>2, <2>4, IndexIsFinite, FS_CardinalityType
  <2>6. Rank(M, i) \in 1..Cardinality(M)
    BY <2>3, <2>4, <2>5, RankGrows
  <2>7. Rank(M, i) \in Nat \ {0}
    BY <2>5, <2>6
  <2>8. QED
    BY <2>7 DEF M
<1>9. \E p \in Nat : start' = p * cap
  <2>1. 0 * cap = 0 /\ q + 1 \in Nat
    BY <1>2
  <2>2. QED
    BY <1>1, <2>1
<1>10. start' > 0 => start' < Cardinality(levels[current'].indices)
  BY <1>1
<1>11. ASSUME NEW i \in Index, CutAlready(i)'
       PROVE  \E c \in DOMAIN chunked' : i \in chunked'[c]
  <2>1. PICK l \in DOMAIN levels :
          /\ i \in levels[l].indices
          /\ l < current' \/ (l = current' /\ Rank(levels[l].indices, i) <= start')
    BY <1>2, <1>11 DEF CutAlready, Rank
  <2>2. l \in Nat
    BY <1>2
  <2>3. CASE l = current
    <3>1. i \in L
      BY <2>1, <2>3
    <3>2. Rank(L, i) <= start \/ i \in S
      <4>1. CASE current' = current + 1
        BY <1>1, <1>2, <3>1, <4>1
      <4>2. CASE current' = current /\ start' = (q + 1) * cap
        <5>1. Rank(L, i) <= start'
          BY <1>2, <2>1, <2>3, <4>2
        <5>2. start' \in Nat /\ Rank(L, i) \in Nat
          BY <1>2, <1>8, <3>1, <4>2
        <5>3. ~ (start' < Rank(L, i))
          BY <5>1, <5>2
        <5>4. QED
          BY <1>1, <3>1, <5>3
      <4>3. QED
        BY <1>1, <4>1, <4>2
    <3>3. CASE Rank(L, i) <= start
      <4>1. CutAlready(i)
        BY <1>2, <2>3, <3>1, <3>3 DEF CutAlready
      <4>2. QED
        BY <1>5, <4>1 DEF PlanInv, ChunksAreParts
    <3>4. QED
      BY <1>6, <3>2, <3>3
  <2>4. CASE l # current
    <3>1. l < current' \/ (l = current' /\ start' # 0)
      <4>1. Rank(levels[l].indices, i) \in Nat \ {0}
        BY <1>8, <2>1
      <4>2. QED
        BY <2>1, <4>1
    <3>2. (current' = current + 1 /\ start' = 0) \/ current' = current
      BY <1>1
    <3>3. current \in Nat
      BY <1>2
    <3>4. l < current
      BY <2>2, <2>4, <3>1, <3>2, <3>3
    <3>5. CutAlready(i)
      BY <2>1, <3>4 DEF CutAlready
    <3>6. QED
      BY <1>5, <3>5 DEF PlanInv, ChunksAreParts
  <2>5. QED
    BY <2>3, <2>4
<1>12. \A c \in DOMAIN chunked' : chunked'[c] # {}
  BY <1>1, <1>4 DEF PlanInv, ChunksAreParts
<1>13. \A c \in DOMAIN chunked' : \E l \in DOMAIN levels, k \in Nat :
         \A i \in chunked'[c] : i \in levels[l].indices /\ Part(l, i) = k
  <2> TAKE c \in DOMAIN chunked'
  <2>1. CASE c \in DOMAIN chunked /\ chunked'[c] = chunked[c]
    <3>1. \E l \in DOMAIN levels, k \in Nat :
            \A i \in chunked[c] : i \in levels[l].indices /\ Part(l, i) = k
      BY <2>1 DEF PlanInv, ChunksAreParts
    <3>2. QED
      BY <2>1, <3>1
  <2>2. CASE chunked'[c] = S
    <3>1. \A i \in chunked'[c] : i \in levels[current].indices /\ Part(current, i) = q
      BY <1>1, <2>2
    <3>2. QED
      BY <1>2, <3>1
  <2>3. QED
    BY <1>4, <2>1, <2>2
<1>14. ASSUME NEW c \in DOMAIN chunked', NEW d \in DOMAIN chunked', c < d,
              NEW i \in chunked'[c], NEW j \in chunked'[d],
              NEW l \in DOMAIN levels, NEW m \in DOMAIN levels,
              i \in levels[l].indices, j \in levels[m].indices
       PROVE  l < m \/ (l = m /\ Part(l, i) < Part(m, j))
  <2>1. c \in DOMAIN chunked /\ chunked'[c] = chunked[c]
    BY <1>3, <1>4, <1>14
  <2>2. CASE d \in DOMAIN chunked /\ chunked'[d] = chunked[d]
    BY <1>14, <2>1, <2>2 DEF PlanInv, ChunksAreParts
  <2>3. CASE chunked'[d] = S
    <3>1. j \in S /\ j \in L /\ i \in chunked[c]
      BY <2>1, <2>3
    <3>2. m = current /\ Part(m, j) = q
      BY <1>1, <1>2, <1>14, <3>1
    <3>3. PICK n \in DOMAIN levels :
            /\ i \in levels[n].indices
            /\ n < current \/ (n = current /\ Rank(levels[n].indices, i) <= start)
      BY <1>2, <2>1, <3>1 DEF CutAlready
    <3>4. n = l
      BY <1>2, <1>14, <3>3
    <3>5. CASE l = current /\ Rank(L, i) <= start
      <4>1. i \in L /\ Rank(L, i) \in Nat \ {0}
        BY <1>8, <1>14, <3>5
      <4>2. cap \in Nat \ {0}
        <5>1. start > 0
          BY <1>2, <3>5, <4>1
        <5>2. QED
          BY <1>2, <5>1 DEF PlanInv, ChunkInv
      <4>3. (Rank(L, i) - 1) \div cap < q
        <5> HIDE DEF L
        <5>1. QED
          BY <1>1, <3>5, <4>1, <4>2, BeforeWindow
      <4>4. Part(l, i) < q
        BY <3>5, <4>2, <4>3 DEF Part
      <4>5. QED
        BY <3>2, <3>5, <4>4
    <3>6. QED
      BY <3>2, <3>3, <3>4, <3>5
  <2>4. QED
    BY <1>4, <2>2, <2>3
<1>15. QED
  BY <1>2, <1>7, <1>9, <1>10, <1>11, <1>12, <1>13, <1>14 DEF ChunksAreParts

\* Every step keeps the plan on the way to the schedule.
LEMMA PlanInvNext == PlanInv /\ [Next]_planVars => PlanInv'
<1> SUFFICES ASSUME PlanInv, [Next]_planVars PROVE PlanInv'
  OBVIOUS
<1>1. ChunkInv'
  BY ChunkInvNext DEF PlanInv
<1>2. CASE AssignEntry
  <2>1. LevelsAreDepths'
    BY <1>2, AssignEntryKeepsDepths DEF PlanInv, ChunkInv
  <2>2. placed < N /\ placed \in Nat /\ N \in Nat /\ current \in Nat /\ current >= 1
        /\ start \in Nat /\ cap \in Nat
    BY <1>2, PlanAssumption DEF AssignEntry, PlanInv, ChunkInv, LevelInv, TypeOK
  <2>3. chunked = <<>> /\ current = 1 /\ start = 0
    BY <2>2 DEF PlanInv, ChunkInv
  <2>4. DOMAIN chunked' = {} /\ start' = 0 /\ current' = 1 /\ cap' = cap
    BY <1>2, <2>3 DEF AssignEntry
  <2>5. levels' \in Seq(Level) /\ (LevelInv)'
    BY <1>1 DEF ChunkInv, LevelInv, TypeOK
  <2>6. \A i : CutAlready(i)' => FALSE
    <3> SUFFICES ASSUME NEW i, NEW l \in DOMAIN levels', i \in levels'[l].indices,
                        l < 1 \/ (l = 1 /\ Rank(levels'[l].indices, i) <= 0)
                 PROVE  FALSE
      BY <2>4 DEF CutAlready, Rank
    <3>1. l \in Nat \ {0} /\ levels'[l] \in Level
      BY <2>5
    <3>2. levels'[l].indices \subseteq Int /\ IsFiniteSet(levels'[l].indices)
      BY <3>1, IndexIsFinite, FS_Subset DEF Level
    <3>3. Rank(levels'[l].indices, i) \in Nat \ {0}
      BY <3>2, RankGrows, FS_CardinalityType
    <3>4. QED
      BY <3>1, <3>3
  <2>7. start' = 0 * cap'
    BY <2>2, <2>4
  <2>8. ~ (start' > 0)
    BY <2>4
  <2>9. ChunksAreParts'
    BY <2>4, <2>6, <2>7, <2>8 DEF ChunksAreParts
  <2>10. QED
    BY <1>1, <2>1, <2>9 DEF PlanInv
<1>3. CASE ChunkLevel
  <2>1. ChunksAreParts'
    BY <1>3, ChunkLevelKeepsParts
  <2>2. LevelsAreDepths'
    BY <1>3 DEF PlanInv, LevelsAreDepths, ChunkLevel
  <2>3. QED
    BY <1>1, <2>1, <2>2 DEF PlanInv
<1>4. CASE UNCHANGED planVars
  <2>1. UNCHANGED <<entries, cap, placed, levels, current, start, chunked>>
    BY <1>4 DEF planVars
  <2>2. \A i : CutAlready(i)' <=> CutAlready(i)
    BY <2>1 DEF CutAlready, Rank
  <2>3. \A l, i : Part(l, i)' = Part(l, i)
    BY <2>1 DEF Part, Rank
  <2>4. LevelsAreDepths'
    BY <2>1 DEF PlanInv, LevelsAreDepths
  <2>5. ChunksAreParts'
    BY <2>1, <2>2, <2>3 DEF PlanInv, ChunksAreParts
  <2>6. QED
    BY <1>1, <2>4, <2>5 DEF PlanInv
<1>5. QED
  BY <1>2, <1>3, <1>4 DEF Next

\* The invariant of the plan holds in every state.
LEMMA PlanInvHolds == Spec => []PlanInv
BY PlanInvInit, PlanInvNext, PTL DEF Spec

\* In a finished plan every call is cut.
LEMMA AllCut ==
  ASSUME PlanInv, Planned, NEW i \in Index
  PROVE  \E c \in DOMAIN chunked : i \in chunked[c]
<1>1. PICK l \in DOMAIN levels : i \in levels[l].indices
  BY DEF PlanInv, ChunkInv, LevelInv, PlacedExactlyOnce, Planned, Index
<1>2. l < current
  <2>1. levels \in Seq(Level) /\ current \in 1..(Len(levels) + 1) /\ current > Len(levels)
    BY DEF PlanInv, ChunkInv, LevelInv, TypeOK, Planned
  <2>2. l \in 1..Len(levels) /\ Len(levels) \in Nat
    BY <1>1, <2>1
  <2>3. QED
    BY <2>1, <2>2
<1>3. CutAlready(i)
  BY <1>1, <1>2 DEF CutAlready
<1>4. QED
  BY <1>3 DEF PlanInv, ChunksAreParts

\* For every batch and every cap, the finished plan runs every call of the batch
\* in exactly one level, and no level is empty.
THEOREM PlanIsComplete == Spec => []PlanComplete
<1>1. PlanInv => PlanComplete
  <2> SUFFICES ASSUME PlanInv, Planned
               PROVE  /\ UNION {chunked[c] : c \in DOMAIN chunked} = Index
                      /\ \A c, d \in DOMAIN chunked : c # d => chunked[c] \cap chunked[d] = {}
                      /\ \A c \in DOMAIN chunked : chunked[c] # {}
    BY DEF PlanComplete
  <2>1. chunked \in Seq(SUBSET Index)
    BY DEF PlanInv, ChunkInv, LevelInv, TypeOK
  <2>2. UNION {chunked[c] : c \in DOMAIN chunked} = Index
    BY <2>1, AllCut
  <2>3. ASSUME NEW c \in DOMAIN chunked, NEW d \in DOMAIN chunked, c < d,
               NEW i \in chunked[c], i \in chunked[d]
        PROVE  FALSE
    <3>1. PICK l \in DOMAIN levels : i \in levels[l].indices
      BY DEF PlanInv, ChunkInv
    <3>2. l < l \/ (l = l /\ i < i)
      BY <2>3, <3>1 DEF PlanInv, ChunkInv, ChunksFollowLevels
    <3>3. l \in Nat /\ i \in Nat
      <4>1. levels \in Seq(Level)
        BY DEF PlanInv, ChunkInv, LevelInv, TypeOK
      <4>2. chunked[c] \subseteq Index
        BY <2>1
      <4>3. i \in Nat
        BY <4>2, IndexIsFinite
      <4>4. l \in Nat
        BY <4>1
      <4>5. QED
        BY <4>3, <4>4
    <3>4. QED
      BY <3>2, <3>3
  <2>4. \A c, d \in DOMAIN chunked : c # d => c < d \/ d < c
    BY <2>1
  <2>5. \A c \in DOMAIN chunked : chunked[c] # {}
    BY DEF PlanInv, ChunksAreParts
  <2>6. QED
    BY <2>2, <2>3, <2>4, <2>5
<1>2. QED
  BY <1>1, PlanInvHolds, PTL

\* For every batch and every cap, the loops compute the schedule that the depths of
\* the calls in the graph of the conflicts define: "never deeper than the barrier
\* schedule" (comment of assignDagDependencies), and no deeper than the graph.
THEOREM PlanIsSchedule == Spec => []PlanMatchesSchedule
<1>1. ASSUME PlanInv, Planned PROVE chunked = scheduleDagLevels(entries, Index, cap)
  <2> DEFINE n == Len(chunked)
             slot == [i \in Index |-> Slot(entries, Index, cap, i)]
  <2>1. /\ chunked \in Seq(SUBSET Index) /\ cap \in Nat /\ levels \in Seq(Level)
        /\ LevelsAreDepths
    BY <1>1 DEF PlanInv, ChunkInv, LevelInv, TypeOK
  <2>2. n \in Nat /\ chunked \in [1..n -> SUBSET Index] /\ DOMAIN chunked = 1..n
    BY <2>1
  <2>3. ASSUME NEW l \in DOMAIN levels, NEW i \in levels[l].indices
        PROVE  i \in Index /\ slot[i] = <<l, Part(l, i)>>
    <3>1. levels[l] \in Level
      BY <2>1
    <3>2. levels[l].indices \subseteq Index
      BY <3>1 DEF Level
    <3>3. Depth(entries, Index, i) = l
      BY <2>1 DEF LevelsAreDepths
    <3>4. {j \in Index : Depth(entries, Index, j) = Depth(entries, Index, i)} = levels[l].indices
      <4>1. ASSUME NEW j \in Index, Depth(entries, Index, j) = l PROVE j \in levels[l].indices
        <5>1. PICK m \in DOMAIN levels : j \in levels[m].indices
          BY <1>1 DEF PlanInv, ChunkInv, LevelInv, PlacedExactlyOnce, Planned, Index
        <5>2. m = l
          BY <2>1, <4>1, <5>1 DEF LevelsAreDepths
        <5>3. QED
          BY <5>1, <5>2
      <4>2. \A j \in levels[l].indices : j \in Index /\ Depth(entries, Index, j) = l
        BY <2>1, <3>2 DEF LevelsAreDepths
      <4>3. QED
        BY <3>3, <4>1, <4>2
    <3>5. Slot(entries, Index, cap, i) = <<l, Part(l, i)>>
      BY <3>3, <3>4 DEF Slot, Part
    <3>6. QED
      BY <3>2, <3>5
  <2>4. \A i \in Index : \E c \in 1..n : i \in chunked[c]
    BY <1>1, <2>2, AllCut
  <2>5. \A c \in 1..n : chunked[c] # {}
    BY <1>1, <2>2 DEF PlanInv, ChunksAreParts
  <2>6. \A c \in 1..n : \E l \in DOMAIN levels, k \in Nat :
          \A i \in chunked[c] : i \in levels[l].indices /\ Part(l, i) = k
    BY <1>1, <2>2 DEF PlanInv, ChunksAreParts
  <2>7. ASSUME NEW c \in 1..n, NEW i \in chunked[c]
        PROVE  \E l \in DOMAIN levels, k \in Nat :
                 i \in levels[l].indices /\ Part(l, i) = k /\ slot[i] = <<l, k>>
    <3>1. PICK l \in DOMAIN levels, k \in Nat :
            \A j \in chunked[c] : j \in levels[l].indices /\ Part(l, j) = k
      BY <2>6
    <3> HIDE DEF slot
    <3>2. QED
      BY <2>3, <3>1
  <2>8. ASSUME NEW c \in 1..n, NEW i \in chunked[c], NEW j \in chunked[c]
        PROVE  slot[i] = slot[j]
    <3>1. PICK l \in DOMAIN levels, k \in Nat :
            \A m \in chunked[c] : m \in levels[l].indices /\ Part(l, m) = k
      BY <2>6
    <3> HIDE DEF slot
    <3>2. QED
      BY <2>3, <3>1
  <2>9. ASSUME NEW c \in 1..n, NEW d \in 1..n, c < d, NEW i \in chunked[c], NEW j \in chunked[d]
        PROVE  Before(slot[i], slot[j])
    <3> HIDE DEF slot
    <3>1. PICK l \in DOMAIN levels : i \in levels[l].indices /\ slot[i] = <<l, Part(l, i)>>
      BY <2>7
    <3>2. PICK m \in DOMAIN levels : j \in levels[m].indices /\ slot[j] = <<m, Part(m, j)>>
      BY <2>7
    <3>3. l < m \/ (l = m /\ Part(l, i) < Part(m, j))
      BY <1>1, <2>2, <2>9, <3>1, <3>2 DEF PlanInv, ChunksAreParts
    <3>4. QED
      BY <3>1, <3>2, <3>3 DEF Before
  <2>10. \A i \in Index : slot[i][1] \in Int /\ slot[i][2] \in Int
    <3> TAKE i \in Index
    <3>1. PICK c \in 1..n : i \in chunked[c]
      BY <2>4
    <3> HIDE DEF slot
    <3>2. PICK l \in DOMAIN levels, k \in Nat : slot[i] = <<l, k>>
      BY <2>7, <3>1
    <3>3. l \in Nat
      BY <2>1
    <3>4. QED
      BY <3>2, <3>3
  <2>11. \A i \in Index : slot[i] = Slot(entries, Index, cap, i)
    OBVIOUS
  <2>12. \A c \in 1..n : chunked[c] \subseteq Index
    BY <2>2
  <2> HIDE DEF n, slot
  <2>13. /\ \A i \in Index : /\ Slot(entries, Index, cap, i)[1] \in Int
                            /\ Slot(entries, Index, cap, i)[2] \in Int
         /\ \A c \in 1..n : \A i, j \in chunked[c] :
              Slot(entries, Index, cap, i) = Slot(entries, Index, cap, j)
         /\ \A c, d \in 1..n : c < d => \A i \in chunked[c], j \in chunked[d] :
              Before(Slot(entries, Index, cap, i), Slot(entries, Index, cap, j))
    BY <2>8, <2>9, <2>10, <2>11, <2>12
  <2>14. scheduleDagLevels(entries, Index, cap) = chunked
    BY <2>1, <2>2, <2>4, <2>5, <2>13, IndexIsFinite, ScheduleIsUnique
  <2>15. QED
    BY <2>14
<1>2. PlanInv => PlanMatchesSchedule
  BY <1>1 DEF PlanMatchesSchedule
<1>3. QED
  BY <1>2, PlanInvHolds, PTL

===============================================================================
