------------------------------- MODULE DagPlan -------------------------------
(***************************************************************************)
(* The dag-v2 scheduler (packages/agent/src/tool-dag-scheduler.ts): from   *)
(* the resolved claims of a batch of N tool calls, in source order, to the *)
(* levels that the executor runs one after the other.                      *)
(*                                                                         *)
(* The functions are loops, and the module keeps them as loops: AssignEntry*)
(* is one iteration of assignDagLevels, ChunkLevel one iteration of        *)
(* applyConcurrencyCap.  Indices are pushed to a level in source order, so *)
(* the set of a level's indices determines the array of the code.          *)
(***************************************************************************)
EXTENDS DagSchedule

CONSTANTS
  N,             \* number of calls in the batch
  Resolutions,   \* resolutions a call of the batch may have
  Caps           \* values of maxConcurrency; 0 stands for no cap

ASSUME PlanAssumption ==
  /\ N \in Nat
  /\ Resolutions \subseteq Resolution
  /\ Caps \subseteq Nat

VARIABLES
  entries,       \* resolved claims of the batch
  cap,           \* concurrency cap of the run
  placed,        \* entries 1..placed have a level
  levels,        \* levels of assignDagLevels
  current,       \* level that applyConcurrencyCap is cutting
  start,         \* first position of the next slice of that level
  chunked        \* result of applyConcurrencyCap

planVars == <<entries, cap, placed, levels, current, start, chunked>>

Index == 1..N

Level == [indices : SUBSET Index, writeClaims : SUBSET Claim,
          readClaims : SUBSET Claim, hasExclusive : BOOLEAN]

EmptyLevel ==
  [indices |-> {}, writeClaims |-> {}, readClaims |-> {}, hasExclusive |-> FALSE]

-------------------------------------------------------------------------------
(* assignDagLevels *)

WritesOf(resolution) == {c \in resolution.claims : c.access = "write"}
ReadsOf(resolution)  == {c \in resolution.claims : c.access = "read"}

\* Seeded fault: a reader is not compared with the writes of the level.
ReadersNotCompared(resolution, level) ==
  \/ level.hasExclusive
  \/ resolution.exclusive
  \/ \E c \in WritesOf(resolution), d \in level.writeClaims \cup level.readClaims :
       claimsConflict(c, d)

\* The level keeps its claims by access, so that two reads are never compared.
resolutionConflictsLevel(resolution, level) ==
  \/ level.hasExclusive
  \/ resolution.exclusive
  \/ \E c \in WritesOf(resolution), d \in level.writeClaims \cup level.readClaims :
       claimsConflict(c, d)
  \/ \E c \in ReadsOf(resolution), d \in level.writeClaims : claimsConflict(c, d)

Join(level, i) ==
  IF entries[i].exclusive
  THEN [level EXCEPT !.indices = @ \cup {i}, !.hasExclusive = TRUE]
  ELSE [level EXCEPT !.indices = @ \cup {i},
                     !.writeClaims = @ \cup WritesOf(entries[i]),
                     !.readClaims = @ \cup ReadsOf(entries[i])]

\* Seeded fault: a call that conflicts with anything waits for everything.
BehindEverything(i, t) ==
  t = IF \E l \in DOMAIN levels : resolutionConflictsLevel(entries[i], levels[l])
      THEN Len(levels) + 1 ELSE 1

\* Seeded fault: a call joins the first level it does not conflict with.
FirstFreeLevel(i, t) ==
  /\ \A l \in 1..(t - 1) : resolutionConflictsLevel(entries[i], levels[l])
  /\ t \in DOMAIN levels => ~ resolutionConflictsLevel(entries[i], levels[t])

\* The level after the last one that the entry conflicts with.
IsTarget(i, t) ==
  /\ t > 1 => resolutionConflictsLevel(entries[i], levels[t - 1])
  /\ \A l \in t..Len(levels) : ~ resolutionConflictsLevel(entries[i], levels[l])

AssignEntry ==
  /\ placed < N
  /\ placed' = placed + 1
  /\ \E t \in 1..(Len(levels) + 1) :
       /\ IsTarget(placed + 1, t)
       /\ levels' = IF t > Len(levels)
                    THEN Append(levels, Join(EmptyLevel, placed + 1))
                    ELSE [levels EXCEPT ![t] = Join(@, placed + 1)]
  /\ UNCHANGED <<entries, cap, current, start, chunked>>

-------------------------------------------------------------------------------
(* applyConcurrencyCap *)

\* Seeded fault: the end of a slice is taken as included.
SliceTooWide(S, from) == {i \in S : from < Rank(S, i) /\ Rank(S, i) <= from + cap + 1}

Slice(S, from) == {i \in S : from < Rank(S, i) /\ Rank(S, i) <= from + cap}

\* Seeded fault: the level after the one copied is left out.
SkipALevel ==
  LET S == levels[current].indices IN
  /\ cap = 0 \/ Cardinality(S) <= cap
  /\ chunked' = Append(chunked, S)
  /\ current' = current + 2
  /\ UNCHANGED start

WholeLevel ==
  LET S == levels[current].indices IN
  /\ cap = 0 \/ Cardinality(S) <= cap
  /\ chunked' = Append(chunked, S)
  /\ current' = current + 1
  /\ UNCHANGED start

\* Seeded fault: a slice is put before the chunks there are.
PrependSlice ==
  LET S == levels[current].indices IN
  /\ cap > 0 /\ Cardinality(S) > cap
  /\ chunked' = <<Slice(S, start)>> \o chunked
  /\ IF start + cap < Cardinality(S)
     THEN start' = start + cap /\ UNCHANGED current
     ELSE start' = 0 /\ current' = current + 1

\* Seeded fault: a last slice that is not full is forgotten.
ForgetLastSlice ==
  LET S == levels[current].indices IN
  /\ cap > 0 /\ Cardinality(S) > cap
  /\ chunked' = Append(chunked, Slice(S, start))
  /\ IF start + 2 * cap <= Cardinality(S)
     THEN start' = start + cap /\ UNCHANGED current
     ELSE start' = 0 /\ current' = current + 1

SliceLevel ==
  LET S == levels[current].indices IN
  /\ cap > 0 /\ Cardinality(S) > cap
  /\ chunked' = Append(chunked, Slice(S, start))
  /\ IF start + cap < Cardinality(S)
     THEN start' = start + cap /\ UNCHANGED current
     ELSE start' = 0 /\ current' = current + 1

ChunkLevel ==
  /\ placed = N
  /\ current <= Len(levels)
  /\ WholeLevel \/ SliceLevel
  /\ UNCHANGED <<entries, cap, placed, levels>>

-------------------------------------------------------------------------------

Init ==
  /\ entries \in [Index -> Resolutions]
  /\ cap \in Caps
  /\ placed = 0
  /\ levels = <<>>
  /\ current = 1
  /\ start = 0
  /\ chunked = <<>>

Next == AssignEntry \/ ChunkLevel

Spec == Init /\ [][Next]_planVars

Planned == placed = N /\ current > Len(levels)

-------------------------------------------------------------------------------
TypeOK ==
  /\ entries \in [Index -> Resolution]
  /\ cap \in Nat
  /\ placed \in 0..N
  /\ levels \in Seq(Level)
  /\ current \in 1..(Len(levels) + 1)
  /\ start \in Nat
  /\ chunked \in Seq(SUBSET Index)

\* "Every directed conflict edge advances at least one level" (comment of
\* assignDagLevels): of two conflicting calls the earlier one has a strictly
\* earlier level, whatever calls were placed between them.  Two calls of one
\* level therefore never conflict, although the code compares a call with the
\* claims the level has accumulated by access and not with the calls in it.
ConflictAdvancesLevel ==
  \A l, m \in DOMAIN levels : \A i \in levels[l].indices, j \in levels[m].indices :
    i < j /\ resolutionsConflict(entries[i], entries[j]) => l < m

\* No head-of-line blocking: a call is in a later level than the first only
\* behind an earlier call of the level just before that it conflicts with.
NoNeedlessBarrier ==
  \A m \in DOMAIN levels : m > 1 =>
    \A j \in levels[m].indices : \E i \in levels[m - 1].indices :
      i < j /\ resolutionsConflict(entries[i], entries[j])

\* Every entry handled so far is in exactly one level, and no level is empty.
PlacedExactlyOnce ==
  /\ \A l \in DOMAIN levels : levels[l].indices # {}
  /\ \A l, m \in DOMAIN levels : l # m => levels[l].indices \cap levels[m].indices = {}
  /\ UNION {levels[l].indices : l \in DOMAIN levels} = 1..placed

\* A chunk is never wider than the cap.
ChunkWithinCap ==
  cap > 0 => \A c \in DOMAIN chunked : Cardinality(chunked[c]) <= cap

\* Cutting the levels keeps the source order of conflicting calls.
ChunksKeepConflictOrder ==
  \A c, d \in DOMAIN chunked : \A i \in chunked[c], j \in chunked[d] :
    i < j /\ resolutionsConflict(entries[i], entries[j]) => c < d

\* The finished plan runs every call of the batch exactly once.
PlanComplete ==
  Planned =>
    /\ UNION {chunked[c] : c \in DOMAIN chunked} = Index
    /\ \A c, d \in DOMAIN chunked : c # d => chunked[c] \cap chunked[d] = {}
    /\ \A c \in DOMAIN chunked : chunked[c] # {}

\* "The graph is never deeper than the barrier schedule" (comment of
\* assignDagDependencies), and the schedule is no deeper than the graph: the
\* loops compute the levels that DagSchedule defines by the depth of a call in
\* the graph of the conflicts.
PlanMatchesSchedule ==
  Planned => chunked = scheduleDagLevels(entries, Index, cap)

===============================================================================
