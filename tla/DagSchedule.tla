----------------------------- MODULE DagSchedule -----------------------------
(***************************************************************************)
(* What scheduleDagLevels (packages/agent/src/tool-dag-scheduler.ts)       *)
(* promises, as a function of the claims: the level of a call is its depth *)
(* in the graph of the conflicts, and a level wider than the cap is cut    *)
(* into slices in source order.                                            *)
(*                                                                         *)
(* DagPlan checks that the loops of the code compute this function;        *)
(* ToolBatch uses it where the executor calls the scheduler.               *)
(***************************************************************************)
EXTENDS ResourceClaims, Integers, Sequences, FiniteSets, FiniteSetsExt

\* The sets of calls, each in conflict with the one before it, that end in i.  The code
\* builds no chains: the loop that finds a call's level finds the size of the longest.
Chains(claims, S, i) ==
  {C \in SUBSET {j \in S : j <= i} :
     /\ i \in C
     /\ \A j, k \in C : j < k /\ (\A m \in C : m <= j \/ k <= m) =>
          resolutionsConflict(claims[j], claims[k])}

Depth(claims, S, i) == Max({Cardinality(C) : C \in Chains(claims, S, i)})

Rank(S, i) == Cardinality({j \in S : j <= i})

\* The level of a call and the slice of that level; a cap of 0 stands for no cap.
Slot(claims, S, limit, i) ==
  LET peers == {j \in S : Depth(claims, S, j) = Depth(claims, S, i)}
  IN  <<Depth(claims, S, i), IF limit = 0 THEN 0 ELSE (Rank(peers, i) - 1) \div limit>>

NotAfter(s, t) == s[1] < t[1] \/ (s[1] = t[1] /\ s[2] <= t[2])

\* The slots that are taken, in order, each with its calls.
scheduleDagLevels(claims, S, limit) ==
  LET slot  == [i \in S |-> Slot(claims, S, limit, i)]
      taken == {slot[i] : i \in S}
      position == [i \in S |-> Cardinality({s \in taken : NotAfter(s, slot[i])})]
  IN  [p \in 1..Cardinality(taken) |-> {i \in S : position[i] = p}]

===============================================================================
