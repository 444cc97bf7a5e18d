-------------------------- MODULE DagScheduleProofs --------------------------
(***************************************************************************)
(* What the executor may rely on in a schedule of scheduleDagLevels, for   *)
(* every set of calls, all claims and every cap: each call is in exactly   *)
(* one level, and the calls of one level do not conflict.  And what makes  *)
(* a sequence of sets of calls the schedule.                               *)
(***************************************************************************)
EXTENDS DagSchedule, FiniteSetTheorems, TLAPS

-------------------------------------------------------------------------------
(* The depth of a call is the length of a longest chain that ends in it. *)

\* A finite set of naturals that is not empty has a maximum.  Among the sets of
\* the elements above t, one for each t, a smallest one is empty.
LEMMA MaxIsGreatest ==
  ASSUME NEW T \in SUBSET Nat, IsFiniteSet(T), T # {}
  PROVE  Max(T) \in T /\ \A t \in T : t <= Max(T)
<1> DEFINE Above(t) == {s \in T : s > t}
           A == {Above(t) : t \in T}
<1>1. A \subseteq FiniteSubsetsOf(T)
  <2> SUFFICES ASSUME NEW t \in T PROVE Above(t) \in FiniteSubsetsOf(T)
    OBVIOUS
  <2>1. Above(t) \in SUBSET T
    OBVIOUS
  <2>2. IsFiniteSet(Above(t))
    BY <2>1, FS_Subset
  <2>3. QED
    BY <2>1, <2>2 DEF FiniteSubsetsOf
<1>2. A # {}
  OBVIOUS
<1>3. PICK U \in A : \A V \in A : ~ (<<V, U>> \in StrictSubsetOrdering(T))
  <2> HIDE DEF A
  <2> QED
    BY <1>1, <1>2, FS_StrictSubsetOrderingWellFounded, WFMin
<1>4. PICK t \in T : U = Above(t)
  OBVIOUS
<1>5. ASSUME NEW s \in U PROVE FALSE
  <2>1. s \in T /\ s > t
    BY <1>4
  <2>2. Above(s) \subseteq U /\ s \notin Above(s)
    <3>1. \A r \in T : r > s => r > t
      BY <2>1
    <3>2. s \notin Above(s)
      BY <2>1
    <3>3. QED
      BY <1>4, <3>1, <3>2
  <2>3. <<Above(s), U>> \in StrictSubsetOrdering(T)
    <3>1. Above(s) \in SUBSET T /\ U \in SUBSET T
      BY <1>4
    <3>2. Above(s) # U
      BY <2>2, <1>5
    <3> HIDE DEF Above
    <3>3. QED
      BY <3>1, <3>2, <2>2 DEF StrictSubsetOrdering
  <2>4. Above(s) \in A
    BY <2>1
  <2>5. QED
    BY <1>3, <2>3, <2>4
<1>6. \A s \in T : t >= s
  BY <1>4, <1>5
<1>7. QED
  BY <1>6 DEF Max

\* Some chain ends in every call, and one of them is as long as the call is deep.
LEMMA DepthIsLongest ==
  ASSUME NEW S \in SUBSET Nat, IsFiniteSet(S), NEW claims, NEW i \in S
  PROVE  /\ Depth(claims, S, i) \in Nat
         /\ \E C \in Chains(claims, S, i) : Cardinality(C) = Depth(claims, S, i)
         /\ \A C \in Chains(claims, S, i) : Cardinality(C) <= Depth(claims, S, i)
<1> DEFINE Sizes == {Cardinality(C) : C \in Chains(claims, S, i)}
<1>1. ASSUME NEW C \in Chains(claims, S, i)
      PROVE  Cardinality(C) \in Nat /\ Cardinality(C) <= Cardinality(S)
  <2>1. C \in SUBSET S
    BY DEF Chains
  <2>2. QED
    BY <2>1, FS_Subset, FS_CardinalityType
<1>2. Sizes \in SUBSET Nat
  BY <1>1
<1>3. IsFiniteSet(Sizes)
  <2>1. Cardinality(S) \in Nat
    BY FS_CardinalityType
  <2>2. \A n \in Sizes : n <= Cardinality(S)
    BY <1>1
  <2> HIDE DEF Sizes
  <2>3. QED
    BY <1>2, <2>1, <2>2, FS_BoundedSetOfNaturals
<1>4. {i} \in Chains(claims, S, i)
  BY DEF Chains
<1>5. Max(Sizes) \in Sizes /\ \A n \in Sizes : n <= Max(Sizes)
  <2>1. Sizes # {}
    BY <1>4
  <2> HIDE DEF Sizes
  <2>2. QED
    BY <1>2, <1>3, <2>1, MaxIsGreatest
<1>6. Depth(claims, S, i) = Max(Sizes)
  BY DEF Depth
<1>7. QED
  BY <1>2, <1>5, <1>6

\* "Every directed conflict edge advances at least one level" (comment of
\* assignDagLevels): a chain that ends in the earlier call goes on to the later.
LEMMA ConflictDeepens ==
  ASSUME NEW S \in SUBSET Nat, IsFiniteSet(S), NEW claims, NEW i \in S, NEW j \in S,
         i < j, resolutionsConflict(claims[i], claims[j])
  PROVE  Depth(claims, S, i) < Depth(claims, S, j)
<1>1. PICK C \in Chains(claims, S, i) : Cardinality(C) = Depth(claims, S, i)
  BY DepthIsLongest
<1>2. C \in SUBSET {k \in S : k <= i} /\ i \in C
  BY DEF Chains
<1>3. C \cup {j} \in Chains(claims, S, j)
  <2>1. C \cup {j} \in SUBSET {k \in S : k <= j} /\ j \in C \cup {j}
    BY <1>2
  <2>2. ASSUME NEW k \in C \cup {j}, NEW l \in C \cup {j}, k < l,
               \A m \in C \cup {j} : m <= k \/ l <= m
        PROVE  resolutionsConflict(claims[k], claims[l])
    <3>1. CASE l = j
      <4>1. k = i
        BY <1>2, <2>2, <3>1
      <4>2. QED
        BY <3>1, <4>1
    <3>2. CASE l # j
      <4>1. k \in C /\ l \in C
        BY <1>2, <2>2, <3>2
      <4>2. QED
        BY <2>2, <4>1 DEF Chains
    <3>3. QED
      BY <3>1, <3>2
  <2>3. QED
    BY <2>1, <2>2 DEF Chains
<1>4. Cardinality(C \cup {j}) = Cardinality(C) + 1
  <2>1. IsFiniteSet(C)
    <3>1. C \in SUBSET S
      BY <1>2
    <3>2. QED
      BY <3>1, FS_Subset
  <2>2. j \notin C
    BY <1>2
  <2>3. QED
    BY <2>1, <2>2, FS_AddElement
<1>5. Cardinality(C \cup {j}) <= Depth(claims, S, j)
  BY <1>3, DepthIsLongest
<1>6. Depth(claims, S, i) \in Nat /\ Depth(claims, S, j) \in Nat
  BY DepthIsLongest
<1>7. QED
  BY <1>1, <1>4, <1>5, <1>6

\* A call that is deeper than 1 conflicts with an earlier one at most one less deep:
\* a longest chain that ends in it goes on from there.
LEMMA DeepBehindConflict ==
  ASSUME NEW S \in SUBSET Nat, IsFiniteSet(S), NEW claims, NEW i \in S
  PROVE  \/ Depth(claims, S, i) = 1
         \/ \E j \in S : /\ j < i /\ resolutionsConflict(claims[j], claims[i])
                         /\ Depth(claims, S, i) <= Depth(claims, S, j) + 1
<1>1. PICK C \in Chains(claims, S, i) : Cardinality(C) = Depth(claims, S, i)
  BY DepthIsLongest
<1>2. /\ C \in SUBSET {k \in S : k <= i} /\ i \in C
      /\ \A j, k \in C : j < k /\ (\A m \in C : m <= j \/ k <= m) =>
           resolutionsConflict(claims[j], claims[k])
  BY DEF Chains
<1> DEFINE B == C \ {i}
<1>3. IsFiniteSet(C) /\ B \in SUBSET Nat /\ IsFiniteSet(B)
  <2>1. C \in SUBSET S
    BY <1>2
  <2>2. IsFiniteSet(C)
    BY <2>1, FS_Subset
  <2>3. QED
    BY <2>1, <2>2, FS_Subset
<1>4. Cardinality(C) = Cardinality(B) + 1
  <2>1. Cardinality(B) = Cardinality(C) - 1
    BY <1>2, <1>3, FS_RemoveElement
  <2>2. Cardinality(C) \in Nat
    BY <1>3, FS_CardinalityType
  <2> HIDE DEF B
  <2>3. QED
    BY <2>1, <2>2
<1>5. CASE B = {}
  BY <1>1, <1>4, <1>5, FS_EmptySet
<1>6. CASE B # {}
  <2> DEFINE j == Max(B)
  <2>1. j \in B /\ \A k \in B : k <= j
    <3> HIDE DEF B
    <3>1. QED
      BY <1>3, <1>6, MaxIsGreatest
  <2> HIDE DEF j
  <2>2. j \in S /\ j < i /\ j \in C /\ j \in Nat /\ i \in Nat
    BY <1>2, <2>1
  <2>3. \A m \in C : m <= j \/ i <= m
    BY <1>2, <2>1
  <2>4. resolutionsConflict(claims[j], claims[i])
    BY <1>2, <2>2, <2>3
  <2>5. B \in Chains(claims, S, j)
    <3>1. B \in SUBSET {k \in S : k <= j}
      BY <1>2, <2>1
    <3>2. ASSUME NEW k \in B, NEW l \in B, k < l, \A m \in B : m <= k \/ l <= m
          PROVE  resolutionsConflict(claims[k], claims[l])
      <4>1. l <= i
        BY <1>2
      <4>2. \A m \in C : m <= k \/ l <= m
        BY <3>2, <4>1
      <4>3. QED
        BY <1>2, <3>2, <4>2
    <3>3. QED
      BY <2>1, <3>1, <3>2 DEF Chains
  <2>6. Cardinality(B) <= Depth(claims, S, j)
    BY <2>2, <2>5, DepthIsLongest
  <2>7. Depth(claims, S, j) \in Nat /\ Cardinality(B) \in Nat
    BY <1>3, <2>2, DepthIsLongest, FS_CardinalityType
  <2> HIDE DEF B
  <2>8. Depth(claims, S, i) <= Depth(claims, S, j) + 1
    BY <1>1, <1>4, <2>6, <2>7
  <2>9. QED
    BY <2>2, <2>4, <2>8
<1>7. QED
  BY <1>5, <1>6

\* A depth is at least 1.
LEMMA DepthIsPositive ==
  ASSUME NEW S \in SUBSET Nat, IsFiniteSet(S), NEW claims, NEW i \in S
  PROVE  Depth(claims, S, i) \in Nat \ {0}
<1>1. {i} \in Chains(claims, S, i)
  BY DEF Chains
<1>2. Cardinality({i}) = 1
  BY FS_Singleton
<1>3. Depth(claims, S, i) \in Nat /\ Cardinality({i}) <= Depth(claims, S, i)
  BY <1>1, DepthIsLongest
<1>4. QED
  BY <1>2, <1>3

-------------------------------------------------------------------------------
(* The schedule. *)

\* Calls of different slots have different positions: the slots are in a total
\* order, and the position of a slot counts those that are not after it.
LEMMA PositionsDiffer ==
  ASSUME NEW T, IsFiniteSet(T), NEW s \in T, NEW t \in T,
         \A r \in T : r[1] \in Nat /\ r[2] \in Int,
         s[1] < t[1]
  PROVE  Cardinality({r \in T : NotAfter(r, s)}) < Cardinality({r \in T : NotAfter(r, t)})
<1> DEFINE A == {r \in T : NotAfter(r, s)}
           B == {r \in T : NotAfter(r, t)}
<1>1. A \in SUBSET B
  BY DEF NotAfter
<1>2. t \in B /\ t \notin A
  BY DEF NotAfter
<1>3. IsFiniteSet(B) /\ Cardinality(B) \in Nat /\ IsFiniteSet(A) /\ Cardinality(A) \in Nat
  BY FS_Subset, FS_CardinalityType
<1> HIDE DEF A, B
<1>4. Cardinality(A) <= Cardinality(B) /\ Cardinality(A) # Cardinality(B)
  BY <1>1, <1>2, <1>3, FS_Subset
<1>5. Cardinality(A) < Cardinality(B)
  BY <1>3, <1>4
<1>6. QED
  BY <1>5 DEF A, B

\* The schedule is a sequence of levels of calls of S, every call is in one of
\* them, no call is in two, and of two calls that conflict the earlier one has
\* the earlier level; the calls of one level do not conflict.
THEOREM ScheduleIsSound ==
  ASSUME NEW S \in SUBSET Nat, IsFiniteSet(S), NEW claims,
         NEW limit \in Nat
  PROVE  LET levels == scheduleDagLevels(claims, S, limit) IN
         /\ levels \in Seq(SUBSET S)
         /\ \A i \in S : \E p \in DOMAIN levels : i \in levels[p]
         /\ \A p, q \in DOMAIN levels : p # q => levels[p] \cap levels[q] = {}
         /\ \A p, q \in DOMAIN levels : \A i \in levels[p], j \in levels[q] :
              i < j /\ resolutionsConflict(claims[i], claims[j]) => p < q
<1> DEFINE slot == [i \in S |-> Slot(claims, S, limit, i)]
           taken == {slot[i] : i \in S}
           upto(i) == {s \in taken : NotAfter(s, slot[i])}
           position == [i \in S |-> Cardinality(upto(i))]
           levels == [p \in 1..Cardinality(taken) |-> {i \in S : position[i] = p}]
<1>1. levels = scheduleDagLevels(claims, S, limit)
  BY DEF scheduleDagLevels
<1>2. IsFiniteSet(taken) /\ Cardinality(taken) \in Nat
  <2>1. slot \in Surjection(S, taken)
    BY DEF Surjection
  <2>2. QED
    BY <2>1, FS_Surjection, FS_CardinalityType
<1>3. \A i \in S : slot[i][1] = Depth(claims, S, i) /\ slot[i][1] \in Nat /\ slot[i][2] \in Int
  <2> SUFFICES ASSUME NEW i \in S
               PROVE  slot[i][1] = Depth(claims, S, i) /\ slot[i][1] \in Nat /\ slot[i][2] \in Int
    OBVIOUS
  <2> DEFINE peers == {j \in S : Depth(claims, S, j) = Depth(claims, S, i)}
  <2>1. slot[i] = <<Depth(claims, S, i), IF limit = 0 THEN 0 ELSE (Rank(peers, i) - 1) \div limit>>
    BY DEF Slot
  <2>2. Rank(peers, i) \in Nat
    <3>1. {j \in peers : j <= i} \in SUBSET S
      OBVIOUS
    <3>2. QED
      BY <3>1, FS_Subset, FS_CardinalityType DEF Rank
  <2>3. Depth(claims, S, i) \in Nat
    BY DepthIsLongest
  <2> HIDE DEF slot, peers
  <2>4. QED
    BY <2>1, <2>2, <2>3
<1>4. ASSUME NEW i \in S
      PROVE  position[i] \in 1..Cardinality(taken)
  <2>1. upto(i) \in SUBSET taken /\ slot[i] \in upto(i)
    <3>1. NotAfter(slot[i], slot[i])
      <4> HIDE DEF slot
      <4> QED
        BY <1>3 DEF NotAfter
    <3>2. QED
      BY <3>1
  <2>2. IsFiniteSet(upto(i)) /\ Cardinality(upto(i)) <= Cardinality(taken)
    BY <1>2, <2>1, FS_Subset
  <2>3. Cardinality(upto(i)) \in Nat /\ Cardinality(upto(i)) # 0
    <3> HIDE DEF upto
    <3> QED
      BY <2>1, <2>2, FS_CardinalityType, FS_EmptySet
  <2>4. position[i] = Cardinality(upto(i))
    OBVIOUS
  <2> HIDE DEF position, upto, taken
  <2>5. QED
    BY <1>2, <2>2, <2>3, <2>4
<1>5. ASSUME NEW i \in S, NEW j \in S, i < j, resolutionsConflict(claims[i], claims[j])
      PROVE  position[i] < position[j]
  <2>1. slot[i][1] < slot[j][1]
    <3>1. Depth(claims, S, i) < Depth(claims, S, j)
      BY <1>5, ConflictDeepens
    <3> HIDE DEF slot
    <3>2. QED
      BY <1>3, <3>1
  <2>2. slot[i] \in taken /\ slot[j] \in taken
    OBVIOUS
  <2>3. \A r \in taken : r[1] \in Nat /\ r[2] \in Int
    BY <1>3
  <2>4. Cardinality(upto(i)) < Cardinality(upto(j))
    <3> HIDE DEF slot, taken
    <3> QED
      BY <1>2, <2>1, <2>2, <2>3, PositionsDiffer
  <2>5. position[i] = Cardinality(upto(i)) /\ position[j] = Cardinality(upto(j))
    OBVIOUS
  <2>6. Cardinality(upto(i)) \in Nat /\ Cardinality(upto(j)) \in Nat
    <3>1. upto(i) \in SUBSET taken /\ upto(j) \in SUBSET taken
      OBVIOUS
    <3> HIDE DEF upto, taken
    <3>2. QED
      BY <1>2, <3>1, FS_Subset, FS_CardinalityType
  <2> HIDE DEF upto, position
  <2>7. QED
    BY <2>4, <2>5, <2>6
<1> HIDE DEF position, taken
<1>6. levels \in Seq(SUBSET S)
  BY <1>2
<1>7. \A i \in S : \E p \in DOMAIN levels : i \in levels[p]
  BY <1>4
<1>8. \A p, q \in DOMAIN levels : p # q => levels[p] \cap levels[q] = {}
  OBVIOUS
<1>9. \A p, q \in DOMAIN levels : \A i \in levels[p], j \in levels[q] :
        i < j /\ resolutionsConflict(claims[i], claims[j]) => p < q
  BY <1>5
<1> HIDE DEF levels
<1>10. QED
  BY <1>1, <1>6, <1>7, <1>8, <1>9

Before(s, t) == s[1] < t[1] \/ (s[1] = t[1] /\ s[2] < t[2])

\* Whoever divides the calls by slot and puts the parts into the order of the slots
\* has computed the schedule.
THEOREM ScheduleIsUnique ==
  ASSUME NEW S \in SUBSET Nat, IsFiniteSet(S), NEW claims, NEW limit \in Nat,
         NEW n \in Nat, NEW parts \in [1..n -> SUBSET S],
         \A i \in S : /\ Slot(claims, S, limit, i)[1] \in Int
                      /\ Slot(claims, S, limit, i)[2] \in Int,
         \A i \in S : \E c \in 1..n : i \in parts[c],
         \A c \in 1..n : parts[c] # {},
         \A c \in 1..n : \A i, j \in parts[c] :
           Slot(claims, S, limit, i) = Slot(claims, S, limit, j),
         \A c, d \in 1..n : c < d => \A i \in parts[c], j \in parts[d] :
           Before(Slot(claims, S, limit, i), Slot(claims, S, limit, j))
  PROVE  scheduleDagLevels(claims, S, limit) = parts
<1> DEFINE slot == [i \in S |-> Slot(claims, S, limit, i)]
           taken == {slot[i] : i \in S}
           position == [i \in S |-> Cardinality({s \in taken : NotAfter(s, slot[i])})]
           of == [c \in 1..n |-> slot[CHOOSE i \in parts[c] : TRUE]]
<1>1. scheduleDagLevels(claims, S, limit) = [p \in 1..Cardinality(taken) |-> {i \in S : position[i] = p}]
  BY DEF scheduleDagLevels
<1>2. \A i \in S : slot[i] = Slot(claims, S, limit, i)
  OBVIOUS
<1>3. \A c \in 1..n : parts[c] \subseteq S
  OBVIOUS
<1> HIDE DEF slot
<1>4. \A i \in S : slot[i][1] \in Int /\ slot[i][2] \in Int
  BY <1>2
<1>5. ASSUME NEW c \in 1..n, NEW i \in parts[c], NEW j \in parts[c]
      PROVE  slot[i] = slot[j]
  <2>1. i \in S /\ j \in S
    BY <1>3
  <2>2. Slot(claims, S, limit, i) = Slot(claims, S, limit, j)
    OBVIOUS
  <2>3. QED
    BY <1>2, <2>1, <2>2
<1>6. \A c \in 1..n : \A i \in parts[c] : of[c] = slot[i]
  <2> TAKE c \in 1..n
  <2> TAKE i \in parts[c]
  <2>1. (CHOOSE j \in parts[c] : TRUE) \in parts[c]
    OBVIOUS
  <2>2. of[c] = slot[CHOOSE j \in parts[c] : TRUE]
    OBVIOUS
  <2> HIDE DEF of
  <2>3. QED
    BY <1>5, <2>1, <2>2
<1>7. \A c \in 1..n : \E i \in S : i \in parts[c] /\ of[c] = slot[i]
  <2> TAKE c \in 1..n
  <2>1. PICK i \in parts[c] : TRUE
    OBVIOUS
  <2>2. i \in S
    OBVIOUS
  <2> HIDE DEF of
  <2>3. QED
    BY <1>6, <2>1, <2>2
<1>8. of \in [1..n -> taken]
  <2>1. \A c \in 1..n : of[c] \in taken
    BY <1>7
  <2>2. QED
    BY <2>1
<1> HIDE DEF of
<1>9. \A c, d \in 1..n : c < d => Before(of[c], of[d])
  <2> SUFFICES ASSUME NEW c \in 1..n, NEW d \in 1..n, c < d PROVE Before(of[c], of[d])
    OBVIOUS
  <2>1. PICK i \in S : i \in parts[c] /\ of[c] = slot[i]
    BY <1>7
  <2>2. PICK j \in S : j \in parts[d] /\ of[d] = slot[j]
    BY <1>7
  <2>3. Before(slot[i], slot[j])
    <3>1. Before(Slot(claims, S, limit, i), Slot(claims, S, limit, j))
      BY <2>1, <2>2
    <3>2. QED
      BY <1>2, <2>1, <2>2, <3>1, Zenon
  <2>4. QED
    BY <2>1, <2>2, <2>3, Zenon
<1>10. \A c \in 1..n : of[c][1] \in Int /\ of[c][2] \in Int
  BY <1>4, <1>7
<1>11. \A c, d \in 1..n : of[c] = of[d] => c = d
  <2> SUFFICES ASSUME NEW c \in 1..n, NEW d \in 1..n, of[c] = of[d], c < d
               PROVE  FALSE
    BY DEF Before
  <2>1. Before(of[c], of[d])
    BY <1>9
  <2>2. QED
    BY <1>10, <2>1 DEF Before
<1>12. \A s \in taken : \E c \in 1..n : of[c] = s
  <2> TAKE s \in taken
  <2>1. PICK i \in S : s = slot[i]
    OBVIOUS
  <2>2. PICK c \in 1..n : i \in parts[c]
    BY <2>1
  <2>3. of[c] = s
    BY <1>6, <2>1, <2>2, Zenon
  <2>4. QED
    BY <2>3
<1>13. of \in Bijection(1..n, taken)
  BY <1>8, <1>11, <1>12 DEF Bijection, Injection, Surjection, IsInjective
<1>14. Cardinality(taken) = n
  <2>1. IsFiniteSet(1..n) /\ Cardinality(1..n) = n
    BY FS_Interval
  <2> HIDE DEF taken
  <2>2. QED
    BY <1>13, <2>1, FS_Bijection DEF ExistsBijection
<1>15. ASSUME NEW c \in 1..n, NEW i \in parts[c]
       PROVE  position[i] = c
  <2> DEFINE before == {s \in taken : NotAfter(s, slot[i])}
             f == [d \in 1..c |-> of[d]]
  <2>1. of[c] = slot[i] /\ i \in S
    BY <1>6
  <2>2. \A d \in 1..n : d <= c <=> NotAfter(of[d], of[c])
    <3> TAKE d \in 1..n
    <3>1. d < c => Before(of[d], of[c])
      BY <1>9
    <3>2. c < d => Before(of[c], of[d])
      BY <1>9
    <3>3. of[d][1] \in Int /\ of[d][2] \in Int /\ of[c][1] \in Int /\ of[c][2] \in Int
      BY <1>10
    <3>4. CASE d = c
      BY <3>3, <3>4 DEF NotAfter
    <3>5. CASE d < c
      BY <3>1, <3>3, <3>5 DEF NotAfter, Before
    <3>6. CASE c < d
      BY <3>2, <3>3, <3>6 DEF NotAfter, Before
    <3>7. QED
      BY <3>4, <3>5, <3>6
  <2>3. \A d \in 1..c : d \in 1..n /\ f[d] = of[d] /\ f[d] \in before
    <3> TAKE d \in 1..c
    <3>1. d \in 1..n /\ d <= c /\ f[d] = of[d]
      OBVIOUS
    <3>2. of[d] \in taken
      BY <1>8, <3>1
    <3>3. NotAfter(of[d], slot[i])
      BY <2>1, <2>2, <3>1
    <3> HIDE DEF f, taken
    <3>4. QED
      BY <3>1, <3>2, <3>3
  <2>4. \A s \in before : \E d \in 1..c : f[d] = s
    <3> TAKE s \in before
    <3>1. PICK d \in 1..n : of[d] = s
      BY <1>12
    <3>2. d <= c
      BY <2>1, <2>2, <3>1
    <3>3. d \in 1..c
      BY <3>2
    <3>4. QED
      BY <2>3, <3>1, <3>3
  <2>5. f \in Bijection(1..c, before)
    <3>1. f \in [1..c -> before]
      BY <2>3
    <3>2. \A d, e \in 1..c : f[d] = f[e] => d = e
      BY <1>11, <2>3
    <3> HIDE DEF f, before
    <3>3. QED
      BY <2>4, <3>1, <3>2 DEF Bijection, Injection, Surjection, IsInjective
  <2>6. IsFiniteSet(1..c) /\ Cardinality(1..c) = c
    BY FS_Interval
  <2>7. Cardinality(before) = c
    <3> HIDE DEF before, f
    <3>1. QED
      BY <2>5, <2>6, FS_Bijection DEF ExistsBijection
  <2>8. position[i] = Cardinality(before)
    BY <2>1
  <2> HIDE DEF before, position
  <2>9. QED
    BY <2>7, <2>8
<1> HIDE DEF position, taken
<1>16. \A p \in 1..n : parts[p] = {i \in S : position[i] = p}
  <2> TAKE p \in 1..n
  <2>1. \A i \in parts[p] : i \in S /\ position[i] = p
    BY <1>15
  <2>2. ASSUME NEW i \in S, position[i] = p
        PROVE  i \in parts[p]
    <3>1. PICK c \in 1..n : i \in parts[c]
      OBVIOUS
    <3>2. position[i] = c
      BY <1>15, <3>1
    <3>3. QED
      BY <2>2, <3>1, <3>2
  <2>3. QED
    BY <2>1, <2>2
<1>17. parts = [p \in 1..n |-> {i \in S : position[i] = p}]
  BY <1>16
<1>18. QED
  BY <1>1, <1>14, <1>17

===============================================================================
