----------------------- MODULE WorkloadPermitPoolProofs -----------------------
(***************************************************************************)
(* Proofs about the permit pool, for every finite set of requests, every   *)
(* choice of heavy ones, every sequence of capacities and every queue cap. *)
(***************************************************************************)
EXTENDS WorkloadPermitPool, FiniteSetTheorems, TLAPS

\* What splice does to the queue.
LEMMA RemoveAtEffect ==
  ASSUME NEW S, NEW q \in Seq(S), NEW k \in DOMAIN q
  PROVE  /\ RemoveAt(q, k) \in Seq(S)
         /\ Len(RemoveAt(q, k)) = Len(q) - 1
         /\ \A i \in 1..(Len(q) - 1) : RemoveAt(q, k)[i] = IF i < k THEN q[i] ELSE q[i + 1]
<1> DEFINE front == SubSeq(q, 1, k - 1)
           back  == SubSeq(q, k + 1, Len(q))
<1>1. Len(q) \in Nat /\ k \in 1..Len(q) /\ \A i \in 1..Len(q) : q[i] \in S
  OBVIOUS
<1>2. front \in Seq(S) /\ Len(front) = k - 1 /\ \A i \in 1..(k - 1) : front[i] = q[i]
  BY <1>1
<1>3. back \in Seq(S) /\ Len(back) = Len(q) - k
  BY <1>1
<1>4. \A i \in 1..(Len(q) - k) : back[i] = q[k + i]
  BY <1>1
<1> HIDE DEF front, back
<1>5. /\ front \o back \in Seq(S)
      /\ Len(front \o back) = Len(q) - 1
      /\ \A i \in 1..(Len(q) - 1) :
           (front \o back)[i] = IF i < k THEN front[i] ELSE back[i - (k - 1)]
  BY <1>1, <1>2, <1>3, SMTT(30)
<1>6. \A i \in 1..(Len(q) - 1) : (front \o back)[i] = IF i < k THEN q[i] ELSE q[i + 1]
  <2> TAKE i \in 1..(Len(q) - 1)
  <2>1. CASE i < k
    BY <1>1, <1>2, <1>5, <2>1
  <2>2. CASE ~ (i < k)
    <3>1. i - (k - 1) \in 1..(Len(q) - k) /\ k + (i - (k - 1)) = i + 1
      BY <1>1, <2>2
    <3>2. back[i - (k - 1)] = q[i + 1]
      BY <1>4, <3>1
    <3>3. QED
      BY <1>5, <2>2, <3>2
  <2>3. QED
    BY <2>1, <2>2
<1>7. RemoveAt(q, k) = front \o back
  BY DEF RemoveAt, front, back
<1>8. QED
  BY <1>5, <1>6, <1>7

-------------------------------------------------------------------------------
(* Type correctness. *)

\* The first state has the types.
LEMMA InitType == Init => TypeOK
<1> SUFFICES ASSUME Init PROVE TypeOK
  OBVIOUS
<1>1. capacity \in Nat \ {0} /\ 0 \in 0..MaxDouble
  BY PoolAssumption DEF Init
<1>2. status \in [Request -> Status]
  BY DEF Init, Status
<1>3. activeWeight \in Nat /\ queue \in Seq(Request) /\ granting \in BOOLEAN
  <2>1. queue = <<>> /\ activeWeight = 0 /\ granting = FALSE
    BY DEF Init
  <2>2. queue \in Seq(Request)
    BY <2>1
  <2>3. QED
    BY <2>1, <2>2
<1>4. doubleReleases \in 0..MaxDouble
  BY <1>1 DEF Init
<1>5. QED
  BY <1>1, <1>2, <1>3, <1>4 DEF TypeOK

\* Every step keeps the types.
LEMMA NextType == TypeOK /\ [Next]_vars => TypeOK'
<1> SUFFICES ASSUME TypeOK, [Next]_vars PROVE TypeOK'
  OBVIOUS
<1> USE DEF TypeOK, Reject, grant, Status, ErrorCode, weight
<1>1. CASE GrantHead
  <2>1. queue # <<>> /\ queue \in Seq(Request)
    BY <1>1 DEF GrantHead
  <2>2. Head(queue) \in Request /\ Tail(queue) \in Seq(Request)
    BY <2>1
  <2>3. QED
    BY <1>1, <2>2 DEF GrantHead
<1>2. CASE EndGranting
  BY <1>2 DEF EndGranting
<1>3. ASSUME NEW r \in Request, acquire(r) PROVE TypeOK'
  <2>1. CASE UNCHANGED queue
    BY <1>3, <2>1 DEF acquire
  <2>2. CASE queue' = Append(queue, r)
    BY <1>3, <2>2 DEF acquire
  <2>3. QED
    BY <1>3, <2>1, <2>2 DEF acquire
<1>4. ASSUME NEW r \in Request, release(r) PROVE TypeOK'
  BY <1>4 DEF release
<1>5. ASSUME NEW r \in Request, releaseAgain(r) PROVE TypeOK'
  BY <1>5, PoolAssumption DEF releaseAgain
<1>6. ASSUME NEW r \in Request, NEW code \in {"timeout", "aborted"}, evict(r, code) PROVE TypeOK'
  <2>1. queue' \in Seq(Request)
    BY <1>6, RemoveAtEffect DEF evict
  <2>2. QED
    BY <1>6, <2>1 DEF evict
<1>7. ASSUME NEW c \in Capacities, setCapacity(c) PROVE TypeOK'
  BY <1>7, PoolAssumption DEF setCapacity
<1>8. CASE UNCHANGED vars
  BY <1>8 DEF vars
<1>9. QED
  BY <1>1, <1>2, <1>3, <1>4, <1>5, <1>6, <1>7, <1>8 DEF Next

\* The state of the pool keeps its types; the capacity stays positive.
THEOREM PoolTypeCorrect == Spec => []TypeOK
BY InitType, NextType, PTL DEF Spec

-------------------------------------------------------------------------------
(* The weight of the permits that are out. *)

\* The permits that are out are finitely many.
LEMMA ActiveFinite ==
  /\ IsFiniteSet(Active) /\ Cardinality(Active) \in Nat
  /\ IsFiniteSet(Active \cap Heavy) /\ Cardinality(Active \cap Heavy) \in Nat
<1>1. Active \subseteq Request /\ Active \cap Heavy \subseteq Request
  BY DEF Active
<1>2. QED
  BY <1>1, PoolAssumption, FS_Subset, FS_CardinalityType

\* A grant adds the weight of its request once.
LEMMA GrantConserves ==
  ASSUME TypeOK, WeightConserved, NEW r \in Request, status[r] # "active",
         status' = [status EXCEPT ![r] = "active"], activeWeight' = activeWeight + weight(r)
  PROVE  WeightConserved' /\ r \in Active'
<1>1. Active' = Active \cup {r} /\ r \notin Active
  BY DEF Active, TypeOK
<1>2. Cardinality(Active') = Cardinality(Active) + 1
  BY <1>1, ActiveFinite, FS_AddElement
<1>3. CASE r \in Heavy
  <2>1. Active' \cap Heavy = (Active \cap Heavy) \cup {r} /\ r \notin Active \cap Heavy
    BY <1>1, <1>3
  <2>2. Cardinality(Active' \cap Heavy) = Cardinality(Active \cap Heavy) + 1
    BY <2>1, ActiveFinite, FS_AddElement
  <2>3. QED
    BY <1>1, <1>2, <1>3, <2>2, ActiveFinite DEF WeightConserved, weight
<1>4. CASE r \notin Heavy
  <2>1. Cardinality(Active' \cap Heavy) = Cardinality(Active \cap Heavy)
    <3>1. Active' \cap Heavy = Active \cap Heavy
      BY <1>1, <1>4
    <3>2. QED
      BY <3>1
  <2>2. QED
    BY <1>1, <1>2, <1>4, <2>1, ActiveFinite DEF WeightConserved, weight
<1>5. QED
  BY <1>3, <1>4

\* A release takes the weight of its request away once; the guard of the code
\* against a negative weight is never needed.
LEMMA ReleaseConserves ==
  ASSUME TypeOK, WeightConserved, NEW r \in Request, release(r)
  PROVE  WeightConserved'
<1>1. Active' = Active \ {r} /\ r \in Active
  BY DEF Active, TypeOK, release
<1>2. Cardinality(Active') = Cardinality(Active) - 1
  BY <1>1, ActiveFinite, FS_RemoveElement
<1>3. Cardinality(Active) >= 1
  <2>1. Cardinality(Active) # 0
    BY <1>1, ActiveFinite, FS_EmptySet
  <2>2. QED
    BY <2>1, ActiveFinite
<1>4. CASE r \in Heavy
  <2>1. Active' \cap Heavy = (Active \cap Heavy) \ {r} /\ r \in Active \cap Heavy
    BY <1>1, <1>4
  <2>2. Cardinality(Active' \cap Heavy) = Cardinality(Active \cap Heavy) - 1
    BY <2>1, ActiveFinite, FS_RemoveElement
  <2>3. Cardinality(Active \cap Heavy) >= 1
    <3>1. Cardinality(Active \cap Heavy) # 0
      BY <2>1, ActiveFinite, FS_EmptySet
    <3>2. QED
      BY <3>1, ActiveFinite
  <2>4. activeWeight >= 2 /\ activeWeight' = activeWeight - 2
    BY <1>3, <1>4, <2>3, ActiveFinite DEF WeightConserved, release, weight
  <2>5. QED
    BY <1>2, <2>2, <2>4, ActiveFinite DEF WeightConserved
<1>5. CASE r \notin Heavy
  <2>1. Cardinality(Active' \cap Heavy) = Cardinality(Active \cap Heavy)
    <3>1. Active' \cap Heavy = Active \cap Heavy
      BY <1>1, <1>5
    <3>2. QED
      BY <3>1
  <2>2. activeWeight >= 1 /\ activeWeight' = activeWeight - 1
    BY <1>3, <1>5, ActiveFinite DEF WeightConserved, release, weight
  <2>3. QED
    BY <1>2, <2>1, <2>2, ActiveFinite DEF WeightConserved
<1>6. QED
  BY <1>4, <1>5

\* A step that changes no permit changes no weight.
LEMMA OthersConserve ==
  ASSUME WeightConserved, activeWeight' = activeWeight,
         \A r \in Request : status'[r] = "active" <=> status[r] = "active"
  PROVE  WeightConserved' /\ Active' = Active
<1>1. Active' = Active
  BY DEF Active
<1>2. QED
  BY <1>1 DEF WeightConserved

-------------------------------------------------------------------------------
(* The queue holds the waiting requests. *)

\* The head leaves the queue.
LEMMA HeadLeaves ==
  ASSUME TypeOK, QueueHoldsWaiters, queue # <<>>, queue' = Tail(queue),
         NEW s \in Status \ {"queued"}, status' = [status EXCEPT ![Head(queue)] = s]
  PROVE  QueueHoldsWaiters'
<1>1. /\ queue \in Seq(Request) /\ Len(queue) \in Nat /\ Len(queue) >= 1
      /\ Head(queue) = queue[1] /\ queue[1] \in Request
      /\ DOMAIN queue = 1..Len(queue) /\ status \in [Request -> Status]
  BY DEF TypeOK
<1>2. /\ Len(queue') = Len(queue) - 1 /\ DOMAIN queue' = 1..(Len(queue) - 1)
      /\ \A k \in 1..(Len(queue) - 1) : queue'[k] = queue[k + 1]
  BY <1>1
<1>3. \A k, l \in DOMAIN queue' : k # l => queue'[k] # queue'[l]
  BY <1>1, <1>2 DEF QueueHoldsWaiters
<1>4. ASSUME NEW r \in Request
      PROVE  status'[r] = "queued" <=> \E k \in DOMAIN queue' : queue'[k] = r
  <2>1. CASE r = queue[1]
    <3>1. status'[r] # "queued"
      BY <1>1, <2>1
    <3>2. \A k \in DOMAIN queue' : queue'[k] # r
      BY <1>1, <1>2, <2>1 DEF QueueHoldsWaiters
    <3>3. QED
      BY <3>1, <3>2
  <2>2. CASE r # queue[1]
    <3>1. status'[r] = status[r]
      BY <1>1, <2>2
    <3>2. ASSUME NEW k \in DOMAIN queue, queue[k] = r
          PROVE  \E l \in DOMAIN queue' : queue'[l] = r
      <4>1. k - 1 \in 1..(Len(queue) - 1) /\ (k - 1) + 1 = k
        BY <1>1, <2>2, <3>2
      <4>2. queue'[k - 1] = r
        BY <1>2, <3>2, <4>1
      <4>3. QED
        BY <1>2, <4>1, <4>2
    <3>3. ASSUME NEW k \in DOMAIN queue', queue'[k] = r
          PROVE  \E l \in DOMAIN queue : queue[l] = r
      <4>1. k + 1 \in DOMAIN queue /\ queue[k + 1] = r
        BY <1>1, <1>2, <3>3
      <4>2. QED
        BY <4>1
    <3>4. QED
      BY <3>1, <3>2, <3>3 DEF QueueHoldsWaiters
  <2>3. QED
    BY <2>1, <2>2
<1>5. Len(queue') <= maxQueue
  BY <1>1, <1>2, PoolAssumption DEF QueueHoldsWaiters
<1>6. QED
  BY <1>3, <1>4, <1>5 DEF QueueHoldsWaiters

\* A request joins the end of the queue.
LEMMA RequestJoins ==
  ASSUME TypeOK, QueueHoldsWaiters, NEW r \in Request, status[r] = "new",
         ~ (Len(queue) >= maxQueue),
         queue' = Append(queue, r), status' = [status EXCEPT ![r] = "queued"]
  PROVE  QueueHoldsWaiters'
<1>1. /\ queue \in Seq(Request) /\ Len(queue) \in Nat
      /\ DOMAIN queue = 1..Len(queue) /\ status \in [Request -> Status]
  BY DEF TypeOK
<1>2. /\ Len(queue') = Len(queue) + 1 /\ DOMAIN queue' = 1..(Len(queue) + 1)
      /\ \A k \in 1..Len(queue) : queue'[k] = queue[k]
      /\ queue'[Len(queue) + 1] = r
  BY <1>1
<1>3. \A k \in DOMAIN queue : queue[k] # r
  BY DEF QueueHoldsWaiters
<1>4. \A k, l \in DOMAIN queue' : k # l => queue'[k] # queue'[l]
  <2> SUFFICES ASSUME NEW k \in DOMAIN queue', NEW l \in DOMAIN queue', k # l
               PROVE  queue'[k] # queue'[l]
    OBVIOUS
  <2>1. CASE k \in 1..Len(queue) /\ l \in 1..Len(queue)
    BY <1>1, <1>2, <2>1 DEF QueueHoldsWaiters
  <2>2. CASE k = Len(queue) + 1 /\ l \in 1..Len(queue)
    BY <1>1, <1>2, <1>3, <2>2
  <2>3. CASE l = Len(queue) + 1 /\ k \in 1..Len(queue)
    BY <1>1, <1>2, <1>3, <2>3
  <2>4. QED
    BY <1>1, <1>2, <2>1, <2>2, <2>3
<1>5. ASSUME NEW s \in Request
      PROVE  status'[s] = "queued" <=> \E k \in DOMAIN queue' : queue'[k] = s
  <2>1. CASE s = r
    <3>1. Len(queue) + 1 \in DOMAIN queue'
      BY <1>1, <1>2
    <3>2. QED
      BY <1>1, <1>2, <2>1, <3>1
  <2>2. CASE s # r
    <3>1. status'[s] = status[s]
      BY <1>1, <2>2
    <3>2. (\E k \in DOMAIN queue : queue[k] = s) <=> (\E k \in DOMAIN queue' : queue'[k] = s)
      <4>1. ASSUME NEW k \in DOMAIN queue, queue[k] = s
            PROVE  \E l \in DOMAIN queue' : queue'[l] = s
        <5>1. k \in DOMAIN queue' /\ queue'[k] = s
          BY <1>1, <1>2, <4>1
        <5>2. QED
          BY <5>1
      <4>2. ASSUME NEW k \in DOMAIN queue', queue'[k] = s
            PROVE  \E l \in DOMAIN queue : queue[l] = s
        <5>1. k \in DOMAIN queue /\ queue[k] = s
          BY <1>1, <1>2, <2>2, <4>2
        <5>2. QED
          BY <5>1
      <4>3. QED
        BY <4>1, <4>2
    <3>3. QED
      BY <3>1, <3>2 DEF QueueHoldsWaiters
  <2>3. QED
    BY <2>1, <2>2
<1>6. Len(queue') <= maxQueue
  BY <1>1, <1>2, PoolAssumption
<1>7. QED
  BY <1>4, <1>5, <1>6 DEF QueueHoldsWaiters

\* A waiter leaves the queue from any position.
LEMMA WaiterEvicted ==
  ASSUME TypeOK, QueueHoldsWaiters, NEW r \in Request, NEW code \in ErrorCode, evict(r, code)
  PROVE  QueueHoldsWaiters' /\ status[r] = "queued" /\ queue # <<>>
<1>1. PICK k \in DOMAIN queue : queue[k] = r /\ queue' = RemoveAt(queue, k)
  BY DEF evict
<1>2. /\ queue \in Seq(Request) /\ Len(queue) \in Nat
      /\ DOMAIN queue = 1..Len(queue) /\ status \in [Request -> Status]
      /\ status' = [status EXCEPT ![r] = code] /\ code # "queued"
  BY SMTT(30) DEF TypeOK, evict, Reject, ErrorCode
<1>3. /\ queue' \in Seq(Request) /\ Len(queue') = Len(queue) - 1
      /\ \A i \in 1..(Len(queue) - 1) : queue'[i] = IF i < k THEN queue[i] ELSE queue[i + 1]
  BY <1>1, <1>2, RemoveAtEffect
<1>4. DOMAIN queue' = 1..(Len(queue) - 1)
  BY <1>2, <1>3
<1> DEFINE old(i) == IF i < k THEN i ELSE i + 1
<1>5. \A i \in DOMAIN queue' : old(i) \in DOMAIN queue /\ old(i) # k /\ queue'[i] = queue[old(i)]
  BY <1>1, <1>2, <1>3, <1>4
<1>6. \A i, j \in DOMAIN queue' : i # j => old(i) # old(j)
  BY <1>1, <1>2, <1>4
<1>7. \A j \in DOMAIN queue : j # k => \E i \in DOMAIN queue' : old(i) = j
  <2> TAKE j \in DOMAIN queue
  <2> HAVE j # k
  <2>1. CASE j < k
    <3>1. j \in DOMAIN queue' /\ old(j) = j
      BY <1>1, <1>2, <1>4, <2>1
    <3>2. QED
      BY <3>1
  <2>2. CASE j > k
    <3>1. j - 1 \in DOMAIN queue' /\ old(j - 1) = j
      BY <1>1, <1>2, <1>4, <2>2
    <3>2. QED
      BY <3>1
  <2>3. QED
    BY <1>1, <1>2, <2>1, <2>2
<1> HIDE DEF old
<1>8. \A i, j \in DOMAIN queue' : i # j => queue'[i] # queue'[j]
  BY <1>5, <1>6 DEF QueueHoldsWaiters
<1>9. ASSUME NEW s \in Request
      PROVE  status'[s] = "queued" <=> \E i \in DOMAIN queue' : queue'[i] = s
  <2>1. CASE s = r
    <3>1. status'[s] # "queued"
      BY <1>2, <2>1
    <3>2. \A i \in DOMAIN queue' : queue'[i] # s
      BY <1>1, <1>5, <2>1 DEF QueueHoldsWaiters
    <3>3. QED
      BY <3>1, <3>2
  <2>2. CASE s # r
    <3>1. status'[s] = status[s]
      BY <1>2, <2>2
    <3>2. (\E j \in DOMAIN queue : queue[j] = s) <=> (\E i \in DOMAIN queue' : queue'[i] = s)
      BY <1>1, <1>5, <1>7, <2>2
    <3>3. QED
      BY <3>1, <3>2 DEF QueueHoldsWaiters
  <2>3. QED
    BY <2>1, <2>2
<1>10. Len(queue') <= maxQueue
  BY <1>2, <1>3, PoolAssumption DEF QueueHoldsWaiters
<1>11. QED
  BY <1>1, <1>2, <1>8, <1>9, <1>10 DEF QueueHoldsWaiters

-------------------------------------------------------------------------------
(* The invariant of the pool. *)

PoolInv ==
  /\ TypeOK
  /\ WeightConserved
  /\ QueueHoldsWaiters
  /\ NoLostWakeup

\* A pool in which a permit that is within the capacity does not fit has one out.
LEMMA FullPoolHasHolder ==
  ASSUME TypeOK, WeightConserved, NEW r, weight(r) <= capacity, ~ Fits(r)
  PROVE  Active # {}
<1>1. ASSUME Active = {} PROVE FALSE
  <2>1. Cardinality(Active) = 0 /\ Cardinality(Active \cap Heavy) = 0
    BY <1>1, ActiveFinite, FS_EmptySet
  <2>2. activeWeight = 0
    BY <2>1 DEF WeightConserved
  <2>3. QED
    BY <2>2 DEF Fits, TypeOK, weight
<1>2. QED
  BY <1>1

\* The invariant of the pool holds at first.
LEMMA PoolInvInit == Init => PoolInv
<1> SUFFICES ASSUME Init PROVE PoolInv
  OBVIOUS
<1>1. TypeOK
  BY InitType
<1>2. Active = {} /\ Active \cap Heavy = {}
  BY DEF Init, Active
<1>3. WeightConserved
  BY <1>2, FS_EmptySet DEF Init, WeightConserved
<1>4. queue = <<>> /\ DOMAIN queue = {} /\ Len(queue) = 0 /\ status = [r \in Request |-> "new"]
  BY DEF Init
<1>5. QueueHoldsWaiters /\ NoLostWakeup
  BY <1>4, PoolAssumption DEF QueueHoldsWaiters, NoLostWakeup
<1>6. QED
  BY <1>1, <1>3, <1>5 DEF PoolInv

\* A request is granted or refused at once, or queued where a waiter is or it does not fit.
LEMMA AcquireKeeps ==
  ASSUME PoolInv, NEW r \in Request, acquire(r)
  PROVE  WeightConserved' /\ QueueHoldsWaiters' /\ NoLostWakeup'
<1>1. /\ TypeOK /\ WeightConserved /\ QueueHoldsWaiters /\ NoLostWakeup
      /\ ~ granting /\ status[r] = "new" /\ status \in [Request -> Status]
  BY DEF PoolInv, TypeOK, acquire
<1>2. CASE queue' = queue /\ \E code \in ErrorCode : Reject(r, code)
  <2>1. activeWeight' = activeWeight
    BY <1>2 DEF Reject
  <2>2. PICK code \in ErrorCode : status' = [status EXCEPT ![r] = code]
    BY <1>2 DEF Reject
  <2>3. code # "active" /\ code # "queued"
    BY DEF ErrorCode
  <2>4. \A s \in Request : status'[s] = "active" <=> status[s] = "active"
    BY <1>1, <2>2, <2>3
  <2>5. \A s \in Request : status'[s] = "queued" <=> status[s] = "queued"
    BY <1>1, <2>2, <2>3
  <2>6. WeightConserved' /\ Active' = Active
    BY <1>1, <2>1, <2>4, OthersConserve
  <2>7. QueueHoldsWaiters'
    BY <1>1, <1>2, <2>5 DEF QueueHoldsWaiters
  <2>8. NoLostWakeup'
    BY <1>1, <1>2, <2>6 DEF NoLostWakeup, acquire
  <2>9. QED
    BY <2>6, <2>7, <2>8
<1>3. CASE queue' = queue /\ grant(r)
  <2>1. WeightConserved' /\ r \in Active'
    BY <1>1, <1>3, GrantConserves DEF grant
  <2>2. \A s \in Request : status'[s] = "queued" <=> status[s] = "queued"
    BY <1>1, <1>3 DEF grant
  <2>3. QueueHoldsWaiters'
    BY <1>1, <1>3, <2>2 DEF QueueHoldsWaiters
  <2>4. NoLostWakeup'
    BY <2>1 DEF NoLostWakeup
  <2>5. QED
    BY <2>1, <2>3, <2>4
<1>4. CASE /\ weight(r) <= capacity /\ ~ (queue = <<>> /\ Fits(r)) /\ ~ (Len(queue) >= maxQueue)
           /\ status' = [status EXCEPT ![r] = "queued"]
           /\ queue' = Append(queue, r) /\ activeWeight' = activeWeight
  <2>1. QueueHoldsWaiters'
    BY <1>1, <1>4, RequestJoins
  <2>2. \A s \in Request : status'[s] = "active" <=> status[s] = "active"
    BY <1>1, <1>4
  <2>3. WeightConserved' /\ Active' = Active
    BY <1>1, <1>4, <2>2, OthersConserve
  <2>4. Active # {}
    <3>1. CASE queue = <<>>
      BY <1>1, <1>4, <3>1, FullPoolHasHolder
    <3>2. CASE queue # <<>>
      BY <1>1, <3>2 DEF NoLostWakeup
    <3>3. QED
      BY <3>1, <3>2
  <2>5. QED
    BY <2>1, <2>3, <2>4 DEF NoLostWakeup
<1>5. QED
  BY <1>2, <1>3, <1>4 DEF acquire, Reject, ErrorCode

\* One iteration of grantWhilePossible grants or rejects the head and no other waiter.
LEMMA GrantHeadKeeps ==
  ASSUME PoolInv, GrantHead
  PROVE  WeightConserved' /\ QueueHoldsWaiters' /\ NoLostWakeup'
<1>1. /\ TypeOK /\ WeightConserved /\ QueueHoldsWaiters
      /\ granting /\ granting' = granting /\ queue # <<>> /\ queue' = Tail(queue)
      /\ status \in [Request -> Status] /\ queue \in Seq(Request)
  BY DEF PoolInv, TypeOK, GrantHead
<1>2. Head(queue) \in Request /\ status[Head(queue)] = "queued"
  <2>1. Head(queue) = queue[1] /\ 1 \in DOMAIN queue /\ queue[1] \in Request
    BY <1>1
  <2>2. QED
    BY <1>1, <2>1 DEF QueueHoldsWaiters
<1>3. NoLostWakeup'
  BY <1>1 DEF NoLostWakeup
<1>4. CASE Reject(Head(queue), "over_capacity_weight")
  <2>1. QueueHoldsWaiters'
    BY <1>1, <1>4, HeadLeaves DEF Reject, Status, ErrorCode
  <2>2. \A s \in Request : status'[s] = "active" <=> status[s] = "active"
    BY <1>1, <1>2, <1>4 DEF Reject
  <2>3. WeightConserved'
    BY <1>1, <1>4, <2>2, OthersConserve DEF Reject
  <2>4. QED
    BY <1>3, <2>1, <2>3
<1>5. CASE grant(Head(queue))
  <2>1. QueueHoldsWaiters'
    BY <1>1, <1>5, HeadLeaves DEF grant, Status
  <2>2. WeightConserved'
    BY <1>1, <1>2, <1>5, GrantConserves DEF grant
  <2>3. QED
    BY <1>3, <2>1, <2>2
<1>6. QED
  BY <1>4, <1>5 DEF GrantHead

\* An eviction takes one waiter off the queue and no other.
LEMMA EvictKeeps ==
  ASSUME PoolInv, NEW r \in Request, NEW code \in {"timeout", "aborted"}, evict(r, code)
  PROVE  WeightConserved' /\ QueueHoldsWaiters' /\ NoLostWakeup'
<1>1. TypeOK /\ WeightConserved /\ QueueHoldsWaiters /\ NoLostWakeup /\ code \in ErrorCode
  BY DEF PoolInv, ErrorCode
<1>2. QueueHoldsWaiters' /\ status[r] = "queued" /\ queue # <<>>
  BY <1>1, WaiterEvicted
<1>3. /\ ~ granting /\ status' = [status EXCEPT ![r] = code] /\ activeWeight' = activeWeight
      /\ status \in [Request -> Status]
  BY <1>1 DEF evict, Reject, TypeOK
<1>4. \A s \in Request : status'[s] = "active" <=> status[s] = "active"
  BY <1>2, <1>3 DEF ErrorCode
<1>5. WeightConserved' /\ Active' = Active
  BY <1>1, <1>3, <1>4, OthersConserve
<1>6. NoLostWakeup'
  BY <1>1, <1>2, <1>3, <1>5 DEF NoLostWakeup
<1>7. QED
  BY <1>2, <1>5, <1>6

\* Every step keeps the invariant of the pool.
LEMMA PoolInvNext == PoolInv /\ [Next]_vars => PoolInv'
<1> SUFFICES ASSUME PoolInv, [Next]_vars PROVE PoolInv'
  OBVIOUS
<1>1. TypeOK'
  BY NextType DEF PoolInv
<1>2. TypeOK /\ WeightConserved /\ QueueHoldsWaiters /\ NoLostWakeup
      /\ status \in [Request -> Status]
  BY DEF PoolInv, TypeOK
<1>3. CASE GrantHead
  BY <1>1, <1>3, GrantHeadKeeps DEF PoolInv
<1>4. CASE EndGranting
  <2>1. UNCHANGED <<activeWeight, queue, status, capacity>>
    BY <1>4 DEF EndGranting
  <2>2. WeightConserved' /\ Active' = Active /\ QueueHoldsWaiters'
    BY <1>2, <2>1 DEF WeightConserved, Active, QueueHoldsWaiters
  <2>3. queue # <<>> => Active # {}
    BY <1>2, <1>4, FullPoolHasHolder DEF EndGranting
  <2>4. NoLostWakeup'
    BY <2>1, <2>2, <2>3 DEF NoLostWakeup
  <2>5. QED
    BY <1>1, <2>2, <2>4 DEF PoolInv
<1>5. ASSUME NEW r \in Request, acquire(r) PROVE PoolInv'
  BY <1>1, <1>5, AcquireKeeps DEF PoolInv
<1>6. ASSUME NEW r \in Request, release(r) PROVE PoolInv'
  <2>1. WeightConserved'
    BY <1>2, <1>6, ReleaseConserves
  <2>2. /\ queue' = queue /\ granting'
        /\ \A s \in Request : status'[s] = "queued" <=> status[s] = "queued"
    BY <1>2, <1>6 DEF release
  <2>3. QueueHoldsWaiters'
    BY <1>2, <2>2 DEF QueueHoldsWaiters
  <2>4. NoLostWakeup'
    BY <2>2 DEF NoLostWakeup
  <2>5. QED
    BY <1>1, <2>1, <2>3, <2>4 DEF PoolInv
<1>7. ASSUME NEW r \in Request, releaseAgain(r) PROVE PoolInv'
  BY <1>1, <1>2, <1>7 DEF releaseAgain, PoolInv, WeightConserved, Active, QueueHoldsWaiters, NoLostWakeup
<1>8. ASSUME NEW r \in Request, NEW code \in {"timeout", "aborted"}, evict(r, code) PROVE PoolInv'
  BY <1>1, <1>8, EvictKeeps DEF PoolInv
<1>9. ASSUME NEW c \in Capacities, setCapacity(c) PROVE PoolInv'
  BY <1>1, <1>2, <1>9 DEF setCapacity, PoolInv, WeightConserved, Active, QueueHoldsWaiters, NoLostWakeup
<1>10. CASE UNCHANGED vars
  BY <1>1, <1>2, <1>10 DEF vars, PoolInv, WeightConserved, Active, QueueHoldsWaiters, NoLostWakeup
<1>11. QED
  BY <1>3, <1>4, <1>5, <1>6, <1>7, <1>8, <1>9, <1>10 DEF Next

\* The invariant of the pool holds in every state.
LEMMA PoolInvHolds == Spec => []PoolInv
BY PoolInvInit, PoolInvNext, PTL DEF Spec

\* The counter of the pool is the weight of the permits that are out, whatever
\* the order of grants, releases, evictions and capacity changes.
THEOREM WeightIsConserved == Spec => []WeightConserved
BY PoolInvHolds, PTL DEF PoolInv

\* Nobody waits in an idle pool, although an eviction does not look at the queue.
THEOREM WakeupsAreNotLost == Spec => []NoLostWakeup
BY PoolInvHolds, PTL DEF PoolInv

\* The queue holds the waiting requests, each once, within the cap.
THEOREM QueueIsFaithful == Spec => []QueueHoldsWaiters
BY PoolInvHolds, PTL DEF PoolInv

\* A permit is granted only within the capacity of that moment.
THEOREM CapacityIsRespected == Spec => GrantsWithinCapacity
<1>1. TypeOK /\ [Next]_vars => (activeWeight' > activeWeight
                               => activeWeight' <= capacity /\ capacity' = capacity)
  <2> SUFFICES ASSUME TypeOK, [Next]_vars, activeWeight' > activeWeight
               PROVE  activeWeight' <= capacity /\ capacity' = capacity
    OBVIOUS
  <2>1. activeWeight \in Nat
    BY DEF TypeOK
  <2>2. CASE GrantHead
    BY <2>1, <2>2 DEF GrantHead, Reject, grant, Fits
  <2>3. ASSUME NEW r \in Request, acquire(r)
        PROVE  activeWeight' <= capacity /\ capacity' = capacity
    BY <2>1, <2>3 DEF acquire, Reject, grant, Fits
  <2>4. ASSUME NEW r \in Request, release(r) PROVE FALSE
    <3>1. weight(r) \in Nat
      BY DEF weight
    <3>2. QED
      BY <2>1, <2>4, <3>1 DEF release
  <2>5. ASSUME activeWeight' = activeWeight PROVE FALSE
    BY <2>1, <2>5
  <2>6. QED
    BY <2>2, <2>3, <2>4, <2>5
       DEF Next, EndGranting, releaseAgain, evict, Reject, setCapacity, vars
<1>2. QED
  BY <1>1, PoolInvHolds, PTL DEF Spec, PoolInv, GrantsWithinCapacity

\* First in, first out: a waiter is granted only from the head of the queue, and the
\* fast path of acquire is taken only while nobody waits.
THEOREM NobodyOvertakes == Spec => NoOvertaking
<1>1. ASSUME PoolInv, [Next]_vars, NEW r \in Request, NEW s \in Request,
             status[s] # "active", status'[s] = "active",
             status[r] = "queued", status'[r] = "queued"
      PROVE  \E k, l \in DOMAIN queue : k < l /\ queue[k] = s /\ queue[l] = r
  <2>1. status \in [Request -> Status] /\ queue \in Seq(Request) /\ r # s
    BY <1>1 DEF PoolInv, TypeOK
  <2>2. PICK l \in DOMAIN queue : queue[l] = r
    BY <1>1 DEF PoolInv, QueueHoldsWaiters
  <2>3. queue # <<>>
    BY <2>1, <2>2
  <2>4. CASE GrantHead
    <3>1. s = Head(queue)
      BY <1>1, <2>1, <2>4 DEF GrantHead, Reject, grant
    <3>2. 1 \in DOMAIN queue /\ queue[1] = s /\ l \in Nat \ {0}
      BY <2>1, <2>2, <2>3, <3>1
    <3>3. l # 1
      BY <2>1, <2>2, <3>2
    <3>4. QED
      BY <2>2, <3>2, <3>3
  <2>5. ASSUME NEW q \in Request, acquire(q) PROVE FALSE
    BY <1>1, <2>1, <2>3, <2>5 DEF acquire, Reject, grant
  <2>6. ASSUME NEW q \in Request, release(q) PROVE FALSE
    BY <1>1, <2>1, <2>6 DEF release
  <2>7. ASSUME NEW q \in Request, NEW code \in {"timeout", "aborted"}, evict(q, code) PROVE FALSE
    BY <1>1, <2>1, <2>7 DEF evict, Reject
  <2>8. status' # status
    BY <1>1
  <2>9. QED
    BY <1>1, <2>4, <2>5, <2>6, <2>7, <2>8 DEF Next, EndGranting, releaseAgain, setCapacity, vars
<1>2. PoolInv /\ [Next]_vars =>
        \A r, s \in Request :
          /\ status[s] # "active" /\ status'[s] = "active"
          /\ status[r] = "queued" /\ status'[r] = "queued"
          => \E k, l \in DOMAIN queue : k < l /\ queue[k] = s /\ queue[l] = r
  BY <1>1
<1>3. QED
  BY <1>2, PoolInvHolds, PTL DEF Spec, NoOvertaking

\* Between two calls a head that fits is left waiting only by an eviction, which takes
\* the waiters before it away and does not look at the queue again: all other methods
\* end with grantWhilePossible or leave the head and what it waits for alone.
OnlyEvictionStrands ==
  [][HeadDoesNotFit /\ ~ HeadDoesNotFit' =>
       \E r \in Request, code \in {"timeout", "aborted"} : evict(r, code)]_vars

\* What the comment of grantWhilePossible says holds but for evictions.
THEOREM EvictionAloneStrands == Spec => OnlyEvictionStrands
<1>1. ASSUME TypeOK, [Next]_vars, HeadDoesNotFit,
             ~ \E r \in Request, code \in {"timeout", "aborted"} : evict(r, code)
      PROVE  HeadDoesNotFit'
  <2>1. CASE granting'
    BY <2>1 DEF HeadDoesNotFit
  <2>2. CASE UNCHANGED <<granting, queue, activeWeight, capacity>>
    BY <1>1, <2>2 DEF HeadDoesNotFit, Fits
  <2>3. CASE EndGranting
    BY <2>3 DEF EndGranting, HeadDoesNotFit, Fits
  <2>4. ASSUME NEW r \in Request, acquire(r) PROVE HeadDoesNotFit'
    <3>1. CASE queue = <<>> /\ Fits(r) /\ grant(r) /\ UNCHANGED queue
      BY <3>1 DEF HeadDoesNotFit
    <3>2. CASE \E code : Reject(r, code) /\ UNCHANGED queue
      BY <1>1, <2>2, <2>4, <3>2 DEF acquire, Reject
    <3>3. CASE /\ ~ (queue = <<>> /\ Fits(r)) /\ queue' = Append(queue, r)
               /\ UNCHANGED <<granting, activeWeight, capacity>>
      <4>1. queue \in Seq(Request)
        BY <1>1 DEF TypeOK
      <4>2. Head(queue') = IF queue = <<>> THEN r ELSE Head(queue)
        BY <3>3, <4>1
      <4>3. ~ granting => ~ Fits(Head(queue'))
        BY <1>1, <3>3, <4>2 DEF HeadDoesNotFit
      <4>4. QED
        BY <3>3, <4>3 DEF HeadDoesNotFit, Fits
    <3>4. QED
      BY <2>4, <3>1, <3>2, <3>3 DEF acquire
  <2>5. QED
    BY <1>1, <2>1, <2>2, <2>3, <2>4
       DEF Next, GrantHead, release, releaseAgain, setCapacity, vars
<1>2. TypeOK /\ [Next]_vars =>
        (HeadDoesNotFit /\ ~ HeadDoesNotFit' =>
           \E r \in Request, code \in {"timeout", "aborted"} : evict(r, code))
  BY <1>1
<1>3. QED
  BY <1>2, PoolTypeCorrect, PTL DEF Spec, OnlyEvictionStrands

===============================================================================
