-------------------------- MODULE WorkloadPermitPool --------------------------
(***************************************************************************)
(* The permit pool that bounds concurrent heavy subprocesses of a session  *)
(* and its subagents (packages/coding-agent/src/core/workload-permit-pool).*)
(*                                                                         *)
(* The methods of the pool are synchronous.  grantWhilePossible is a loop; *)
(* each iteration is a step here, and while it runs (granting) nothing     *)
(* else does.                                                              *)
(***************************************************************************)
EXTENDS Integers, Sequences, FiniteSets, SequencesExt

CONSTANTS
  Request,         \* requests; each calls acquire once
  Heavy,           \* requests of weight 2, the others have weight 1
  Capacities,      \* arguments of setCapacity; 0 stands for an invalid one
  maxQueue,        \* hard cap of the queue
  MaxDouble        \* bound: repeated releases that are counted

ASSUME PoolAssumption ==
  /\ IsFiniteSet(Request)
  /\ Heavy \subseteq Request
  /\ Capacities \subseteq Nat
  /\ maxQueue \in Nat \ {0}
  /\ MaxDouble \in Nat

VARIABLES
  capacity,
  activeWeight,
  queue,           \* waiters, first in first out
  status,          \* what each request has come to
  doubleReleases,
  granting         \* grantWhilePossible is running

vars == <<capacity, activeWeight, queue, status, doubleReleases, granting>>

ErrorCode == {"queue_overflow", "timeout", "aborted", "over_capacity_weight"}

Status == {"new", "queued", "active", "released"} \cup ErrorCode

weight(r) == IF r \in Heavy THEN 2 ELSE 1

-------------------------------------------------------------------------------

Reject(r, code) ==
  /\ status' = [status EXCEPT ![r] = code]
  /\ UNCHANGED <<capacity, activeWeight, doubleReleases>>

grant(r) ==
  /\ status' = [status EXCEPT ![r] = "active"]
  /\ activeWeight' = activeWeight + weight(r)
  /\ UNCHANGED <<capacity, doubleReleases>>

Fits(r) == activeWeight + weight(r) <= capacity

\* Seeded fault: a request that fits is granted past the waiters.
acquirePastQueue(r) ==
  /\ ~ granting /\ status[r] = "new"
  /\ IF weight(r) > capacity
     THEN Reject(r, "over_capacity_weight") /\ UNCHANGED queue
     ELSE IF Fits(r)
          THEN grant(r) /\ UNCHANGED queue
          ELSE /\ status' = [status EXCEPT ![r] = "queued"]
               /\ queue' = Append(queue, r)
               /\ UNCHANGED <<capacity, activeWeight, doubleReleases>>
  /\ UNCHANGED granting

\* acquire, with a signal that may be aborted already.
acquire(r) ==
  /\ ~ granting /\ status[r] = "new"
  /\ \/ /\ weight(r) > capacity
        /\ Reject(r, "over_capacity_weight") /\ UNCHANGED queue
     \/ /\ weight(r) <= capacity
        /\ Reject(r, "aborted") /\ UNCHANGED queue
     \/ /\ weight(r) <= capacity /\ queue = <<>> /\ Fits(r)
        /\ grant(r) /\ UNCHANGED queue
     \/ /\ weight(r) <= capacity /\ ~ (queue = <<>> /\ Fits(r))
        /\ IF Len(queue) >= maxQueue
           THEN Reject(r, "queue_overflow") /\ UNCHANGED queue
           ELSE /\ status' = [status EXCEPT ![r] = "queued"]
                /\ queue' = Append(queue, r)
                /\ UNCHANGED <<capacity, activeWeight, doubleReleases>>
  /\ UNCHANGED granting

\* Seeded fault: the weight of the head is left out of the comparison.
GrantHeadAnyWeight ==
  /\ granting /\ queue # <<>>
  /\ \/ weight(Head(queue)) > capacity /\ Reject(Head(queue), "over_capacity_weight")
     \/ weight(Head(queue)) <= capacity /\ activeWeight < capacity /\ grant(Head(queue))
  /\ queue' = Tail(queue)
  /\ UNCHANGED granting

\* Seeded fault: a head that became too heavy is not rejected.
GrantHeadKeepsHeavy ==
  /\ granting /\ queue # <<>>
  /\ Fits(Head(queue)) /\ grant(Head(queue))
  /\ queue' = Tail(queue)
  /\ UNCHANGED granting

\* One iteration of grantWhilePossible.
GrantHead ==
  /\ granting /\ queue # <<>>
  /\ \/ weight(Head(queue)) > capacity /\ Reject(Head(queue), "over_capacity_weight")
     \/ weight(Head(queue)) <= capacity /\ Fits(Head(queue)) /\ grant(Head(queue))
  /\ queue' = Tail(queue)
  /\ UNCHANGED granting

EndGranting ==
  /\ granting
  /\ queue # <<>> => weight(Head(queue)) <= capacity /\ ~ Fits(Head(queue))
  /\ granting' = FALSE
  /\ UNCHANGED <<capacity, activeWeight, queue, status, doubleReleases>>

\* Seeded fault: nobody looks at the queue after a release.
releaseQuietly(r) ==
  /\ ~ granting /\ status[r] = "active"
  /\ status' = [status EXCEPT ![r] = "released"]
  /\ activeWeight' = IF activeWeight >= weight(r) THEN activeWeight - weight(r) ELSE 0
  /\ UNCHANGED <<capacity, queue, doubleReleases, granting>>

release(r) ==
  /\ ~ granting /\ status[r] = "active"
  /\ status' = [status EXCEPT ![r] = "released"]
  /\ activeWeight' = IF activeWeight >= weight(r) THEN activeWeight - weight(r) ELSE 0
  /\ granting' = TRUE
  /\ UNCHANGED <<capacity, queue, doubleReleases>>

\* Seeded fault: a repeated release returns the weight again.
releaseTwice(r) ==
  /\ ~ granting /\ status[r] = "released"
  /\ doubleReleases < MaxDouble
  /\ doubleReleases' = doubleReleases + 1
  /\ activeWeight' = IF activeWeight >= weight(r) THEN activeWeight - weight(r) ELSE 0
  /\ UNCHANGED <<capacity, queue, status, granting>>

\* A permit released before: a diagnostic, and no weight is returned.
releaseAgain(r) ==
  /\ ~ granting /\ status[r] = "released"
  /\ doubleReleases < MaxDouble
  /\ doubleReleases' = doubleReleases + 1
  /\ UNCHANGED <<capacity, activeWeight, queue, status, granting>>

\* Seeded fault: an invalid capacity is taken over.
setAnyCapacity(c) ==
  /\ ~ granting
  /\ capacity' = c
  /\ granting' = TRUE
  /\ UNCHANGED <<activeWeight, queue, status, doubleReleases>>

setCapacity(c) ==
  /\ ~ granting
  /\ capacity' = IF c < 1 THEN capacity ELSE c
  /\ granting' = TRUE
  /\ UNCHANGED <<activeWeight, queue, status, doubleReleases>>

\* Seeded fault: an evicted waiter stays in the queue.
evictInPlace(r, code) ==
  /\ ~ granting
  /\ \E k \in DOMAIN queue : queue[k] = r
  /\ Reject(r, code)
  /\ UNCHANGED <<queue, granting>>

\* The timer or the abort listener of a waiter; both are gone once it has left
\* the queue.
evict(r, code) ==
  /\ ~ granting
  /\ \E k \in DOMAIN queue : queue[k] = r /\ queue' = RemoveAt(queue, k)
  /\ Reject(r, code)
  /\ UNCHANGED granting

Init ==
  /\ capacity \in Capacities \ {0}
  /\ activeWeight = 0
  /\ queue = <<>>
  /\ status = [r \in Request |-> "new"]
  /\ doubleReleases = 0
  /\ granting = FALSE

Next ==
  \/ GrantHead \/ EndGranting
  \/ \E r \in Request : acquire(r) \/ release(r) \/ releaseAgain(r)
  \/ \E r \in Request, code \in {"timeout", "aborted"} : evict(r, code)
  \/ \E c \in Capacities : setCapacity(c)

\* A holder releases its permit in the end (a finally in every caller); a loop
\* that runs goes on.
Fairness ==
  /\ WF_vars(GrantHead \/ EndGranting)
  /\ \A r \in Request : SF_vars(release(r))

Spec == Init /\ [][Next]_vars

FairSpec == Spec /\ Fairness

-------------------------------------------------------------------------------

Active == {r \in Request : status[r] = "active"}

TypeOK ==
  /\ capacity \in Nat \ {0}
  /\ activeWeight \in Nat
  /\ queue \in Seq(Request)
  /\ status \in [Request -> Status]
  /\ doubleReleases \in 0..MaxDouble
  /\ granting \in BOOLEAN

\* The counter of the pool is the weight of the permits that are out: no
\* sequence of releases, repeated releases, evictions and capacity changes loses
\* or invents weight.
WeightConserved ==
  activeWeight = Cardinality(Active) + Cardinality(Active \cap Heavy)

\* No waiter is left behind in an idle pool: whenever somebody waits there is a
\* permit out whose release will look at the queue again.  evict does not look
\* at the queue, so this is what keeps its waiters from waiting forever.
NoLostWakeup == ~ granting /\ queue # <<>> => Active # {}

\* The queue holds the waiting requests, each once, and never more than the cap.
QueueHoldsWaiters ==
  /\ \A r \in Request : status[r] = "queued" <=> \E k \in DOMAIN queue : queue[k] = r
  /\ \A k, l \in DOMAIN queue : k # l => queue[k] # queue[l]
  /\ Len(queue) <= maxQueue

\* A permit is granted only within the capacity of that moment, also while
\* permits from before a reduction are out.
GrantsWithinCapacity ==
  [][activeWeight' > activeWeight => activeWeight' <= capacity /\ capacity' = capacity]_vars

\* First in, first out: a request is not granted past a waiter that stays.
NoOvertaking ==
  [][\A r, s \in Request :
       /\ status[s] # "active" /\ status'[s] = "active"
       /\ status[r] = "queued" /\ status'[r] = "queued"
       => \E k, l \in DOMAIN queue : k < l /\ queue[k] = s /\ queue[l] = r]_vars

\* "Grant queued waiters strictly in FIFO order while the head fits" (comment of
\* grantWhilePossible): between two calls no head that fits is left waiting.
HeadDoesNotFit == ~ granting /\ queue # <<>> => ~ Fits(Head(queue))

\* Every waiter is granted or rejected in the end, if the holders release.
EveryWaiterSettles == \A r \in Request : status[r] = "queued" ~> status[r] # "queued"

===============================================================================
