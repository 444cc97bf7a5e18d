-------------------------- MODULE SessionWritesProofs --------------------------
(***************************************************************************)
(* Persistence follows acceptance order, for any set of writes and of      *)
(* boundaries: the coordinator implements AcceptanceOrder, and a boundary  *)
(* that resolved has persisted what precedes it.                           *)
(***************************************************************************)
EXTENDS SessionWrites, TLAPS

\* Turns are given once, in the order of acceptance.
TurnsOK ==
  /\ \A w \in Write : turn[w] <= turns
  /\ \A v, w \in Write : turn[v] = turn[w] /\ turn[v] # 0 => v = w
  /\ \A b \in Boundary : accepted[b] <= turns

\* The queue is in the order of acceptance, by number and by turn.
QueueOK ==
  \A k \in 1..Len(pendingWrites) :
    /\ pendingWrites[k].sequence < nextSequence
    /\ turn[pendingWrites[k].write] # 0
    /\ \A j \in 1..Len(pendingWrites) : j < k =>
         /\ pendingWrites[j].sequence < pendingWrites[k].sequence
         /\ turn[pendingWrites[j].write] < turn[pendingWrites[k].write]

\* A watermark tells what was accepted before its boundary.
MarksOK ==
  \A b \in Boundary :
    /\ acceptedThrough[b] < nextSequence
    /\ status[b] = "waiting" => \A k \in 1..Len(pendingWrites) :
         pendingWrites[k].sequence <= acceptedThrough[b] <=>
           turn[pendingWrites[k].write] <= accepted[b]

\* The write of a boundary is accepted with the boundary, and is nobody else's.
DirectOK ==
  \A b \in Boundary : direct[b] # NoWrite =>
    /\ turn[direct[b]] = accepted[b] + 1
    /\ \A c \in Boundary : direct[c] = direct[b] => c = b
    /\ \A k \in 1..Len(pendingWrites) : pendingWrites[k].write # direct[b]

\* The chain holds the waiting boundaries in the order of their calls.
ChainOK ==
  /\ \A b \in Boundary : status[b] = "waiting" <=> \E i \in 1..Len(operations) : operations[i] = b
  /\ \A i, j \in 1..Len(operations) : i < j =>
       operations[i] # operations[j] /\ accepted[operations[i]] <= accepted[operations[j]]

\* The append under way is the one the running boundary owes.
AppendOK ==
  append.state # "none" =>
    /\ operations # <<>>
    /\ LET b == Head(operations) IN
       \/ Due(b, pendingWrites) /\ append.write = Head(pendingWrites).write
       \/ ~ Due(b, pendingWrites) /\ direct[b] # NoWrite /\ append.write = direct[b]
    /\ append.state = "appended" => append.write \in Stored

\* No write that was accepted is forgotten.
KeptOK ==
  \A w \in Write : turn[w] # 0 =>
    \/ w \in Stored
    \/ \E k \in 1..Len(pendingWrites) : pendingWrites[k].write = w
    \/ \E b \in Boundary : direct[b] = w /\ status[b] \in {"waiting", "rejected"}

Item == [sequence : Nat \ {0}, write : Write]

-------------------------------------------------------------------------------
(* Type correctness. *)

\* The types of what a boundary changes.
RunType ==
  /\ operations \in Seq(Boundary)
  /\ status \in [Boundary -> {"new", "waiting", "resolved", "rejected"}]
  /\ append \in [write : Write \cup {NoWrite}, state : {"none", "appending", "appended", "failed"}]
  /\ append.state # "none" => append.write \in Write

\* A boundary that settles keeps the types.
LEMMA SettleTypes ==
  ASSUME TypeOK, NEW b \in Boundary, NEW outcome \in {"resolved", "rejected"},
         Settle(b, outcome), operations # <<>>
  PROVE  RunType'
<1>1. Tail(operations) \in Seq(Boundary)
  BY DEF TypeOK
<1>2. NoAppend \in [write : Write \cup {NoWrite}, state : {"none", "appending", "appended", "failed"}]
        /\ NoAppend.state = "none"
  BY DEF NoAppend
<1>3. QED
  BY <1>1, <1>2 DEF Settle, TypeOK, RunType

\* A boundary that begins an append keeps the types.
LEMMA BeginAppendTypes ==
  ASSUME TypeOK, NEW w \in Write, BeginAppend(w)
  PROVE  RunType'
  BY DEF BeginAppend, TypeOK, RunType

\* A boundary that goes on keeps the types.
LEMMA ContinueTypes ==
  ASSUME TypeOK, NEW b \in Boundary, NEW queue \in Seq(Item), Continue(b, queue),
         operations # <<>>
  PROVE  RunType'
<1>1. CASE Due(b, queue) /\ BeginAppend(Head(queue).write)
  <2>1. queue # <<>>
    BY <1>1 DEF Due
  <2>2. Head(queue) \in Item
    BY <2>1
  <2>3. Head(queue).write \in Write
    BY <2>2 DEF Item
  <2>4. QED
    BY <1>1, <2>3, BeginAppendTypes
<1>2. CASE direct[b] # NoWrite /\ BeginAppend(direct[b])
  <2>1. direct[b] \in Write
    BY <1>2 DEF TypeOK
  <2>2. QED
    BY <1>2, <2>1, BeginAppendTypes
<1>3. CASE Settle(b, "resolved")
  BY <1>3, SettleTypes
<1>4. QED
  BY <1>1, <1>2, <1>3 DEF Continue

\* The first state has the types.
LEMMA InitType == Init => TypeOK
  BY DEF Init, TypeOK, NoAppend

\* Every step keeps the types.
LEMMA NextType == TypeOK /\ AppendOK /\ [Next]_vars => TypeOK'
<1> SUFFICES ASSUME TypeOK, AppendOK, [Next]_vars PROVE TypeOK'
  OBVIOUS
<1> USE DEF TypeOK
<1>1. ASSUME NEW w \in Write, enqueue(w) PROVE TypeOK'
  <2>1. [sequence |-> nextSequence, write |-> w] \in [sequence : Nat \ {0}, write : Write]
    OBVIOUS
  <2>2. pendingWrites' \in Seq([sequence : Nat \ {0}, write : Write])
    BY <1>1, <2>1 DEF enqueue
  <2>3. QED
    BY <1>1, <2>2 DEF enqueue, AcceptNext
<1>2. ASSUME NEW b \in Boundary, flush(b) PROVE TypeOK'
  BY <1>2 DEF flush, serialize
<1>3. ASSUME NEW b \in Boundary, NEW w \in Write, persistAfterPending(b, w) PROVE TypeOK'
  BY <1>3 DEF persistAfterPending, serialize, AcceptNext
<1>4. CASE AppendEnds
  <2>1. append.write \in Write /\ append.state = "appending"
    BY <1>4 DEF AppendEnds
  <2>2. log' \in Seq(Write)
    <3>1. log \in Seq(Write) /\ Append(log, append.write) \in Seq(Write)
      BY <2>1
    <3>2. QED
      BY <1>4, <3>1 DEF AppendEnds
  <2>3. append' = [append EXCEPT !.state = "appended"] \/ append' = [append EXCEPT !.state = "failed"]
    BY <1>4 DEF AppendEnds
  <2>4. QED
    BY <1>4, <2>1, <2>2, <2>3 DEF AppendEnds
<1>5. ASSUME NEW b \in Boundary, Begin(b) PROVE TypeOK'
  <2>1. operations # <<>> /\ Continue(b, pendingWrites)
    BY <1>5 DEF Begin, Running
  <2>2. RunType'
    BY <2>1, ContinueTypes DEF Item
  <2>3. QED
    BY <1>5, <2>2 DEF Begin, RunType
<1>6. ASSUME NEW b \in Boundary, Resume(b) PROVE TypeOK'
  <2>1. operations # <<>> /\ Head(operations) = b /\ append.state = "appended"
    BY <1>6 DEF Resume, Running
  <2>2. RunType' /\ pendingWrites' \in Seq(Item)
    <3>1. CASE append.write = direct[b]
      BY <1>6, <2>1, <3>1, SettleTypes DEF Resume, Item
    <3>2. CASE append.write # direct[b]
      <4>1. Continue(b, Tail(pendingWrites)) /\ pendingWrites' = Tail(pendingWrites)
        BY <1>6, <3>2 DEF Resume
      <4>2. pendingWrites # <<>>
        BY <2>1, <3>2 DEF AppendOK, Due
      <4>3. Tail(pendingWrites) \in Seq(Item)
        BY <4>2 DEF Item
      <4>4. QED
        BY <2>1, <4>1, <4>3, ContinueTypes
    <3>3. QED
      BY <3>1, <3>2
  <2>3. QED
    BY <1>6, <2>2 DEF Resume, RunType, Item
<1>7. ASSUME NEW b \in Boundary, Fail(b) PROVE TypeOK'
  <2>1. RunType'
    BY <1>7, SettleTypes DEF Fail, Running
  <2>2. QED
    BY <1>7, <2>1 DEF Fail, RunType
<1>8. CASE UNCHANGED vars
  BY <1>8 DEF vars
<1>9. QED
  BY <1>1, <1>2, <1>3, <1>4, <1>5, <1>6, <1>7, <1>8 DEF Next

-------------------------------------------------------------------------------
(* The parts of the invariant. *)

\* What the running boundary and the session leave alone.
LEMMA RunnerLeaves ==
  ASSUME \/ AppendEnds
         \/ \E b \in Boundary : Begin(b) \/ Resume(b) \/ Fail(b)
         \/ UNCHANGED vars
  PROVE  UNCHANGED <<nextSequence, acceptedThrough, direct, turn, turns, accepted>>
  BY DEF AppendEnds, Begin, Resume, Fail, vars

\* A write that is accepted gets the next turn.
LEMMA AcceptTurns ==
  ASSUME TypeOK, TurnsOK, NEW w \in Write, AcceptNext(w)
  PROVE  /\ turns' = turns + 1 /\ turn'[w] = turns + 1 /\ turn[w] = 0
         /\ \A v \in Write : v # w => turn'[v] = turn[v]
         /\ \A v \in Write : turn'[v] <= turns'
         /\ \A u, v \in Write : turn'[u] = turn'[v] /\ turn'[u] # 0 => u = v
<1>1. /\ turns' = turns + 1 /\ turn'[w] = turns + 1 /\ turn[w] = 0
      /\ \A v \in Write : v # w => turn'[v] = turn[v]
  BY DEF TypeOK, AcceptNext
<1>2. \A v \in Write : turn[v] <= turns /\ turn[v] \in Nat /\ turns \in Nat
  BY DEF TypeOK, TurnsOK
<1>3. \A v \in Write : v # w => turn'[v] # turn'[w]
  BY <1>1, <1>2
<1>4. QED
  BY <1>1, <1>2, <1>3 DEF TurnsOK

\* The steps of the queue: nothing, a write is accepted, or the head has been stored.
LEMMA QueueSteps ==
  ASSUME AppendOK, [Next]_vars
  PROVE  \/ UNCHANGED <<pendingWrites, nextSequence>>
         \/ \E w \in Write : enqueue(w)
         \/ /\ pendingWrites # <<>> /\ append.state = "appended"
            /\ append.write = Head(pendingWrites).write
            /\ pendingWrites' = Tail(pendingWrites)
            /\ UNCHANGED <<nextSequence, acceptedThrough, direct, log, turn, turns, accepted>>
<1>1. ASSUME NEW b \in Boundary, Resume(b), append.write # direct[b]
      PROVE  /\ pendingWrites # <<>> /\ append.state = "appended"
             /\ append.write = Head(pendingWrites).write
             /\ pendingWrites' = Tail(pendingWrites)
             /\ UNCHANGED <<nextSequence, acceptedThrough, direct, log, turn, turns, accepted>>
  BY <1>1 DEF Resume, Running, AppendOK, Due
<1>2. ASSUME NEW b \in Boundary, Resume(b), append.write = direct[b]
      PROVE  UNCHANGED <<pendingWrites, nextSequence>>
  BY <1>2 DEF Resume
<1>3. QED
  BY <1>1, <1>2 DEF Next, vars, persistAfterPending, flush, serialize, Begin, Fail, AppendEnds

\* The steps of the chain: nothing, a boundary is reserved, or the running one settles.
LEMMA ChainSteps ==
  ASSUME [Next]_vars
  PROVE  \/ UNCHANGED <<status, operations, acceptedThrough, direct, accepted>>
         \/ \E b \in Boundary : flush(b)
         \/ \E b \in Boundary, w \in Write : persistAfterPending(b, w)
         \/ /\ UNCHANGED <<acceptedThrough, direct, accepted, turn, turns, nextSequence>>
            /\ \E b \in Boundary, outcome \in {"resolved", "rejected"} :
                 Running(b) /\ Settle(b, outcome)
<1>1. ASSUME NEW b \in Boundary, Begin(b)
      PROVE  \/ UNCHANGED <<status, operations, acceptedThrough, direct, accepted>>
             \/ /\ UNCHANGED <<acceptedThrough, direct, accepted, turn, turns, nextSequence>>
                /\ Running(b) /\ Settle(b, "resolved")
  BY <1>1 DEF Begin, Continue, BeginAppend
<1>2. ASSUME NEW b \in Boundary, Resume(b)
      PROVE  \/ UNCHANGED <<status, operations, acceptedThrough, direct, accepted>>
             \/ /\ UNCHANGED <<acceptedThrough, direct, accepted, turn, turns, nextSequence>>
                /\ Running(b) /\ Settle(b, "resolved")
  BY <1>2 DEF Resume, Continue, BeginAppend
<1>3. ASSUME NEW b \in Boundary, Fail(b)
      PROVE  /\ UNCHANGED <<acceptedThrough, direct, accepted, turn, turns, nextSequence>>
             /\ Running(b) /\ Settle(b, "rejected")
  BY <1>3 DEF Fail
<1>4. CASE \/ AppendEnds \/ UNCHANGED vars \/ \E w \in Write : enqueue(w)
  BY <1>4 DEF AppendEnds, vars, enqueue
<1>5. CASE \E b \in Boundary : Begin(b) \/ Resume(b) \/ Fail(b)
  BY <1>1, <1>2, <1>3, <1>5
<1>6. QED
  BY <1>4, <1>5 DEF Next

\* What the queue consists of.
LEMMA QueueType ==
  ASSUME TypeOK
  PROVE  /\ pendingWrites \in Seq(Item) /\ Len(pendingWrites) \in Nat
         /\ \A k \in 1..Len(pendingWrites) :
              /\ pendingWrites[k] \in Item
              /\ pendingWrites[k].sequence \in Nat /\ pendingWrites[k].write \in Write
<1>1. pendingWrites \in Seq(Item)
  BY DEF TypeOK, Item
<1>2. Len(pendingWrites) \in Nat /\ \A k \in 1..Len(pendingWrites) : pendingWrites[k] \in Item
  BY <1>1
<1>3. \A x \in Item : x.sequence \in Nat /\ x.write \in Write
  BY DEF Item
<1>4. QED
  BY <1>1, <1>2, <1>3

\* Turns stay as they were given.
LEMMA NextTurns ==
  ASSUME TypeOK, TurnsOK, [Next]_vars
  PROVE  TurnsOK' /\ \A w \in Write : turn[w] # 0 => turn'[w] = turn[w]
<1>1. ASSUME NEW w \in Write, enqueue(w)
      PROVE  TurnsOK' /\ \A v \in Write : turn[v] # 0 => turn'[v] = turn[v]
  <2>1. AcceptNext(w) /\ accepted' = accepted
    BY <1>1 DEF enqueue
  <2>2. \A b \in Boundary : accepted[b] <= turns /\ accepted[b] \in Nat /\ turns \in Nat
    BY DEF TurnsOK, TypeOK
  <2>3. QED
    BY <2>1, <2>2, AcceptTurns DEF TurnsOK
<1>2. ASSUME NEW w \in Write, NEW b \in Boundary, persistAfterPending(b, w)
      PROVE  TurnsOK' /\ \A v \in Write : turn[v] # 0 => turn'[v] = turn[v]
  <2>1. AcceptNext(w) /\ accepted' = [accepted EXCEPT ![b] = turns]
    BY <1>2 DEF persistAfterPending, serialize
  <2>2. \A c \in Boundary : accepted'[c] <= turns /\ accepted'[c] \in Nat /\ turns \in Nat
    BY <2>1 DEF TurnsOK, TypeOK
  <2>3. QED
    BY <2>1, <2>2, AcceptTurns DEF TurnsOK
<1>3. ASSUME NEW b \in Boundary, flush(b)
      PROVE  TurnsOK' /\ \A v \in Write : turn[v] # 0 => turn'[v] = turn[v]
  BY <1>3 DEF flush, serialize, TurnsOK, TypeOK
<1>4. CASE UNCHANGED <<nextSequence, acceptedThrough, direct, turn, turns, accepted>>
  BY <1>4 DEF TurnsOK
<1>5. QED
  BY <1>1, <1>2, <1>3, <1>4, RunnerLeaves DEF Next

\* The queue stays in the order of acceptance.
LEMMA NextQueue ==
  ASSUME TypeOK, TurnsOK, QueueOK, AppendOK, [Next]_vars
  PROVE  QueueOK'
<1>1. \A w \in Write : turn[w] # 0 => turn'[w] = turn[w]
  BY NextTurns
<1>2. pendingWrites \in Seq(Item) /\ \A k \in 1..Len(pendingWrites) : pendingWrites[k] \in Item
  BY QueueType
<1>3. CASE UNCHANGED <<pendingWrites, nextSequence>>
  <2>1. \A k \in 1..Len(pendingWrites) :
          turn'[pendingWrites[k].write] = turn[pendingWrites[k].write]
    BY <1>1, <1>2 DEF QueueOK, Item
  <2>2. QED
    BY <1>3, <2>1 DEF QueueOK
<1>4. ASSUME NEW w \in Write, enqueue(w) PROVE QueueOK'
  <2> DEFINE item == [sequence |-> nextSequence, write |-> w]
  <2>1. AcceptNext(w) /\ nextSequence' = nextSequence + 1 /\ pendingWrites' = Append(pendingWrites, item)
    BY <1>4 DEF enqueue
  <2>2. turn'[w] = turns + 1 /\ turns \in Nat /\ nextSequence \in Nat
    BY <2>1, AcceptTurns DEF TypeOK
  <2>3. \A k \in 1..Len(pendingWrites) :
          /\ turn'[pendingWrites[k].write] = turn[pendingWrites[k].write]
          /\ turn[pendingWrites[k].write] \in Nat /\ turn[pendingWrites[k].write] <= turns
          /\ pendingWrites[k].sequence \in Nat
    BY <1>1, <1>2 DEF QueueOK, TurnsOK, TypeOK, Item
  <2>4. /\ Len(pendingWrites') = Len(pendingWrites) + 1
        /\ \A k \in 1..Len(pendingWrites) : pendingWrites'[k] = pendingWrites[k]
        /\ pendingWrites'[Len(pendingWrites) + 1] = item
        /\ Len(pendingWrites) \in Nat
    BY <1>2, <2>1
  <2>5. \A k \in 1..Len(pendingWrites') : k \in 1..Len(pendingWrites) \/ k = Len(pendingWrites) + 1
    BY <2>4
  <2>6. item.sequence = nextSequence /\ item.write = w
    OBVIOUS
  <2> HIDE DEF item
  <2>7. QED
    BY <2>1, <2>2, <2>3, <2>4, <2>5, <2>6, SMTT(30) DEF QueueOK
<1>5. CASE pendingWrites # <<>> /\ pendingWrites' = Tail(pendingWrites)
             /\ UNCHANGED <<nextSequence, turn>>
  <2>1. /\ Len(pendingWrites') = Len(pendingWrites) - 1 /\ Len(pendingWrites) \in Nat
        /\ \A k \in 1..Len(pendingWrites') : pendingWrites'[k] = pendingWrites[k + 1]
    BY <1>2, <1>5
  <2>2. \A k \in 1..Len(pendingWrites') : k + 1 \in 1..Len(pendingWrites)
    BY <2>1
  <2>3. \A j, k \in 1..Len(pendingWrites') : j < k => j + 1 < k + 1
    BY <2>1
  <2>4. QED
    BY <1>5, <2>1, <2>2, <2>3 DEF QueueOK
<1>6. QED
  BY <1>3, <1>4, <1>5, QueueSteps

\* The chain stays in the order of the calls.
LEMMA NextChain ==
  ASSUME TypeOK, TurnsOK, ChainOK, [Next]_vars
  PROVE  ChainOK'
<1>1. /\ operations \in Seq(Boundary) /\ Len(operations) \in Nat
      /\ \A i \in 1..Len(operations) : operations[i] \in Boundary
  BY DEF TypeOK
<1>2. \A b \in Boundary : accepted[b] \in Nat /\ turns \in Nat /\ accepted[b] <= turns
  BY DEF TypeOK, TurnsOK
<1>3. CASE UNCHANGED <<status, operations, accepted>>
  BY <1>3 DEF ChainOK
<1>4. ASSUME NEW b \in Boundary, NEW w, serialize(b, w) PROVE ChainOK'
  <2>1. /\ status[b] = "new" /\ status' = [status EXCEPT ![b] = "waiting"]
        /\ operations' = Append(operations, b) /\ accepted' = [accepted EXCEPT ![b] = turns]
    BY <1>4 DEF serialize
  <2>2. /\ Len(operations') = Len(operations) + 1
        /\ \A i \in 1..Len(operations) : operations'[i] = operations[i]
        /\ operations'[Len(operations) + 1] = b
        /\ \A i \in 1..Len(operations') : i \in 1..Len(operations) \/ i = Len(operations) + 1
    BY <1>1, <2>1
  <2>3. \A i \in 1..Len(operations) : status[operations[i]] = "waiting" /\ operations[i] # b
    BY <1>1, <2>1 DEF ChainOK
  <2>4. \A c \in Boundary : status'[c] = "waiting" <=> \E i \in 1..Len(operations') : operations'[i] = c
    BY <1>1, <2>1, <2>2 DEF ChainOK, TypeOK
  <2>5. accepted'[b] = turns /\ \A i \in 1..Len(operations) : accepted'[operations[i]] = accepted[operations[i]]
    BY <1>1, <2>1, <2>3 DEF TypeOK
  <2>6. \A i, j \in 1..Len(operations') : i < j =>
          operations'[i] # operations'[j] /\ accepted'[operations'[i]] <= accepted'[operations'[j]]
    BY <1>1, <1>2, <2>2, <2>3, <2>5 DEF ChainOK
  <2>7. QED
    BY <2>4, <2>6 DEF ChainOK
<1>5. ASSUME NEW b \in Boundary, NEW outcome \in {"resolved", "rejected"},
             Running(b), Settle(b, outcome), accepted' = accepted
      PROVE  ChainOK'
  <2>1. /\ operations # <<>> /\ operations[1] = b /\ Len(operations) \in Nat \ {0}
        /\ status' = [status EXCEPT ![b] = outcome] /\ operations' = Tail(operations)
    BY <1>1, <1>5 DEF Running, Settle
  <2>2. /\ Len(operations') = Len(operations) - 1
        /\ \A i \in 1..Len(operations') : operations'[i] = operations[i + 1] /\ i + 1 \in 1..Len(operations)
    BY <1>1, <2>1
  <2>3. \A i \in 1..Len(operations) : i # 1 => i - 1 \in 1..Len(operations') /\ (i - 1) + 1 = i
    BY <1>1, <2>2
  <2>4. \A i \in 1..Len(operations) : i # 1 => operations[i] # b
    BY <1>1, <2>1 DEF ChainOK
  <2>5. \A c \in Boundary : status'[c] = "waiting" <=> c # b /\ status[c] = "waiting"
    BY <2>1 DEF TypeOK
  <2>6. \A c \in Boundary : (\E i \in 1..Len(operations') : operations'[i] = c)
                              <=> \E i \in 1..Len(operations) : i # 1 /\ operations[i] = c
    <3> TAKE c \in Boundary
    <3>1. ASSUME NEW i \in 1..Len(operations'), operations'[i] = c
          PROVE  \E k \in 1..Len(operations) : k # 1 /\ operations[k] = c
      <4>1. i + 1 \in 1..Len(operations) /\ i + 1 # 1 /\ operations[i + 1] = c
        BY <2>2, <3>1
      <4>2. QED
        BY <4>1
    <3>2. ASSUME NEW i \in 1..Len(operations), i # 1, operations[i] = c
          PROVE  \E k \in 1..Len(operations') : operations'[k] = c
      <4>1. i - 1 \in 1..Len(operations') /\ operations'[i - 1] = operations[(i - 1) + 1]
        BY <2>2, <2>3, <3>2
      <4>2. QED
        BY <2>3, <3>2, <4>1
    <3>3. QED
      BY <3>1, <3>2
  <2>7. \A c \in Boundary : status'[c] = "waiting" <=> \E i \in 1..Len(operations') : operations'[i] = c
    BY <2>1, <2>4, <2>5, <2>6 DEF ChainOK
  <2>8. \A i, j \in 1..Len(operations') : i < j =>
          operations'[i] # operations'[j] /\ accepted'[operations'[i]] <= accepted'[operations'[j]]
    <3> TAKE i, j \in 1..Len(operations')
    <3> HAVE i < j
    <3>1. i + 1 < j + 1
      BY <2>2
    <3>2. operations[i + 1] # operations[j + 1] /\ accepted[operations[i + 1]] <= accepted[operations[j + 1]]
      BY <2>2, <3>1 DEF ChainOK
    <3>3. QED
      BY <1>5, <2>2, <3>2
  <2>9. QED
    BY <2>7, <2>8 DEF ChainOK
<1>6. QED
  BY <1>3, <1>4, <1>5, ChainSteps DEF flush, persistAfterPending

\* What the running boundary and the session do to the queue and to who waits.
LEMMA RunnerSteps ==
  ASSUME TypeOK, AppendOK,
         \/ AppendEnds
         \/ \E b \in Boundary : Begin(b) \/ Resume(b) \/ Fail(b)
         \/ UNCHANGED vars
  PROVE  /\ UNCHANGED <<nextSequence, acceptedThrough, direct, turn, turns, accepted>>
         /\ \A c \in Boundary : status'[c] = "waiting" => status[c] = "waiting"
         /\ \A k \in 1..Len(pendingWrites') : \E j \in 1..Len(pendingWrites) :
              pendingWrites'[k] = pendingWrites[j]
<1>1. UNCHANGED <<nextSequence, acceptedThrough, direct, turn, turns, accepted>>
  BY RunnerLeaves
<1>2. ASSUME NEW c \in Boundary, status'[c] = "waiting" PROVE status[c] = "waiting"
  <2>1. \A b \in Boundary, outcome \in {"resolved", "rejected"} :
          Settle(b, outcome) => status[c] = "waiting"
    BY <1>2 DEF Settle, TypeOK
  <2>2. QED
    BY <1>2, <2>1 DEF AppendEnds, Begin, Resume, Fail, vars, Continue, BeginAppend
<1>3. \/ UNCHANGED pendingWrites
      \/ pendingWrites # <<>> /\ pendingWrites' = Tail(pendingWrites)
  <2>1. [Next]_vars
    BY DEF Next
  <2>2. ~ \E w \in Write : enqueue(w)
    <3>1. nextSequence + 1 # nextSequence
      BY DEF TypeOK
    <3>2. QED
      BY <1>1, <3>1 DEF enqueue
  <2>3. QED
    BY <2>1, <2>2, QueueSteps
<1>4. \A k \in 1..Len(pendingWrites') : \E j \in 1..Len(pendingWrites) :
        pendingWrites'[k] = pendingWrites[j]
  <2>1. CASE pendingWrites # <<>> /\ pendingWrites' = Tail(pendingWrites)
    <3>1. \A k \in 1..Len(pendingWrites') :
            k + 1 \in 1..Len(pendingWrites) /\ pendingWrites'[k] = pendingWrites[k + 1]
      BY <2>1, QueueType
    <3>2. QED
      BY <3>1
  <2>2. QED
    BY <1>3, <2>1
<1>5. QED
  BY <1>1, <1>2, <1>4

\* An accepted write behind the queue.
LEMMA EnqueueEffect ==
  ASSUME TypeOK, TurnsOK, QueueOK, NEW w \in Write, enqueue(w)
  PROVE  /\ Len(pendingWrites') = Len(pendingWrites) + 1 /\ nextSequence' = nextSequence + 1
         /\ \A k \in 1..Len(pendingWrites) :
              pendingWrites'[k] = pendingWrites[k] /\ pendingWrites[k].write # w
         /\ pendingWrites'[Len(pendingWrites) + 1].sequence = nextSequence
         /\ pendingWrites'[Len(pendingWrites) + 1].write = w
         /\ \A k \in 1..Len(pendingWrites') :
              k \in 1..Len(pendingWrites) \/ k = Len(pendingWrites) + 1
<1> DEFINE item == [sequence |-> nextSequence, write |-> w]
<1>1. pendingWrites' = Append(pendingWrites, item) /\ nextSequence' = nextSequence + 1 /\ turn[w] = 0
  BY DEF enqueue, AcceptNext
<1>2. item.sequence = nextSequence /\ item.write = w
  OBVIOUS
<1> HIDE DEF item
<1>3. /\ Len(pendingWrites') = Len(pendingWrites) + 1
      /\ \A k \in 1..Len(pendingWrites) : pendingWrites'[k] = pendingWrites[k]
      /\ pendingWrites'[Len(pendingWrites) + 1] = item
      /\ \A k \in 1..Len(pendingWrites') : k \in 1..Len(pendingWrites) \/ k = Len(pendingWrites) + 1
  BY <1>1, QueueType
<1>4. QED
  BY <1>1, <1>2, <1>3 DEF QueueOK

\* Watermarks stay true.
LEMMA NextMarks ==
  ASSUME TypeOK, TurnsOK, QueueOK, MarksOK, AppendOK, [Next]_vars
  PROVE  MarksOK'
<1>1. \A w \in Write : turn[w] # 0 => turn'[w] = turn[w]
  BY NextTurns
<1>2. \A k \in 1..Len(pendingWrites) :
        /\ turn'[pendingWrites[k].write] = turn[pendingWrites[k].write]
        /\ turn[pendingWrites[k].write] \in Nat /\ turn[pendingWrites[k].write] <= turns
        /\ pendingWrites[k].sequence \in Nat /\ pendingWrites[k].sequence < nextSequence
  BY <1>1, QueueType DEF QueueOK, TurnsOK, TypeOK
<1>3. turns \in Nat /\ nextSequence \in Nat \ {0}
        /\ \A b \in Boundary : acceptedThrough[b] \in Nat /\ accepted[b] \in Nat /\ accepted[b] <= turns
  BY DEF TypeOK, TurnsOK
<1>4. ASSUME NEW w \in Write, enqueue(w) PROVE MarksOK'
  <2>1. UNCHANGED <<acceptedThrough, accepted, status>> /\ turn'[w] = turns + 1
    BY <1>4, AcceptTurns DEF enqueue
  <2>2. QED
    BY <1>2, <1>3, <1>4, <2>1, EnqueueEffect DEF MarksOK
<1>5. ASSUME NEW b \in Boundary, NEW w, serialize(b, w) PROVE MarksOK'
  <2>1. /\ acceptedThrough' = [acceptedThrough EXCEPT ![b] = nextSequence - 1]
        /\ accepted' = [accepted EXCEPT ![b] = turns]
        /\ status' = [status EXCEPT ![b] = "waiting"]
        /\ UNCHANGED <<pendingWrites, nextSequence>>
    BY <1>5 DEF serialize
  <2>2. acceptedThrough'[b] = nextSequence - 1 /\ accepted'[b] = turns
    BY <2>1 DEF TypeOK
  <2>3. \A c \in Boundary : c # b =>
          acceptedThrough'[c] = acceptedThrough[c] /\ accepted'[c] = accepted[c] /\ status'[c] = status[c]
    BY <2>1 DEF TypeOK
  <2>4. \A k \in 1..Len(pendingWrites) :
          /\ pendingWrites[k].sequence <= nextSequence - 1
          /\ turn'[pendingWrites[k].write] <= turns
    BY <1>2, <1>3
  <2>5. QED
    BY <1>2, <1>3, <2>1, <2>2, <2>3, <2>4 DEF MarksOK
<1>6. CASE AppendEnds \/ UNCHANGED vars \/ \E b \in Boundary : Begin(b) \/ Resume(b) \/ Fail(b)
  BY <1>6, RunnerSteps DEF MarksOK
<1>7. QED
  BY <1>4, <1>5, <1>6 DEF Next, flush, persistAfterPending

\* A boundary's own write stays its own.
LEMMA NextDirect ==
  ASSUME TypeOK, TurnsOK, QueueOK, DirectOK, AppendOK, [Next]_vars
  PROVE  DirectOK'
<1>1. \A w \in Write : turn[w] # 0 => turn'[w] = turn[w]
  BY NextTurns
<1>2. \A b \in Boundary : direct[b] # NoWrite => direct[b] \in Write /\ turn[direct[b]] # 0
  BY DEF DirectOK, TypeOK
<1>3. ASSUME NEW w \in Write, enqueue(w) PROVE DirectOK'
  <2>1. UNCHANGED <<direct, accepted>> /\ turn[w] = 0
    BY <1>3 DEF enqueue, AcceptNext
  <2>2. \A b \in Boundary : direct[b] # NoWrite => direct[b] # w /\ turn'[direct[b]] = turn[direct[b]]
    BY <1>1, <1>2, <2>1
  <2>3. \A b \in Boundary : direct[b] # NoWrite =>
          \A k \in 1..Len(pendingWrites') : pendingWrites'[k].write # direct[b]
    BY <1>3, <2>2, EnqueueEffect DEF DirectOK
  <2>4. QED
    BY <2>1, <2>2, <2>3 DEF DirectOK
<1>4. ASSUME NEW b \in Boundary, flush(b) PROVE DirectOK'
  <2>1. /\ direct' = [direct EXCEPT ![b] = NoWrite] /\ accepted' = [accepted EXCEPT ![b] = turns]
        /\ UNCHANGED <<turn, pendingWrites>>
    BY <1>4 DEF flush, serialize
  <2>2. direct'[b] = NoWrite /\ \A c \in Boundary : c # b => direct'[c] = direct[c] /\ accepted'[c] = accepted[c]
    BY <2>1 DEF TypeOK
  <2>3. QED
    BY <2>1, <2>2 DEF DirectOK
<1>5. ASSUME NEW b \in Boundary, NEW w \in Write, persistAfterPending(b, w) PROVE DirectOK'
  <2>1. /\ direct' = [direct EXCEPT ![b] = w] /\ accepted' = [accepted EXCEPT ![b] = turns]
        /\ UNCHANGED pendingWrites
    BY <1>5 DEF persistAfterPending, serialize
  <2>2. /\ direct'[b] = w /\ accepted'[b] = turns
        /\ \A c \in Boundary : c # b => direct'[c] = direct[c] /\ accepted'[c] = accepted[c]
    BY <2>1 DEF TypeOK
  <2>3. turn[w] = 0 /\ turn'[w] = turns + 1
    BY <1>5, AcceptTurns DEF persistAfterPending
  <2>4. \A c \in Boundary : c # b /\ direct[c] # NoWrite => direct[c] # w /\ turn'[direct[c]] = turn[direct[c]]
    BY <1>1, <1>2, <2>3
  <2>5. \A k \in 1..Len(pendingWrites) : pendingWrites[k].write # w
    BY <2>3 DEF QueueOK
  <2>6. QED
    BY <2>1, <2>2, <2>3, <2>4, <2>5 DEF DirectOK
<1>6. CASE AppendEnds \/ UNCHANGED vars \/ \E b \in Boundary : Begin(b) \/ Resume(b) \/ Fail(b)
  BY <1>6, RunnerSteps DEF DirectOK
<1>7. QED
  BY <1>3, <1>4, <1>5, <1>6 DEF Next

\* The storage forgets nothing.
LEMMA StoredGrows ==
  ASSUME TypeOK, [Next]_vars
  PROVE  Stored \subseteq Stored'
<1>1. ASSUME NEW w, log' = Append(log, w) PROVE Stored \subseteq Stored'
  <2>1. \A i \in DOMAIN log : i \in DOMAIN log' /\ log'[i] = log[i]
    BY <1>1 DEF TypeOK
  <2>2. QED
    BY <2>1 DEF Stored
<1>2. CASE log' = log
  BY <1>2 DEF Stored
<1>3. QED
  BY <1>1, <1>2 DEF Next, vars, enqueue, persistAfterPending, flush, serialize, AppendEnds,
                    Begin, Resume, Fail

\* The append under way stays the one that is owed.
LEMMA NextAppend ==
  ASSUME TypeOK, TurnsOK, QueueOK, MarksOK, ChainOK, AppendOK, [Next]_vars
  PROVE  AppendOK'
<1>1. operations # <<>> => Head(operations) \in Boundary /\ status[Head(operations)] = "waiting"
  <2>1. operations # <<>> => Head(operations) = operations[1] /\ 1 \in 1..Len(operations)
    BY DEF TypeOK
  <2>2. QED
    BY <2>1 DEF ChainOK, TypeOK
<1>2. ASSUME NEW w \in Write, enqueue(w) PROVE AppendOK'
  <2>1. UNCHANGED <<operations, acceptedThrough, direct, append, log>>
    BY <1>2 DEF enqueue
  <2>2. ASSUME operations # <<>>
        PROVE  LET b == Head(operations) IN
               /\ Due(b, pendingWrites)' <=> Due(b, pendingWrites)
               /\ Due(b, pendingWrites) => Head(pendingWrites)' = Head(pendingWrites)
    <3> DEFINE b == Head(operations)
    <3>1. CASE pendingWrites = <<>>
      <4>1. Len(pendingWrites') = 1 /\ pendingWrites'[1].sequence = nextSequence
        BY <1>2, <3>1, EnqueueEffect
      <4>2. pendingWrites' # <<>> /\ Head(pendingWrites') = pendingWrites'[1]
        BY <4>1
      <4>3. acceptedThrough[b] < nextSequence /\ acceptedThrough[b] \in Nat /\ nextSequence \in Nat
        BY <1>1, <2>2 DEF MarksOK, TypeOK
      <4>4. QED
        BY <2>1, <3>1, <4>1, <4>2, <4>3 DEF Due
    <3>2. CASE pendingWrites # <<>>
      <4>1. Len(pendingWrites) \in Nat \ {0} /\ Head(pendingWrites) = pendingWrites[1]
        BY <3>2, QueueType
      <4>2. Len(pendingWrites') \in Nat \ {0} /\ pendingWrites'[1] = pendingWrites[1]
        BY <1>2, <4>1, EnqueueEffect
      <4>3. pendingWrites' # <<>> /\ Head(pendingWrites') = pendingWrites'[1]
        BY <4>2
      <4>4. QED
        BY <2>1, <3>2, <4>1, <4>2, <4>3 DEF Due
    <3>3. QED
      BY <3>1, <3>2
  <2>3. QED
    BY <2>1, <2>2 DEF AppendOK, Stored
<1>3. ASSUME NEW c \in Boundary, NEW w, serialize(c, w) PROVE AppendOK'
  <2>1. /\ operations' = Append(operations, c) /\ status[c] = "new"
        /\ direct' = [direct EXCEPT ![c] = w]
        /\ acceptedThrough' = [acceptedThrough EXCEPT ![c] = nextSequence - 1]
        /\ UNCHANGED <<pendingWrites, append, log>>
    BY <1>3 DEF serialize
  <2>2. ASSUME operations # <<>>
        PROVE  /\ operations' # <<>> /\ Head(operations)' = Head(operations)
               /\ direct'[Head(operations)] = direct[Head(operations)]
               /\ acceptedThrough'[Head(operations)] = acceptedThrough[Head(operations)]
    <3>1. Head(operations) # c
      BY <1>1, <2>1, <2>2
    <3>2. operations' # <<>> /\ Head(operations)' = Head(operations)
      <4>1. operations \in Seq(Boundary)
        BY DEF TypeOK
      <4>2. Len(operations) \in Nat \ {0} /\ Head(operations) = operations[1]
        BY <2>2, <4>1
      <4>3. operations' \in Seq(Boundary) /\ Len(operations') = Len(operations) + 1 /\ operations'[1] = operations[1]
        BY <2>1, <4>1, <4>2
      <4>4. operations' # <<>> /\ Head(operations') = operations'[1]
        BY <4>2, <4>3
      <4>5. QED
        BY <4>2, <4>3, <4>4
    <3>3. QED
      BY <1>1, <2>1, <2>2, <3>1, <3>2 DEF TypeOK
  <2>3. QED
    BY <2>1, <2>2 DEF AppendOK, Due, Stored
<1>4. CASE AppendEnds
  <2>1. UNCHANGED <<pendingWrites, operations, acceptedThrough, direct>>
    BY <1>4 DEF AppendEnds
  <2>2. append.state # "none" /\ append'.write = append.write
    BY <1>4 DEF AppendEnds, TypeOK
  <2>3. append'.state = "appended" => append'.write \in Stored'
    <3>1. append'.state = "appended" => log' = Append(log, append.write)
      BY <1>4 DEF AppendEnds, TypeOK
    <3>2. log' = Append(log, append.write) => append.write \in Stored'
      <4>1. ASSUME log' = Append(log, append.write)
            PROVE  Len(log) + 1 \in DOMAIN log' /\ log'[Len(log) + 1] = append.write
        <5>1. append.write \in Write /\ log \in Seq(Write)
          BY <2>2 DEF TypeOK
        <5>2. QED
          BY <4>1, <5>1
      <4>2. QED
        BY <4>1 DEF Stored
    <3>3. QED
      BY <2>2, <3>1, <3>2
  <2>4. QED
    BY <2>1, <2>2, <2>3 DEF AppendOK, Due
<1>5. ASSUME NEW b \in Boundary, NEW queue, Running(b), Continue(b, queue),
             pendingWrites' = queue, UNCHANGED <<acceptedThrough, direct>>
      PROVE  AppendOK'
  <2>1. CASE Settle(b, "resolved")
    BY <2>1 DEF Settle, AppendOK, NoAppend
  <2>2. CASE Due(b, queue) /\ BeginAppend(Head(queue).write)
    BY <1>5, <2>2 DEF BeginAppend, AppendOK, Running, Due
  <2>3. CASE ~ Due(b, queue) /\ direct[b] # NoWrite /\ BeginAppend(direct[b])
    BY <1>5, <2>3 DEF BeginAppend, AppendOK, Running, Due
  <2>4. QED
    BY <1>5, <2>1, <2>2, <2>3 DEF Continue
<1>6. ASSUME NEW b \in Boundary, Begin(b) PROVE AppendOK'
  BY <1>5, <1>6 DEF Begin
<1>7. ASSUME NEW b \in Boundary, Resume(b) PROVE AppendOK'
  <2>1. CASE append.write = direct[b]
    BY <1>7, <2>1 DEF Resume, Settle, AppendOK, NoAppend
  <2>2. CASE append.write # direct[b]
    BY <1>5, <1>7, <2>2 DEF Resume
  <2>3. QED
    BY <2>1, <2>2
<1>8. ASSUME NEW b \in Boundary, Fail(b) PROVE AppendOK'
  BY <1>8 DEF Fail, Settle, AppendOK, NoAppend
<1>9. CASE UNCHANGED vars
  BY <1>9 DEF vars, AppendOK, Due, Stored
<1>10. QED
  BY <1>2, <1>3, <1>4, <1>6, <1>7, <1>8, <1>9 DEF Next, flush, persistAfterPending

\* A boundary that has been called keeps its write and its place, and its outcome.
LEMMA OutcomesStay ==
  ASSUME TypeOK, [Next]_vars, NEW c \in Boundary, status[c] # "new"
  PROVE  /\ direct'[c] = direct[c] /\ accepted'[c] = accepted[c] /\ status'[c] # "new"
         /\ status[c] \in {"resolved", "rejected"} => status'[c] = status[c]
<1>1. ASSUME NEW b \in Boundary, NEW w, serialize(b, w)
      PROVE  direct'[c] = direct[c] /\ accepted'[c] = accepted[c] /\ status'[c] = status[c]
  BY <1>1 DEF serialize, TypeOK
<1>2. ASSUME NEW b \in Boundary, NEW outcome \in {"resolved", "rejected"}, Running(b), Settle(b, outcome)
      PROVE  status'[c] # "new" /\ (status[c] \in {"resolved", "rejected"} => status'[c] = status[c])
  BY <1>2 DEF Running, Settle, TypeOK
<1>3. QED
  BY <1>1, <1>2, ChainSteps DEF flush, persistAfterPending

\* When a boundary resolves, it runs, it has persisted its write and nothing is due.
LEMMA ResolveStep ==
  ASSUME TypeOK, DirectOK, AppendOK, [Next]_vars, NEW b \in Boundary,
         status[b] # "resolved", status'[b] = "resolved"
  PROVE  /\ Running(b) /\ ~ Due(b, pendingWrites')
         /\ direct[b] # NoWrite => direct[b] \in Stored
         /\ UNCHANGED <<nextSequence, acceptedThrough, direct, turn, turns, accepted>>
<1>1. ASSUME NEW c \in Boundary, NEW outcome \in {"resolved", "rejected"}, Settle(c, outcome)
      PROVE  c = b /\ outcome = "resolved"
  BY <1>1 DEF Settle, TypeOK
<1>2. ASSUME NEW c \in Boundary, NEW queue, Continue(c, queue), UNCHANGED <<acceptedThrough, direct>>
      PROVE  c = b /\ ~ Due(c, queue) /\ direct[c] = NoWrite
  BY <1>1, <1>2 DEF Continue, BeginAppend
<1>3. ASSUME NEW c \in Boundary, NEW w, serialize(c, w) PROVE FALSE
  BY <1>3 DEF serialize, TypeOK
<1>4. ASSUME NEW c \in Boundary, Begin(c)
      PROVE  c = b /\ Running(b) /\ ~ Due(b, pendingWrites') /\ direct[b] = NoWrite
  BY <1>2, <1>4 DEF Begin, Due
<1>5. ASSUME NEW c \in Boundary, Resume(c), append.write = direct[c]
      PROVE  c = b /\ Running(b) /\ ~ Due(b, pendingWrites') /\ direct[b] \in Stored
  <2>1. c = b /\ Running(b) /\ UNCHANGED <<pendingWrites, acceptedThrough>> /\ append.state = "appended"
    BY <1>1, <1>5 DEF Resume
  <2>2. direct[b] \in Stored /\ direct[b] \in Write
    BY <1>5, <2>1 DEF AppendOK, TypeOK
  <2>3. ~ Due(b, pendingWrites)
    <3>1. SUFFICES ASSUME Due(b, pendingWrites) PROVE FALSE
      OBVIOUS
    <3>2. Head(pendingWrites).write = direct[b] /\ pendingWrites # <<>>
      BY <1>5, <2>1, <3>1 DEF AppendOK, Running, Due
    <3>3. Head(pendingWrites) = pendingWrites[1] /\ 1 \in 1..Len(pendingWrites)
      BY <3>2, QueueType
    <3>4. direct[b] # NoWrite
      BY <2>2, WriteAssumption
    <3>5. QED
      BY <3>2, <3>3, <3>4 DEF DirectOK
  <2>4. QED
    BY <2>1, <2>2, <2>3 DEF Due
<1>6. ASSUME NEW c \in Boundary, Resume(c), append.write # direct[c]
      PROVE  c = b /\ Running(b) /\ ~ Due(b, pendingWrites') /\ direct[b] = NoWrite
  <2>1. pendingWrites' = Tail(pendingWrites) /\ Continue(c, Tail(pendingWrites)) /\ Running(c)
          /\ UNCHANGED <<acceptedThrough, direct>>
    BY <1>6 DEF Resume
  <2>2. c = b /\ ~ Due(c, Tail(pendingWrites)) /\ direct[c] = NoWrite
    BY <1>2, <2>1
  <2>3. QED
    BY <2>1, <2>2 DEF Due
<1>7. ASSUME NEW c \in Boundary, Fail(c) PROVE FALSE
  BY <1>1, <1>7 DEF Fail
<1>8. ASSUME NEW w \in Write, enqueue(w) PROVE FALSE
  BY <1>8 DEF enqueue
<1>9. ASSUME AppendEnds \/ UNCHANGED vars PROVE FALSE
  BY <1>9 DEF AppendEnds, vars
<1>10. \E c \in Boundary : Begin(c) \/ Resume(c)
  BY <1>3, <1>7, <1>8, <1>9 DEF Next, flush, persistAfterPending
<1>11. QED
  BY <1>4, <1>5, <1>6, <1>10, RunnerLeaves

\* No write is forgotten.
LEMMA NextKept ==
  ASSUME TypeOK, TurnsOK, QueueOK, DirectOK, AppendOK, KeptOK, [Next]_vars
  PROVE  KeptOK'
<1>1. Stored \subseteq Stored'
  BY StoredGrows
<1>2. ASSUME NEW w \in Write, enqueue(w) PROVE KeptOK'
  <2>1. UNCHANGED <<direct, status>> /\ \A v \in Write : v # w => turn'[v] = turn[v]
    BY <1>2, AcceptTurns DEF enqueue
  <2>2. /\ Len(pendingWrites) \in Nat /\ Len(pendingWrites') = Len(pendingWrites) + 1
        /\ \A k \in 1..Len(pendingWrites) : pendingWrites'[k] = pendingWrites[k]
        /\ pendingWrites'[Len(pendingWrites) + 1].write = w
    BY <1>2, EnqueueEffect, QueueType
  <2>3. \E k \in 1..Len(pendingWrites') : pendingWrites'[k].write = w
    BY <2>2
  <2>4. \A v \in Write : (\E k \in 1..Len(pendingWrites) : pendingWrites[k].write = v)
          => \E k \in 1..Len(pendingWrites') : pendingWrites'[k].write = v
    BY <2>2
  <2>5. QED
    BY <1>1, <2>1, <2>3, <2>4 DEF KeptOK
<1>3. ASSUME NEW b \in Boundary, NEW x, serialize(b, x),
             x # NoWrite => AcceptNext(x) /\ x \in Write, x = NoWrite => UNCHANGED turn
      PROVE  KeptOK'
  <2>1. /\ status[b] = "new" /\ direct'[b] = x /\ status'[b] = "waiting" /\ UNCHANGED pendingWrites
        /\ \A c \in Boundary : c # b => direct'[c] = direct[c] /\ status'[c] = status[c]
    BY <1>3 DEF serialize, TypeOK
  <2>2. \A v \in Write : v # x => turn'[v] = turn[v]
    BY <1>3, AcceptTurns
  <2>3. QED
    BY <1>1, <2>1, <2>2 DEF KeptOK
<1>4. CASE AppendEnds \/ UNCHANGED vars \/ \E b \in Boundary : Begin(b) \/ Resume(b) \/ Fail(b)
  <2>1. UNCHANGED <<direct, turn>>
    BY <1>4, RunnerLeaves
  <2>2. ASSUME NEW k \in 1..Len(pendingWrites)
        PROVE  \/ pendingWrites[k].write \in Stored
               \/ \E j \in 1..Len(pendingWrites') : pendingWrites'[j] = pendingWrites[k]
    <3>1. CASE UNCHANGED pendingWrites
      BY <3>1
    <3>2. CASE /\ pendingWrites # <<>> /\ append.state = "appended"
               /\ append.write = Head(pendingWrites).write
               /\ pendingWrites' = Tail(pendingWrites)
      <4>1. Head(pendingWrites) = pendingWrites[1] /\ append.write \in Stored
        BY <3>2, QueueType DEF AppendOK
      <4>2. k # 1 => k - 1 \in 1..Len(pendingWrites') /\ pendingWrites'[k - 1] = pendingWrites[k]
        BY <3>2, QueueType
      <4>3. QED
        BY <3>2, <4>1, <4>2
    <3>3. ~ \E w \in Write : enqueue(w)
      <4>1. nextSequence + 1 # nextSequence
        BY DEF TypeOK
      <4>2. QED
        BY <1>4, <4>1, RunnerLeaves DEF enqueue
    <3>4. QED
      BY <3>1, <3>2, <3>3, QueueSteps
  <2>3. ASSUME NEW w \in Write, NEW b \in Boundary, direct[b] = w, status[b] \in {"waiting", "rejected"}
        PROVE  w \in Stored \/ status'[b] \in {"waiting", "rejected"}
    <3>1. direct[b] # NoWrite
      BY <2>3, WriteAssumption
    <3>2. status'[b] = "resolved" => w \in Stored
      BY <2>3, <3>1, ResolveStep
    <3>3. status'[b] # "new" /\ status'[b] \in {"new", "waiting", "resolved", "rejected"}
      BY <2>3, OutcomesStay, NextType DEF TypeOK
    <3>4. QED
      BY <3>2, <3>3
  <2>4. QED
    BY <1>1, <2>1, <2>2, <2>3 DEF KeptOK
<1>5. \A w \in Write : w # NoWrite
  BY WriteAssumption
<1>6. QED
  BY <1>2, <1>3, <1>4, <1>5 DEF Next, flush, persistAfterPending

\* A boundary that resolves has persisted what was accepted before it.
LEMMA NextDurable ==
  ASSUME TypeOK, TurnsOK, QueueOK, MarksOK, DirectOK, ChainOK, AppendOK, KeptOK,
         ResolvedIsDurable, [Next]_vars
  PROVE  ResolvedIsDurable'
<1>1. Stored \subseteq Stored'
  BY StoredGrows
<1>2. ASSUME NEW b \in Boundary, status[b] = "resolved",
             NEW w \in Write, turn'[w] \in 1..accepted'[b]
      PROVE  \/ w \in Stored'
             \/ \E c \in Boundary : direct'[c] = w /\ status'[c] = "rejected"
  <2>1. accepted'[b] = accepted[b] /\ accepted[b] <= turns /\ accepted[b] \in Nat /\ turns \in Nat
    BY <1>2, OutcomesStay DEF TurnsOK, TypeOK
  <2>2. turn[w] = turn'[w]
    <3>1. ASSUME NEW v \in Write, AcceptNext(v), turn'[w] # turn[w] PROVE FALSE
      BY <1>2, <2>1, <3>1, AcceptTurns
    <3>2. QED
      BY <3>1, RunnerLeaves DEF Next, enqueue, persistAfterPending, flush
  <2>3. \/ w \in Stored
        \/ \E c \in Boundary : direct[c] = w /\ status[c] = "rejected"
    BY <1>2, <2>1, <2>2 DEF ResolvedIsDurable
  <2>4. QED
    BY <1>1, <2>3, OutcomesStay
<1>3. ASSUME NEW b \in Boundary, status[b] # "resolved", status'[b] = "resolved",
             NEW w \in Write, turn'[w] \in 1..accepted'[b]
      PROVE  \/ w \in Stored'
             \/ \E c \in Boundary : direct'[c] = w /\ status'[c] = "rejected"
  <2>1. /\ Running(b) /\ ~ Due(b, pendingWrites')
        /\ UNCHANGED <<nextSequence, acceptedThrough, direct, turn, turns, accepted>>
    BY <1>3, ResolveStep
  <2>2. turn[w] \in 1..accepted[b] /\ accepted[b] \in Nat /\ acceptedThrough[b] \in Nat
    BY <1>3, <2>1 DEF TypeOK
  <2>3. \A k \in 1..Len(pendingWrites') : pendingWrites'[k].write # w
    <3>1. SUFFICES ASSUME NEW k \in 1..Len(pendingWrites'), pendingWrites'[k].write = w PROVE FALSE
      OBVIOUS
    <3>2. QueueOK' /\ TypeOK'
      BY NextQueue, NextType
    <3>3. /\ pendingWrites' # <<>> /\ Head(pendingWrites') = pendingWrites'[1]
          /\ 1 \in 1..Len(pendingWrites')
      <4>1. pendingWrites' \in Seq(Item)
        BY <3>2 DEF TypeOK, Item
      <4>2. QED
        BY <3>1, <4>1
    <3>4. pendingWrites'[1].sequence \in Nat /\ pendingWrites'[k].sequence \in Nat
      <4>1. pendingWrites' \in Seq(Item) /\ \A x \in Item : x.sequence \in Nat
        BY <3>2 DEF TypeOK, Item
      <4>2. pendingWrites'[1] \in Item /\ pendingWrites'[k] \in Item
        BY <3>1, <3>3, <4>1
      <4>3. QED
        BY <4>1, <4>2
    <3>5. pendingWrites'[1].sequence <= pendingWrites'[k].sequence
      <4>1. CASE k = 1
        BY <3>4, <4>1
      <4>2. CASE 1 < k
        BY <3>1, <3>2, <3>3, <3>4, <4>2 DEF QueueOK
      <4>3. QED
        BY <3>1, <4>1, <4>2
    <3>6. pendingWrites'[k].sequence > acceptedThrough[b]
      BY <2>1, <2>2, <3>3, <3>4, <3>5 DEF Due
    <3>7. PICK j \in 1..Len(pendingWrites) : pendingWrites'[k] = pendingWrites[j]
      <4>1. ~ \E v \in Write : enqueue(v)
        BY <1>3 DEF enqueue
      <4>2. \/ AppendEnds \/ UNCHANGED vars \/ \E c \in Boundary : Begin(c) \/ Resume(c) \/ Fail(c)
        <5>1. ASSUME NEW c \in Boundary, NEW x, serialize(c, x) PROVE FALSE
          BY <1>3, <5>1 DEF serialize, TypeOK
        <5>2. QED
          BY <4>1, <5>1 DEF Next, flush, persistAfterPending
      <4>3. QED
        BY <4>2, RunnerSteps
    <3>8. ~ turn[w] <= accepted[b]
      BY <2>1, <2>2, <3>1, <3>4, <3>6, <3>7 DEF MarksOK, Running
    <3>9. QED
      BY <2>2, <3>8
  <2>4. ASSUME NEW c \in Boundary, direct'[c] = w, status'[c] = "waiting" PROVE FALSE
    <3>1. c # b /\ direct[c] = w /\ direct[c] # NoWrite
      BY <1>3, <2>1, <2>4, WriteAssumption
    <3>2. turn[w] = accepted[c] + 1 /\ accepted[c] \in Nat
      BY <3>1 DEF DirectOK, TypeOK
    <3>3. status[c] = "waiting"
      <4>1. status[c] # "new"
        <5>1. ASSUME NEW d \in Boundary, NEW x, serialize(d, x) PROVE FALSE
          BY <1>3, <5>1 DEF serialize, TypeOK
        <5>2. ASSUME NEW d \in Boundary, NEW outcome \in {"resolved", "rejected"}, Settle(d, outcome)
              PROVE  status[c] = "waiting"
          BY <2>4, <5>2 DEF Settle, TypeOK
        <5>3. QED
          BY <2>4, <5>1, <5>2, ChainSteps DEF flush, persistAfterPending
      <4>2. QED
        BY <2>4, <4>1, OutcomesStay DEF TypeOK
    <3>4. PICK i \in 1..Len(operations) : operations[i] = c
      BY <3>3 DEF ChainOK
    <3>5. operations[1] = b /\ 1 \in 1..Len(operations)
      BY <2>1, <3>4 DEF Running, TypeOK
    <3>6. accepted[b] <= accepted[c]
      BY <3>1, <3>4, <3>5 DEF ChainOK
    <3>7. QED
      BY <2>2, <3>2, <3>6
  <2>5. KeptOK' /\ turn'[w] # 0
    BY <2>1, <2>2, NextKept
  <2>6. QED
    BY <2>3, <2>4, <2>5 DEF KeptOK
<1>4. ASSUME NEW b \in Boundary, status'[b] = "resolved", direct'[b] # NoWrite PROVE direct'[b] \in Stored'
  <2>1. CASE status[b] = "resolved"
    BY <1>1, <1>4, <2>1, OutcomesStay DEF ResolvedIsDurable
  <2>2. CASE status[b] # "resolved"
    BY <1>1, <1>4, <2>2, ResolveStep
  <2>3. QED
    BY <2>1, <2>2
<1>5. QED
  BY <1>2, <1>3, <1>4 DEF ResolvedIsDurable

-------------------------------------------------------------------------------
(* The theorems. *)

IInv ==
  /\ TypeOK /\ TurnsOK /\ QueueOK /\ MarksOK /\ DirectOK /\ ChainOK /\ AppendOK /\ KeptOK
  /\ ResolvedIsDurable

\* The invariant holds at first.
LEMMA InitInvariant == Init => IInv
<1> SUFFICES ASSUME Init PROVE IInv
  OBVIOUS
<1>1. TypeOK
  BY InitType
<1>2. /\ Len(pendingWrites) = 0 /\ Len(operations) = 0 /\ nextSequence = 1 /\ turns = 0
      /\ \A b \in Boundary : /\ status[b] = "new" /\ direct[b] = NoWrite
                             /\ acceptedThrough[b] = 0 /\ accepted[b] = 0
      /\ \A w \in Write : turn[w] = 0
      /\ append.state = "none"
  BY DEF Init, NoAppend
<1>3. TurnsOK /\ QueueOK /\ MarksOK /\ DirectOK /\ ChainOK
  BY <1>2 DEF TurnsOK, QueueOK, MarksOK, DirectOK, ChainOK
<1>4. AppendOK /\ KeptOK /\ ResolvedIsDurable
  BY <1>2 DEF AppendOK, KeptOK, ResolvedIsDurable
<1>5. QED
  BY <1>1, <1>3, <1>4 DEF IInv

\* Every step keeps the invariant.
LEMMA NextInvariant == IInv /\ [Next]_vars => IInv'
  BY NextType, NextTurns, NextQueue, NextMarks, NextDirect, NextChain, NextAppend, NextKept,
     NextDurable DEF IInv

\* The invariant holds throughout.
LEMMA Invariant == Spec => []IInv
  BY InitInvariant, NextInvariant, PTL DEF Spec

\* The variables of the coordinator keep their types, whatever the interleaving of
\* callers, boundaries and storage.
THEOREM WritesTypeCorrect == Spec => []TypeOK
  BY Invariant, PTL DEF IInv

\* A boundary that resolved has persisted its own write and every write accepted
\* before it that was not refused to its caller (flush and persistAfterPending).
THEOREM ResolvedWritesAreDurable == Spec => []ResolvedIsDurable
  BY Invariant, PTL DEF IInv

\* The write that is being appended is the first of the open ones.
LEMMA AppendIsFirst ==
  ASSUME IInv, append.state # "none"
  PROVE  Order!IsFirst(append.write)
<1> USE DEF IInv
<1> DEFINE b == operations[1]
<1>1. /\ operations # <<>> /\ Head(operations) = b /\ b \in Boundary
      /\ status[b] = "waiting" /\ 1 \in 1..Len(operations)
  <2>1. operations # <<>> /\ operations \in Seq(Boundary)
    BY DEF AppendOK, TypeOK
  <2>2. Head(operations) = b /\ b \in Boundary /\ 1 \in 1..Len(operations)
    BY <2>1
  <2>3. QED
    BY <2>1, <2>2 DEF ChainOK
<1>2. \A v \in Write : turn[v] \in Nat
  BY DEF TypeOK
<1>3. ASSUME NEW c \in Boundary, status[c] = "waiting", direct[c] # NoWrite
      PROVE  /\ direct[c] \in Write /\ turn[direct[c]] = accepted[c] + 1
             /\ accepted[b] \in Nat /\ accepted[c] \in Nat /\ accepted[b] <= accepted[c]
  <2>1. PICK i \in 1..Len(operations) : operations[i] = c
    BY <1>3 DEF ChainOK
  <2>2. accepted[b] \in Nat /\ accepted[c] \in Nat
    BY <1>1 DEF TypeOK
  <2>3. accepted[b] <= accepted[c]
    <3>1. CASE i = 1
      BY <2>1, <2>2, <3>1
    <3>2. CASE 1 < i
      BY <1>1, <2>1, <3>2 DEF ChainOK
    <3>3. QED
      BY <2>1, <3>1, <3>2
  <2>4. QED
    BY <1>3, <2>2, <2>3 DEF DirectOK, TypeOK
<1>4. \A k \in 1..Len(pendingWrites) : pendingWrites[k].sequence \in Nat /\ pendingWrites[k].write \in Write
  BY QueueType
<1>5. Queued = {pendingWrites[k].write : k \in 1..Len(pendingWrites)}
  BY QueueType DEF Queued
<1>6. accepted[b] \in Nat /\ acceptedThrough[b] \in Nat
  BY <1>1 DEF TypeOK
<1>7. CASE Due(b, pendingWrites) /\ append.write = Head(pendingWrites).write
  <2>1. /\ 1 \in 1..Len(pendingWrites) /\ append.write = pendingWrites[1].write
        /\ pendingWrites[1].sequence <= acceptedThrough[b]
    <3>1. pendingWrites # <<>>
      BY <1>7 DEF Due
    <3>2. Head(pendingWrites) = pendingWrites[1] /\ 1 \in 1..Len(pendingWrites)
      BY <3>1, QueueType
    <3>3. QED
      BY <1>7, <3>2 DEF Due
  <2>2. turn[append.write] <= accepted[b]
    BY <1>1, <2>1 DEF MarksOK
  <2>3. ASSUME NEW k \in 1..Len(pendingWrites), pendingWrites[k].write # append.write
        PROVE  turn[append.write] < turn[pendingWrites[k].write]
    <3>1. 1 < k
      BY <2>1, <2>3
    <3>2. QED
      BY <2>1, <3>1 DEF QueueOK
  <2>4. ASSUME NEW c \in Boundary, status[c] = "waiting", direct[c] # NoWrite
        PROVE  turn[append.write] < turn[direct[c]]
    BY <1>2, <1>3, <1>4, <2>1, <2>2, <2>4
  <2>5. QED
    BY <1>5, <2>1, <2>3, <2>4 DEF Order!IsFirst, Order!Open, Awaited, Waiting
<1>8. CASE ~ Due(b, pendingWrites) /\ direct[b] # NoWrite /\ append.write = direct[b]
  <2>1. turn[append.write] = accepted[b] + 1 /\ append.write \in Write
    BY <1>1, <1>3, <1>8
  <2>2. ASSUME NEW k \in 1..Len(pendingWrites), pendingWrites[k].write # append.write
        PROVE  turn[append.write] < turn[pendingWrites[k].write]
    <3>1. 1 \in 1..Len(pendingWrites) /\ pendingWrites[1].sequence > acceptedThrough[b]
      <4>1. pendingWrites # <<>> /\ Head(pendingWrites) = pendingWrites[1] /\ 1 \in 1..Len(pendingWrites)
        BY <2>2, QueueType
      <4>2. QED
        BY <1>4, <1>6, <1>8, <4>1 DEF Due
    <3>2. pendingWrites[1].sequence <= pendingWrites[k].sequence
      <4>1. CASE k = 1
        BY <1>4, <3>1, <4>1
      <4>2. CASE 1 < k
        BY <1>4, <3>1, <4>2 DEF QueueOK
      <4>3. QED
        BY <2>2, <4>1, <4>2
    <3>3. ~ pendingWrites[k].sequence <= acceptedThrough[b]
      BY <1>4, <1>6, <3>1, <3>2
    <3>4. ~ turn[pendingWrites[k].write] <= accepted[b]
      BY <1>1, <3>3 DEF MarksOK
    <3>5. turn[pendingWrites[k].write] # turn[append.write]
      <4>1. turn[append.write] # 0 /\ pendingWrites[k].write \in Write
        BY <1>4, <1>6, <2>1
      <4>2. QED
        BY <2>1, <2>2, <4>1 DEF TurnsOK
    <3>6. QED
      BY <1>2, <1>4, <1>6, <2>1, <3>4, <3>5
  <2>3. ASSUME NEW c \in Boundary, status[c] = "waiting", direct[c] # NoWrite, direct[c] # append.write
        PROVE  turn[append.write] < turn[direct[c]]
    <3>1. turn[direct[c]] # turn[append.write]
      BY <1>3, <1>6, <2>1, <2>3 DEF TurnsOK
    <3>2. QED
      BY <1>3, <2>1, <2>3, <3>1
  <2>4. append.write \in Awaited
    BY <1>1, <1>8 DEF Awaited, Waiting
  <2>5. QED
    BY <1>5, <2>2, <2>3, <2>4 DEF Order!IsFirst, Order!Open, Awaited, Waiting
<1>9. QED
  BY <1>1, <1>7, <1>8 DEF AppendOK

\* A boundary that settles no longer awaits its write; nobody else does.
LEMMA SettleAwaited ==
  ASSUME TypeOK, DirectOK, NEW b \in Boundary, NEW outcome \in {"resolved", "rejected"},
         Running(b), Settle(b, outcome), UNCHANGED direct
  PROVE  Awaited' = Awaited \ {direct[b]}
<1>1. \A c \in Boundary : status'[c] = "waiting" <=> c # b /\ status[c] = "waiting"
  BY DEF Settle, Running, TypeOK
<1>2. \A c \in Boundary : direct[c] # NoWrite /\ direct[c] = direct[b] => c = b
  BY DEF DirectOK
<1>3. QED
  BY <1>1, <1>2 DEF Awaited, Waiting

\* The queue as a set, when its head leaves it.
LEMMA HeadLeaves ==
  ASSUME IInv, pendingWrites # <<>>, pendingWrites' = Tail(pendingWrites)
  PROVE  Queued' = Queued \ {Head(pendingWrites).write}
<1>1. /\ Head(pendingWrites) = pendingWrites[1] /\ 1 \in 1..Len(pendingWrites)
      /\ Len(pendingWrites') = Len(pendingWrites) - 1 /\ Len(pendingWrites) \in Nat
      /\ \A k \in 1..Len(pendingWrites') :
           pendingWrites'[k] = pendingWrites[k + 1] /\ k + 1 \in 1..Len(pendingWrites)
      /\ DOMAIN pendingWrites = 1..Len(pendingWrites) /\ DOMAIN pendingWrites' = 1..Len(pendingWrites')
  BY QueueType
<1>2. \A k \in 1..Len(pendingWrites) : 1 < k => pendingWrites[k].write # pendingWrites[1].write
  <2>1. \A k \in 1..Len(pendingWrites) : turn[pendingWrites[k].write] \in Nat
    BY QueueType DEF IInv, TypeOK
  <2>2. QED
    BY <1>1, <2>1 DEF IInv, QueueOK
<1>3. Queued' \subseteq Queued \ {pendingWrites[1].write}
  <2>1. ASSUME NEW k \in 1..Len(pendingWrites')
        PROVE  pendingWrites'[k].write \in Queued \ {pendingWrites[1].write}
    <3>1. k + 1 \in 1..Len(pendingWrites) /\ 1 < k + 1 /\ pendingWrites'[k] = pendingWrites[k + 1]
      BY <1>1
    <3>2. pendingWrites[k + 1].write \in Queued
      BY <1>1, <3>1 DEF Queued
    <3>3. QED
      BY <1>2, <3>1, <3>2
  <2>2. QED
    BY <1>1, <2>1 DEF Queued
<1>4. Queued \ {pendingWrites[1].write} \subseteq Queued'
  <2>1. ASSUME NEW k \in 1..Len(pendingWrites), pendingWrites[k].write # pendingWrites[1].write
        PROVE  pendingWrites[k].write \in Queued'
    <3>1. k - 1 \in 1..Len(pendingWrites') /\ (k - 1) + 1 = k
      BY <1>1, <2>1
    <3>2. pendingWrites'[k - 1] = pendingWrites[(k - 1) + 1]
      BY <1>1, <3>1
    <3>3. pendingWrites'[k - 1].write \in Queued'
      BY <1>1, <3>1 DEF Queued
    <3>4. QED
      BY <3>1, <3>2, <3>3
  <2>2. QED
    BY <1>1, <2>1 DEF Queued
<1>5. QED
  BY <1>1, <1>3, <1>4

\* Every step of the coordinator is a step of the order of acceptance, or none.
LEMMA StepRefines ==
  ASSUME IInv, [Next]_vars
  PROVE  [Order!Next]_(Order!vars)
<1> USE DEF IInv
<1> DEFINE Idle == UNCHANGED <<turn, turns, Queued, Awaited, log>>
<1>1. SUFFICES \/ \E w \in Write : Order!Accept(w) \/ Order!Store(w) \/ Order!Settle(w) \/ Order!Refuse(w)
               \/ Idle
  BY DEF Order!Next, Order!vars
<1>2. UNCHANGED pendingWrites => Queued' = Queued
  BY DEF Queued
<1>3. UNCHANGED <<direct, status>> => Awaited' = Awaited
  BY DEF Awaited, Waiting
<1>4. ASSUME NEW w \in Write, enqueue(w) PROVE Order!Accept(w)
  <2>1. AcceptNext(w) /\ UNCHANGED <<direct, status, log>>
    BY <1>4 DEF enqueue
  <2>2. Queued' = Queued \cup {w}
    <3>1. /\ DOMAIN pendingWrites = 1..Len(pendingWrites) /\ DOMAIN pendingWrites' = 1..Len(pendingWrites')
          /\ Len(pendingWrites) \in Nat
      <4>1. TypeOK'
        BY NextType
      <4>2. QED
        BY <4>1, QueueType DEF TypeOK
    <3> HIDE DEF IInv
    <3>a. TypeOK /\ TurnsOK /\ QueueOK
      BY DEF IInv
    <3>b. /\ Len(pendingWrites') = Len(pendingWrites) + 1
          /\ \A k \in 1..Len(pendingWrites) : pendingWrites'[k] = pendingWrites[k]
          /\ pendingWrites'[Len(pendingWrites) + 1].write = w
          /\ \A k \in 1..Len(pendingWrites') : k \in 1..Len(pendingWrites) \/ k = Len(pendingWrites) + 1
      BY <1>4, <3>a, EnqueueEffect
    <3>2. \A k \in 1..Len(pendingWrites) :
            k \in 1..Len(pendingWrites') /\ pendingWrites'[k].write = pendingWrites[k].write
      BY <3>1, <3>b
    <3>3. /\ Len(pendingWrites) + 1 \in 1..Len(pendingWrites')
          /\ pendingWrites'[Len(pendingWrites) + 1].write = w
          /\ \A k \in 1..Len(pendingWrites') : k \in 1..Len(pendingWrites) \/ k = Len(pendingWrites) + 1
      BY <3>1, <3>b
    <3>4. QED
      BY <3>1, <3>2, <3>3 DEF Queued
  <2>3. QED
    BY <1>3, <2>1, <2>2 DEF AcceptNext, Order!Accept
<1>5. ASSUME NEW b \in Boundary, NEW w \in Write, persistAfterPending(b, w) PROVE Order!Accept(w)
  <2>1. AcceptNext(w) /\ UNCHANGED <<pendingWrites, log>> /\ status[b] = "new"
    BY <1>5 DEF persistAfterPending, serialize
  <2>2. /\ status'[b] = "waiting" /\ direct'[b] = w
        /\ \A c \in Boundary : c # b => status'[c] = status[c] /\ direct'[c] = direct[c]
    BY <1>5 DEF persistAfterPending, serialize, TypeOK
  <2>3. Awaited' = Awaited \cup {w}
    BY <2>1, <2>2, WriteAssumption DEF Awaited, Waiting
  <2>4. QED
    BY <1>2, <2>1, <2>3 DEF AcceptNext, Order!Accept
<1>6. ASSUME NEW b \in Boundary, flush(b) PROVE Idle
  <2>1. UNCHANGED <<pendingWrites, log, turn, turns>> /\ status[b] = "new"
    BY <1>6 DEF flush, serialize
  <2>2. /\ status'[b] = "waiting" /\ direct'[b] = NoWrite
        /\ \A c \in Boundary : c # b => status'[c] = status[c] /\ direct'[c] = direct[c]
    BY <1>6 DEF flush, serialize, TypeOK
  <2>3. Awaited' = Awaited
    BY <2>1, <2>2 DEF Awaited, Waiting
  <2>4. QED
    BY <1>2, <2>1, <2>3
<1>7. CASE AppendEnds
  <2>1. UNCHANGED <<pendingWrites, direct, status, turn, turns>> /\ append.state = "appending"
    BY <1>7 DEF AppendEnds
  <2>2. Order!IsFirst(append.write) /\ append.write \in Write
    BY <2>1, AppendIsFirst DEF TypeOK
  <2>3. log' = Append(log, append.write) \/ UNCHANGED log
    BY <1>7 DEF AppendEnds
  <2>4. QED
    BY <1>2, <1>3, <2>1, <2>2, <2>3 DEF Order!Store
<1>8. ASSUME NEW b \in Boundary, NEW queue, Running(b), Continue(b, queue), UNCHANGED direct
      PROVE  Awaited' = Awaited
  <2>1. CASE Settle(b, "resolved") /\ direct[b] = NoWrite
    BY <1>8, <2>1, SettleAwaited DEF Awaited
  <2>2. CASE UNCHANGED status
    BY <1>3, <1>8, <2>2
  <2>3. QED
    BY <1>8, <2>1, <2>2 DEF Continue, BeginAppend
<1>9. ASSUME NEW b \in Boundary, Begin(b) PROVE Idle
  BY <1>2, <1>8, <1>9 DEF Begin
<1>10. ASSUME NEW b \in Boundary, Resume(b) PROVE Order!Settle(append.write) /\ append.write \in Write
  <2>1. Running(b) /\ append.state = "appended" /\ UNCHANGED <<direct, log, turn, turns>>
    BY <1>10 DEF Resume
  <2>2. Order!IsFirst(append.write) /\ append.write \in Write /\ append.write \in Stored
    BY <2>1, AppendIsFirst DEF AppendOK, TypeOK
  <2>3. Queued' = Queued \ {append.write} /\ Awaited' = Awaited \ {append.write}
    <3>1. CASE append.write = direct[b]
      <4>1. Settle(b, "resolved") /\ UNCHANGED pendingWrites
        BY <1>10, <3>1 DEF Resume
      <4>2. append.write \notin Queued
        BY <2>2, <3>1, QueueType, WriteAssumption DEF DirectOK, Queued
      <4>3. Awaited' = Awaited \ {append.write}
        BY <2>1, <3>1, <4>1, SettleAwaited
      <4>4. QED
        BY <1>2, <4>1, <4>2, <4>3
    <3>2. CASE append.write # direct[b]
      <4>1. pendingWrites' = Tail(pendingWrites) /\ Continue(b, Tail(pendingWrites))
        BY <1>10, <3>2 DEF Resume
      <4>2. pendingWrites # <<>> /\ append.write = Head(pendingWrites).write
        BY <2>1, <3>2 DEF AppendOK, Running, Due
      <4>3. Head(pendingWrites) = pendingWrites[1] /\ 1 \in 1..Len(pendingWrites)
        BY <4>2, QueueType
      <4>4. append.write \notin Awaited
        <5>1. \A c \in Boundary : direct[c] # NoWrite => append.write # direct[c]
          BY <4>2, <4>3 DEF DirectOK
        <5>2. QED
          BY <5>1 DEF Awaited, Waiting
      <4>5. Awaited' = Awaited
        BY <1>8, <2>1, <4>1
      <4>6. QED
        BY <4>1, <4>2, <4>4, <4>5, HeadLeaves
    <3>3. QED
      BY <3>1, <3>2
  <2>4. \E i \in DOMAIN log : log[i] = append.write
    BY <2>2 DEF Stored
  <2>5. QED
    BY <2>1, <2>2, <2>3, <2>4 DEF Order!Settle
<1>11. ASSUME NEW b \in Boundary, Fail(b) PROVE Idle \/ (direct[b] \in Write /\ Order!Refuse(direct[b]))
  <2>1. /\ Running(b) /\ Settle(b, "rejected")
        /\ UNCHANGED <<pendingWrites, direct, log, turn, turns>>
    BY <1>11 DEF Fail
  <2>2. Awaited' = Awaited \ {direct[b]}
    BY <2>1, SettleAwaited
  <2>3. CASE direct[b] = NoWrite
    BY <1>2, <2>1, <2>2, <2>3 DEF Awaited
  <2>4. CASE direct[b] # NoWrite
    <3>1. direct[b] \in Awaited /\ direct[b] \in Write
      BY <2>1, <2>4 DEF Awaited, Waiting, Running, TypeOK
    <3>2. QED
      BY <1>2, <2>1, <2>2, <3>1 DEF Order!Refuse
  <2>5. QED
    BY <2>3, <2>4
<1>12. CASE UNCHANGED vars
  BY <1>2, <1>3, <1>12 DEF vars
<1>13. QED
  BY <1>4, <1>5, <1>6, <1>7, <1>9, <1>10, <1>11, <1>12 DEF Next

\* The coordinator implements the order of acceptance: what reaches the storage
\* is always the first open write, whoever fails and whoever calls meanwhile.
THEOREM CoordinatorImplementsOrder == Spec => ImplementsOrder
<1>1. Init => Order!Init
  BY DEF Init, Order!Init, Queued, Awaited, Waiting
<1>2. IInv /\ [Next]_vars => [Order!Next]_(Order!vars)
  BY StepRefines
<1>3. QED
  BY <1>1, <1>2, Invariant, PTL DEF Spec, ImplementsOrder, Order!Spec

\* What is stored has been accepted, and not after a write that is still open.
LogOK ==
  /\ \A i \in DOMAIN log : log[i] \in Write /\ turn[log[i]] # 0
  /\ \A i \in DOMAIN log : \A w \in Queued \cup Awaited : turn[log[i]] <= turn[w]
  /\ Order!LogInOrder

\* A write that is open has been accepted.
LEMMA OpenAccepted ==
  ASSUME IInv
  PROVE  \A w \in Queued \cup Awaited : w \in Write /\ turn[w] # 0
<1>1. ASSUME NEW w \in Queued PROVE w \in Write /\ turn[w] # 0
  <2>1. PICK k \in 1..Len(pendingWrites) : w = pendingWrites[k].write
    BY QueueType DEF Queued, IInv
  <2>2. QED
    BY <2>1, QueueType DEF IInv, QueueOK
<1>2. ASSUME NEW w \in Awaited PROVE w \in Write /\ turn[w] # 0
  <2>1. PICK b \in Boundary : w = direct[b] /\ direct[b] # NoWrite
    BY DEF Awaited, Waiting
  <2>2. direct[b] \in Write /\ accepted[b] \in Nat
    BY <2>1 DEF IInv, TypeOK
  <2>3. QED
    BY <2>1, <2>2 DEF IInv, DirectOK
<1>3. QED
  BY <1>1, <1>2

\* Every step of the order of acceptance keeps the log in order.
LEMMA NextLog ==
  ASSUME TypeOK, TurnsOK, LogOK, [Order!Next]_(Order!vars),
         \A w \in Queued \cup Awaited : w \in Write /\ turn[w] # 0
  PROVE  LogOK'
<1> USE DEF Order!LogInOrder
<1>1. ASSUME NEW w \in Write, Order!Accept(w) PROVE LogOK'
  <2>1. /\ turn'[w] = turns + 1 /\ turn[w] = 0 /\ log' = log
        /\ \A v \in Write : v # w => turn'[v] = turn[v]
        /\ (Queued \cup Awaited)' = Queued \cup Awaited \cup {w}
    BY <1>1 DEF Order!Accept, TypeOK
  <2>2. \A i \in DOMAIN log : /\ log[i] \in Write /\ turn'[log[i]] = turn[log[i]]
                              /\ turn[log[i]] <= turns /\ turn[log[i]] \in Nat /\ turns \in Nat
    BY <2>1 DEF LogOK, TurnsOK, TypeOK
  <2>3. \A v \in Queued \cup Awaited : v \in Write
    OBVIOUS
  <2>4. \A i \in DOMAIN log : \A v \in Queued \cup Awaited \cup {w} : turn'[log[i]] <= turn'[v]
    BY <2>1, <2>2, <2>3 DEF LogOK
  <2>5. QED
    BY <2>1, <2>2, <2>4 DEF LogOK
<1>2. ASSUME NEW w \in Write, Order!Store(w) PROVE LogOK'
  <2>1. /\ w \in Queued \cup Awaited /\ log' = Append(log, w)
        /\ UNCHANGED <<turn, Queued, Awaited>>
        /\ \A v \in Queued \cup Awaited : v # w => turn[w] < turn[v]
    BY <1>2 DEF Order!Store, Order!IsFirst, Order!Open
  <2>2. turn[w] # 0 /\ \A v \in Write : turn[v] \in Nat
    <3>1. \A v \in Write : turn[v] \in Nat
      BY DEF TypeOK
    <3>2. QED
      BY <2>1, <3>1
  <2>3. /\ log \in Seq(Write) /\ Len(log) \in Nat /\ DOMAIN log = 1..Len(log)
        /\ DOMAIN log' = 1..(Len(log) + 1) /\ log'[Len(log) + 1] = w
        /\ \A i \in 1..Len(log) : log'[i] = log[i]
    BY <2>1 DEF TypeOK
  <2>4. \A i \in DOMAIN log' : i \in 1..Len(log) \/ i = Len(log) + 1
    BY <2>3
  <2>5. \A i \in 1..Len(log) : turn[log[i]] <= turn[w]
    BY <2>1, <2>3 DEF LogOK
  <2>6. \A i \in DOMAIN log' : \A v \in Queued \cup Awaited : turn[log'[i]] <= turn[v]
    BY <2>1, <2>2, <2>3, <2>4 DEF LogOK
  <2>7. \A i \in DOMAIN log' : log'[i] \in Write /\ turn[log'[i]] # 0
    BY <2>1, <2>2, <2>3, <2>4 DEF LogOK
  <2>8. \A i, j \in DOMAIN log' : i < j => turn[log'[i]] <= turn[log'[j]]
    <3> TAKE i, j \in DOMAIN log'
    <3> HAVE i < j
    <3>1. i \in 1..Len(log)
      BY <2>3
    <3>2. CASE j \in 1..Len(log)
      BY <2>3, <3>1, <3>2 DEF LogOK
    <3>3. CASE j = Len(log) + 1
      BY <2>3, <2>5, <3>1, <3>3
    <3>4. QED
      BY <2>4, <3>2, <3>3
  <2>9. QED
    BY <2>1, <2>6, <2>7, <2>8 DEF LogOK
<1>3. ASSUME NEW w \in Write, Order!Settle(w) \/ Order!Refuse(w) PROVE LogOK'
  BY <1>3 DEF Order!Settle, Order!Refuse, LogOK
<1>4. CASE UNCHANGED (Order!vars)
  BY <1>4 DEF Order!vars, LogOK
<1>5. QED
  BY <1>1, <1>2, <1>3, <1>4 DEF Order!Next

\* The storage never goes back in the order of acceptance, though a write whose
\* append failed may be stored twice.
THEOREM StorageInOrder == Spec => []Order!LogInOrder
<1>1. Init => LogOK
  BY DEF Init, LogOK, Order!LogInOrder
<1>2. IInv /\ LogOK /\ [Next]_vars => LogOK'
  BY StepRefines, NextLog, OpenAccepted DEF IInv
<1>3. LogOK => Order!LogInOrder
  BY DEF LogOK
<1>4. QED
  BY <1>1, <1>2, <1>3, Invariant, PTL DEF Spec

\* A boundary that waits has one that runs, which was not called after it.
SomeoneIsAhead ==
  \A b \in Boundary : status[b] = "waiting" =>
    \E c \in Boundary : Running(c) /\ accepted[c] <= accepted[b]

\* No boundary waits in vain: as long as one waits, one runs that was called no later,
\* also behind boundaries whose appends failed.
THEOREM ChainGoesOn == Spec => []SomeoneIsAhead
<1>1. IInv => SomeoneIsAhead
  <2> SUFFICES ASSUME IInv, NEW b \in Boundary, status[b] = "waiting"
               PROVE  \E c \in Boundary : Running(c) /\ accepted[c] <= accepted[b]
    BY DEF SomeoneIsAhead
  <2>1. /\ operations \in Seq(Boundary) /\ accepted[b] \in Nat /\ accepted \in [Boundary -> Nat]
        /\ status \in [Boundary -> {"new", "waiting", "resolved", "rejected"}]
    BY DEF IInv, TypeOK
  <2>2. PICK i \in 1..Len(operations) : operations[i] = b
    BY DEF IInv, ChainOK
  <2>3. operations # <<>> /\ Head(operations) = operations[1] /\ 1 \in 1..Len(operations)
    BY <2>1, <2>2
  <2>4. operations[1] \in Boundary /\ status[operations[1]] = "waiting"
    BY <2>1, <2>3 DEF IInv, ChainOK
  <2>5. accepted[operations[1]] <= accepted[b]
    <3>1. CASE i = 1
      BY <2>1, <2>2, <3>1
    <3>2. CASE 1 < i
      BY <2>2, <2>3, <3>2 DEF IInv, ChainOK
    <3>3. QED
      BY <2>1, <2>2, <3>1, <3>2
  <2>6. QED
    BY <2>3, <2>4, <2>5 DEF Running
<1>2. QED
  BY <1>1, Invariant, PTL

===============================================================================
