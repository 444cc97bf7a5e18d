----------------------------- MODULE SessionWrites -----------------------------
(***************************************************************************)
(* The coordinator through which a harness persists what belongs to the    *)
(* session (packages/agent/src/harness/session-write-coordinator.ts).      *)
(*                                                                         *)
(* A boundary is one call of flush or of persistAfterPending.  serialize   *)
(* chains boundaries with promises, which makes them a queue whose head    *)
(* runs; between two awaits the running boundary takes one step.  The      *)
(* session under the coordinator is external: an append that fails may     *)
(* have stored its write.  A boundary asked for while another is being     *)
(* started, by the session from within the call of its first append, is    *)
(* rejected and changes nothing (invokingOperation); it is left out.       *)
(***************************************************************************)
EXTENDS Naturals, Sequences

CONSTANTS
  Write,           \* writes; each is handed over once
  Boundary,        \* calls of flush and persistAfterPending
  NoWrite          \* "the boundary is a flush"

ASSUME WriteAssumption == NoWrite \notin Write

VARIABLES
  pendingWrites,
  nextSequence,
  operations,      \* the chain behind operationTail, the running one first
  acceptedThrough, \* the watermark of each boundary
  direct,          \* the write each boundary persists itself, or NoWrite
  status,          \* what each boundary has come to
  append,          \* the append the running boundary awaits
  log,             \* what the storage has stored
  turn,            \* history: the order of acceptance of all writes
  turns,
  accepted         \* history: how many writes were accepted before the boundary

vars == <<pendingWrites, nextSequence, operations, acceptedThrough, direct, status,
          append, log, turn, turns, accepted>>

NoAppend == [write |-> NoWrite, state |-> "none"]

Stored == {log[i] : i \in DOMAIN log}

-------------------------------------------------------------------------------

AcceptNext(w) ==
  /\ turn[w] = 0
  /\ turns' = turns + 1
  /\ turn' = [turn EXCEPT ![w] = turns + 1]

enqueue(w) ==
  /\ AcceptNext(w)
  /\ pendingWrites' = Append(pendingWrites, [sequence |-> nextSequence, write |-> w])
  /\ nextSequence' = nextSequence + 1
  /\ UNCHANGED <<operations, acceptedThrough, direct, status, append, log, accepted>>

\* The boundary is reserved at the call, with the watermark of the call.
serialize(b, w) ==
  /\ status[b] = "new"
  /\ status' = [status EXCEPT ![b] = "waiting"]
  /\ operations' = Append(operations, b)
  /\ acceptedThrough' = [acceptedThrough EXCEPT ![b] = nextSequence - 1]
  /\ direct' = [direct EXCEPT ![b] = w]
  /\ accepted' = [accepted EXCEPT ![b] = turns]
  /\ UNCHANGED <<pendingWrites, nextSequence, append, log>>

flush(b) == serialize(b, NoWrite) /\ UNCHANGED <<turn, turns>>

persistAfterPending(b, w) == AcceptNext(w) /\ serialize(b, w)

\* Seeded fault: the running boundary drains whatever is there.
DueNow(b, queue) == queue # <<>>

\* The head of the queue was accepted before the boundary.
Due(b, queue) == queue # <<>> /\ Head(queue).sequence <= acceptedThrough[b]

BeginAppend(w) ==
  /\ append' = [write |-> w, state |-> "appending"]
  /\ UNCHANGED <<operations, status>>

\* Seeded fault: the tail of the chain is released when the boundary succeeds only.
SettleReleasing(b, outcome) ==
  /\ status' = [status EXCEPT ![b] = outcome]
  /\ append' = NoAppend
  /\ operations' = IF outcome = "resolved" THEN Tail(operations) ELSE operations

\* The boundary settles and releases the next one, whatever its outcome.
Settle(b, outcome) ==
  /\ status' = [status EXCEPT ![b] = outcome]
  /\ append' = NoAppend
  /\ operations' = Tail(operations)

\* The loop of flushPendingThrough over what is left, and what follows it.
Continue(b, queue) ==
  \/ Due(b, queue) /\ BeginAppend(Head(queue).write)
  \/ ~ Due(b, queue) /\ direct[b] # NoWrite /\ BeginAppend(direct[b])
  \/ ~ Due(b, queue) /\ direct[b] = NoWrite /\ Settle(b, "resolved")

Running(b) == operations # <<>> /\ Head(operations) = b /\ status[b] = "waiting"

Begin(b) ==
  /\ Running(b) /\ append.state = "none"
  /\ Continue(b, pendingWrites)
  /\ UNCHANGED <<pendingWrites, nextSequence, acceptedThrough, direct, log, turn, turns, accepted>>

\* The session stores the write and answers; the answer and the log may differ.
AppendEnds ==
  /\ append.state = "appending"
  /\ \/ append' = [append EXCEPT !.state = "appended"] /\ log' = Append(log, append.write)
     \/ append' = [append EXCEPT !.state = "failed"] /\ log' = Append(log, append.write)
     \/ append' = [append EXCEPT !.state = "failed"] /\ UNCHANGED log
  /\ UNCHANGED <<pendingWrites, nextSequence, operations, acceptedThrough, direct, status,
                 turn, turns, accepted>>

Resume(b) ==
  /\ Running(b) /\ append.state = "appended"
  /\ IF append.write = direct[b]
     THEN Settle(b, "resolved") /\ UNCHANGED pendingWrites
     ELSE pendingWrites' = Tail(pendingWrites) /\ Continue(b, Tail(pendingWrites))
  /\ UNCHANGED <<nextSequence, acceptedThrough, direct, log, turn, turns, accepted>>

\* Seeded fault: the head is taken from the queue though it was not stored.
FailDropping(b) ==
  /\ Running(b) /\ append.state = "failed"
  /\ Settle(b, "rejected")
  /\ pendingWrites' = IF append.write = direct[b] THEN pendingWrites ELSE Tail(pendingWrites)
  /\ UNCHANGED <<nextSequence, acceptedThrough, direct, log, turn, turns, accepted>>

\* A failed append rejects the boundary; a failed head stays at the head.
Fail(b) ==
  /\ Running(b) /\ append.state = "failed"
  /\ Settle(b, "rejected")
  /\ UNCHANGED <<pendingWrites, nextSequence, acceptedThrough, direct, log, turn, turns, accepted>>

Init ==
  /\ pendingWrites = <<>> /\ nextSequence = 1
  /\ operations = <<>>
  /\ acceptedThrough = [b \in Boundary |-> 0]
  /\ direct = [b \in Boundary |-> NoWrite]
  /\ status = [b \in Boundary |-> "new"]
  /\ append = NoAppend
  /\ log = <<>>
  /\ turn = [w \in Write |-> 0] /\ turns = 0
  /\ accepted = [b \in Boundary |-> 0]

Next ==
  \/ \E w \in Write : enqueue(w) \/ \E b \in Boundary : persistAfterPending(b, w)
  \/ AppendEnds
  \/ \E b \in Boundary : flush(b) \/ Begin(b) \/ Resume(b) \/ Fail(b)

Spec == Init /\ [][Next]_vars

\* A ready promise is resumed, and an append of the session settles.
Fairness ==
  /\ WF_vars(AppendEnds)
  /\ \A b \in Boundary : WF_vars(Begin(b)) /\ WF_vars(Resume(b)) /\ WF_vars(Fail(b))

FairSpec == Spec /\ Fairness

-------------------------------------------------------------------------------

Queued == {pendingWrites[k].write : k \in DOMAIN pendingWrites}

Waiting == {b \in Boundary : status[b] = "waiting"}

Awaited == {direct[b] : b \in Waiting} \ {NoWrite}

TypeOK ==
  /\ pendingWrites \in Seq([sequence : Nat \ {0}, write : Write])
  /\ nextSequence \in Nat \ {0}
  /\ operations \in Seq(Boundary)
  /\ acceptedThrough \in [Boundary -> Nat]
  /\ direct \in [Boundary -> Write \cup {NoWrite}]
  /\ status \in [Boundary -> {"new", "waiting", "resolved", "rejected"}]
  /\ append \in [write : Write \cup {NoWrite}, state : {"none", "appending", "appended", "failed"}]
  /\ append.state # "none" => append.write \in Write
  /\ log \in Seq(Write)
  /\ turn \in [Write -> Nat] /\ turns \in Nat
  /\ accepted \in [Boundary -> Nat]

Order == INSTANCE AcceptanceOrder WITH left <- Queued, awaited <- Awaited

\* "Persistence follows acceptance order" (comment of the class): however enqueues,
\* boundaries and failing appends interleave, the coordinator implements the order
\* of acceptance.
ImplementsOrder == Order!Spec

\* A boundary that resolved has persisted every write accepted before it, those
\* that an earlier boundary failed to persist included; a write another caller
\* waits for may have been refused to that caller.
ResolvedIsDurable ==
  \A b \in Boundary : status[b] = "resolved" =>
    /\ direct[b] # NoWrite => direct[b] \in Stored
    /\ \A w \in Write : turn[w] \in 1..accepted[b] =>
         \/ w \in Stored
         \/ \E c \in Boundary : direct[c] = w /\ status[c] = "rejected"

\* A boundary settles in the end, also behind boundaries that fail.
BoundariesSettle ==
  \A b \in Boundary : status[b] = "waiting" ~> status[b] \in {"resolved", "rejected"}

===============================================================================
