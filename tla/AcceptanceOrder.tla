---------------------------- MODULE AcceptanceOrder ----------------------------
(***************************************************************************)
(* What a session promises to those who write to it: writes are persisted  *)
(* in the order in which they were accepted.  A write that its writer left *)
(* to the session stays open until it has been persisted; one that its     *)
(* writer waits for may be refused.  Storage that fails may have stored    *)
(* the write all the same, and then the write may be stored again.         *)
(***************************************************************************)
EXTENDS Naturals, Sequences

CONSTANTS
  Write

VARIABLES
  turn,            \* turn[w]: the place of w in the order of acceptance, 0 before
  turns,           \* how many writes have been accepted
  left,            \* open writes left to the session
  awaited,         \* open writes whose writer waits
  log              \* what the storage has stored

vars == <<turn, turns, left, awaited, log>>

Open == left \cup awaited

\* Every other open write was accepted later.
IsFirst(w) == w \in Open /\ \A v \in Open : v # w => turn[w] < turn[v]

Accept(w) ==
  /\ turn[w] = 0
  /\ turns' = turns + 1
  /\ turn' = [turn EXCEPT ![w] = turns + 1]
  /\ \/ left' = left \cup {w} /\ UNCHANGED awaited
     \/ awaited' = awaited \cup {w} /\ UNCHANGED left
  /\ UNCHANGED log

\* The first open write is stored; its writer may not have been told yet, or may
\* never be.
Store(w) ==
  /\ IsFirst(w)
  /\ log' = Append(log, w)
  /\ UNCHANGED <<turn, turns, left, awaited>>

\* An open write that has been stored is done with.
Settle(w) ==
  /\ IsFirst(w) /\ \E i \in DOMAIN log : log[i] = w
  /\ left' = left \ {w} /\ awaited' = awaited \ {w}
  /\ UNCHANGED <<turn, turns, log>>

Refuse(w) ==
  /\ w \in awaited
  /\ awaited' = awaited \ {w}
  /\ UNCHANGED <<turn, turns, left, log>>

Init ==
  /\ turn = [w \in Write |-> 0]
  /\ turns = 0
  /\ left = {} /\ awaited = {}
  /\ log = <<>>

Next == \E w \in Write : Accept(w) \/ Store(w) \/ Settle(w) \/ Refuse(w)

Spec == Init /\ [][Next]_vars

-------------------------------------------------------------------------------

\* The log never goes back in the order of acceptance.
LogInOrder ==
  \A i, j \in DOMAIN log : i < j => turn[log[i]] <= turn[log[j]]

===============================================================================
