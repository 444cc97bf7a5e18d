---------------------------- MODULE OperationTurns ----------------------------
(***************************************************************************)
(* What a harness promises to its callers: one operation at a time, each   *)
(* with one outcome that stays; an operation whose abort was delivered is  *)
(* not reported as completed (any may be reported as aborted, for a        *)
(* provider may abort of its own accord); work left for later starts in    *)
(* the order in which it was left, one piece at a time, and only while no  *)
(* operation runs.                                                         *)
(***************************************************************************)
EXTENDS Naturals, Sequences

CONSTANTS
  Operation,
  NoOperation,
  Command

VARIABLES
  current,         \* the operation that has its turn, or NoOperation
  stopped,         \* its abort was delivered
  outcome,         \* its outcome, "none" before
  commands,        \* the work left for later
  running          \* the pieces of it that have started and not ended

vars == <<current, stopped, outcome, commands, running>>

Begin(o) ==
  /\ current = NoOperation
  /\ current' = o
  /\ UNCHANGED <<stopped, outcome>>

Stop(o) ==
  /\ current = o /\ outcome = "none"
  /\ stopped' = TRUE
  /\ UNCHANGED <<current, outcome, commands, running>>

Decide(o) ==
  /\ current = o /\ outcome = "none"
  /\ \E result \in {"completed", "aborted", "cancelled", "failed"} :
       /\ result = "completed" => ~ stopped
       /\ outcome' = result
  /\ UNCHANGED <<current, stopped, commands, running>>

Leave(o) ==
  /\ current = o /\ outcome # "none"
  /\ current' = NoOperation /\ stopped' = FALSE /\ outcome' = "none"

Idling == UNCHANGED <<current, stopped, outcome>>

Register(c) == commands' = Append(commands, c) /\ UNCHANGED running /\ Idling

\* The earliest piece starts, perhaps as it is left or as the one before it ends.
Start ==
  /\ current = NoOperation
  /\ \E queue \in {commands} \cup {Append(commands, c) : c \in Command} :
       /\ queue # <<>>
       /\ running' = {Head(queue)} /\ commands' = Tail(queue)

End(c) == running = {c} /\ running' = {} /\ UNCHANGED commands /\ Idling

Cancel ==
  /\ \E i \in DOMAIN commands :
       commands' = SubSeq(commands, 1, i - 1) \o SubSeq(commands, i + 1, Len(commands))
  /\ UNCHANGED running /\ Idling

Init ==
  /\ current = NoOperation /\ stopped = FALSE
  /\ outcome = "none"
  /\ commands = <<>> /\ running = {}

Next ==
  \/ \E o \in Operation : \/ Begin(o) /\ UNCHANGED <<commands, running>>
                          \/ Stop(o) \/ Decide(o)
                          \/ Leave(o) /\ UNCHANGED <<commands, running>>
  \/ \E c \in Command : Register(c) \/ End(c)
  \/ Cancel
  \/ Start /\ (Idling \/ \E o \in Operation : Begin(o))

Spec == Init /\ [][Next]_vars

===============================================================================
