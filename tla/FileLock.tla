------------------------------- MODULE FileLock -------------------------------
(***************************************************************************)
(* What a lock between processes that may die promises: one holder at a    *)
(* time, and only the death of the holder takes the lock from it.          *)
(***************************************************************************)
CONSTANTS
  Process

VARIABLES
  holders,         \* who holds the lock, the dead included until it is taken away
  dead

vars == <<holders, dead>>

Acquire(p) == holders = {} /\ p \notin dead /\ holders' = {p} /\ UNCHANGED dead

Release(p) == p \in holders /\ p \notin dead /\ holders' = holders \ {p} /\ UNCHANGED dead

Die(p) == p \notin dead /\ dead' = dead \cup {p} /\ UNCHANGED holders

Break(p) == p \in holders /\ p \in dead /\ holders' = holders \ {p} /\ UNCHANGED dead

Init == holders = {} /\ dead = {}

Next == \E p \in Process : Acquire(p) \/ Release(p) \/ Die(p) \/ Break(p)

Spec == Init /\ [][Next]_vars

===============================================================================
