---------------------------- MODULE DurableFileLock ----------------------------
(***************************************************************************)
(* The lock of one durable file among processes                            *)
(* (packages/coding-agent/src/core/durable-file-lock-storage and -cleanup).*)
(*                                                                         *)
(* A lock is a directory with an owner file in it.  A lock whose owner has *)
(* died is taken away by whoever holds its gate, another such lock whose   *)
(* name tells the owner to be removed; a gate may have to be taken away    *)
(* likewise.  The name of a lock is the sequence of the tokens of the dead *)
(* owners it is a gate for: <<>> is the lock itself, <<t>> the gate for    *)
(* its owner t, <<t, u>> the gate for the owner u of that gate.  A process *)
(* that wants <<t, u>> wants <<t>> next and then <<>>, so the name is its  *)
(* call stack too.                                                         *)
(*                                                                         *)
(* Steps are calls of the file system.  Reading the owner is one step (the *)
(* code reads twice and takes a change as "unknown"); so is moving a lock  *)
(* aside and cleaning up what was moved, which nobody else touches.  Every *)
(* step may fail where the code lets it, before or after it took effect.   *)
(***************************************************************************)
EXTENDS Naturals, Sequences, FiniteSets

CONSTANTS
  Process,
  Patient,         \* processes whose deadline is far away
  MaxAttempts,     \* bound: acquisitions of each process
  MaxCrashes,      \* bound: processes that die
  MaxFaults        \* bound: calls of the file system that fail

ASSUME LockAssumption ==
  /\ Patient \subseteq Process
  /\ MaxAttempts \in [Process -> Nat] /\ MaxCrashes \in Nat /\ MaxFaults \in Nat

VARIABLES
  directory,       \* the lock directories by name, each with token and owner
  nextToken,
  pc,              \* where each process is
  path,            \* the lock each process wants or has
  expired,         \* the deadline of the process has passed
  retained,        \* locks each process failed to move aside
  debris,          \* processes that moved a lock aside and failed to clean it up
  attempts,
  faults

vars == <<directory, nextToken, pc, path, expired, retained, debris, attempts, faults>>

Dead == {p \in Process : pc[p] = "dead"}

Exists(name) == name \in DOMAIN directory

\* The owner file of a lock directory exists.
Readable(name) == Exists(name) /\ directory[name].written

Without(name) == [n \in DOMAIN directory \ {name} |-> directory[n]]

\* The directory of that name with its owner file in it.
WithOwner(name) == [directory EXCEPT ![name].written = TRUE]

\* That many calls of the file system fail in this step.
Fail(n) == faults + n <= MaxFaults /\ faults' = faults + n

Goto(p, label) == pc' = [pc EXCEPT ![p] = label]

\* An error leaves every frame of the stack: none of them holds a lock.
Throw(p, label) == Goto(p, label) /\ path' = [path EXCEPT ![p] = <<>>]

-------------------------------------------------------------------------------
(* Acquiring. *)

acquire(p) ==
  /\ pc[p] \in {"idle", "busy", "failed"} /\ attempts[p] < MaxAttempts[p]
  /\ attempts' = [attempts EXCEPT ![p] = @ + 1]
  /\ expired' = [expired EXCEPT ![p] = FALSE]
  /\ Goto(p, "drain")
  /\ UNCHANGED <<directory, nextToken, path, retained, debris, faults>>

\* drainRetryableDurableFileLocksSync: what earlier releases left goes first, the
\* locks still in their place one by one; nobody else sees what was moved aside.
Drain(p) ==
  /\ pc[p] = "drain"
  /\ IF retained[p] # <<>>
     THEN /\ directory' = Without(retained[p][Len(retained[p])])
          /\ retained' = [retained EXCEPT ![p] = SubSeq(@, 1, Len(@) - 1)]
          /\ UNCHANGED <<pc, debris>>
     ELSE Goto(p, "mkdir") /\ debris' = debris \ {p} /\ UNCHANGED <<directory, retained>>
  /\ UNCHANGED <<nextToken, path, expired, attempts, faults>>

\* A lock cannot be moved aside, or what was moved cannot be cleaned up.
DrainFails(p) ==
  /\ pc[p] = "drain" /\ Fail(1)
  /\ \/ retained[p] # <<>> /\ UNCHANGED <<directory, retained, debris>>
     \/ /\ retained[p] # <<>>
        /\ directory' = Without(retained[p][Len(retained[p])])
        /\ retained' = [retained EXCEPT ![p] = SubSeq(@, 1, Len(@) - 1)]
        /\ debris' = debris \cup {p}
     \/ retained[p] = <<>> /\ p \in debris /\ UNCHANGED <<directory, retained, debris>>
  /\ Goto(p, "failed")
  /\ UNCHANGED <<nextToken, path, expired, attempts>>

Mkdir(p) ==
  /\ pc[p] = "mkdir"
  /\ IF Exists(path[p])
     THEN Goto(p, "inspect") /\ UNCHANGED <<directory, nextToken>>
     ELSE /\ directory' = [n \in DOMAIN directory \cup {path[p]} |->
                             IF n = path[p] THEN [token |-> nextToken, owner |-> p, written |-> FALSE]
                                            ELSE directory[n]]
          /\ nextToken' = nextToken + 1
          /\ Goto(p, "write")
  /\ UNCHANGED <<path, expired, retained, debris, attempts, faults>>

MkdirFails(p) ==
  /\ pc[p] = "mkdir" /\ Fail(1)
  /\ Throw(p, "failed")
  /\ UNCHANGED <<directory, nextToken, expired, retained, debris, attempts>>

\* The owner file is written and the lock is held; if it is a gate, the lock behind
\* it is next.
WriteOwner(p) ==
  /\ pc[p] = "write"
  /\ directory' = WithOwner(path[p])
  /\ Goto(p, IF path[p] = <<>> THEN "held" ELSE "check")
  /\ UNCHANGED <<nextToken, path, expired, retained, debris, attempts, faults>>

\* The directory cannot be read, signed or read back, and is removed, if that does not
\* fail too.  Only a lock that was signed is retained; a directory that is not, or
\* whose owner file cannot be removed again, stays for good.
WriteFails(p) ==
  /\ pc[p] = "write"
  /\ \/ Fail(1) /\ directory' \in {Without(path[p]), directory} /\ UNCHANGED <<retained, debris>>
     \/ /\ Fail(2)
        /\ \/ directory' = WithOwner(path[p]) /\ UNCHANGED <<retained, debris>>
           \/ /\ directory' = WithOwner(path[p])
              /\ retained' = [retained EXCEPT ![p] = Append(@, path[p])]
              /\ UNCHANGED debris
           \/ directory' = Without(path[p]) /\ debris' = debris \cup {p} /\ UNCHANGED retained
  /\ Throw(p, "failed")
  /\ UNCHANGED <<nextToken, expired, attempts>>

\* Seeded fault: a lock without an owner file is taken for a dead one.
InspectHasty(p) ==
  /\ pc[p] = "inspect"
  /\ \/ ~ Exists(path[p]) /\ Goto(p, "mkdir") /\ UNCHANGED path
     \/ Readable(path[p]) /\ directory[path[p]].owner \notin Dead /\ Goto(p, "wait") /\ UNCHANGED path
     \/ /\ Exists(path[p]) /\ (Readable(path[p]) => directory[path[p]].owner \in Dead)
        /\ path' = [path EXCEPT ![p] = Append(@, directory[@].token)]
        /\ Goto(p, "mkdir")
  /\ UNCHANGED <<directory, nextToken, expired, retained, debris, attempts, faults>>

\* Seeded fault: a dead owner is taken for a live one.
InspectTimid(p) ==
  /\ pc[p] = "inspect"
  /\ IF Exists(path[p]) THEN Goto(p, "wait") ELSE Goto(p, "mkdir")
  /\ UNCHANGED <<directory, nextToken, path, expired, retained, debris, attempts, faults>>

\* inspectDurableFileLockPathSync: absent, unknown, live, or to be reclaimed.
Inspect(p) ==
  /\ pc[p] = "inspect"
  /\ \/ ~ Exists(path[p]) /\ Goto(p, "mkdir") /\ UNCHANGED path
     \/ Exists(path[p]) /\ ~ Readable(path[p]) /\ Goto(p, "wait") /\ UNCHANGED path
     \/ Readable(path[p]) /\ directory[path[p]].owner \notin Dead /\ Goto(p, "wait") /\ UNCHANGED path
     \/ /\ Readable(path[p]) /\ directory[path[p]].owner \in Dead
        /\ path' = [path EXCEPT ![p] = Append(@, directory[@].token)]
        /\ Goto(p, "mkdir")
  /\ UNCHANGED <<directory, nextToken, expired, retained, debris, attempts, faults>>

\* An owner that cannot be read is unknown.
InspectFails(p) ==
  /\ pc[p] = "inspect" /\ Fail(1)
  /\ Goto(p, "wait")
  /\ UNCHANGED <<directory, nextToken, path, expired, retained, debris, attempts>>

\* Seeded fault: the loop waits on after the deadline.
WaitOn(p) ==
  /\ pc[p] = "wait"
  /\ Goto(p, "mkdir") /\ UNCHANGED path
  /\ UNCHANGED <<directory, nextToken, expired, retained, debris, attempts, faults>>

Wait(p) ==
  /\ pc[p] = "wait"
  /\ IF expired[p] THEN Throw(p, "busy") ELSE Goto(p, "mkdir") /\ UNCHANGED path
  /\ UNCHANGED <<directory, nextToken, expired, retained, debris, attempts, faults>>

-------------------------------------------------------------------------------
(* Reclaiming, with the gate path[p] held. *)

\* The lock behind the gate, and the token of the dead owner that it was for.
Stale(p) == SubSeq(path[p], 1, Len(path[p]) - 1)

Observed(p) == path[p][Len(path[p])]

\* Seeded fault: what is there is not compared with what was observed.
CheckNothing(p) ==
  /\ pc[p] = "check"
  /\ Goto(p, IF Exists(Stale(p)) THEN "retire" ELSE "gateRetired")
  /\ UNCHANGED <<directory, nextToken, path, expired, retained, debris, attempts, faults>>

\* The owner behind the gate is read again: still the dead one, gone, another one,
\* or, an error, a directory that has no owner yet.
Check(p) ==
  /\ pc[p] = "check"
  /\ \/ Readable(Stale(p)) /\ directory[Stale(p)].token = Observed(p) /\ Goto(p, "retire")
     \/ Readable(Stale(p)) /\ directory[Stale(p)].token # Observed(p) /\ Goto(p, "gateKept")
     \/ ~ Exists(Stale(p)) /\ Goto(p, "gateRetired")
     \/ Exists(Stale(p)) /\ ~ Readable(Stale(p)) /\ Goto(p, "gateFailed")
  /\ UNCHANGED <<directory, nextToken, path, expired, retained, debris, attempts, faults>>

CheckFails(p) ==
  /\ pc[p] = "check" /\ Fail(1)
  /\ Goto(p, "gateFailed")
  /\ UNCHANGED <<directory, nextToken, path, expired, retained, debris, attempts>>

\* The directory of that name, whatever it is by now, is moved aside.
Retire(p) ==
  /\ pc[p] = "retire"
  /\ directory' = Without(Stale(p))
  /\ Goto(p, "gateRetired")
  /\ UNCHANGED <<nextToken, path, expired, retained, debris, attempts, faults>>

\* It cannot be moved, or not be cleaned up once it was.
RetireFails(p) ==
  /\ pc[p] = "retire" /\ Fail(1)
  /\ \/ UNCHANGED <<directory, debris>>
     \/ directory' = Without(Stale(p)) /\ debris' = debris \cup {p}
  /\ Goto(p, "gateFailed")
  /\ UNCHANGED <<nextToken, path, expired, retained, attempts>>

\* The gate is released, and the caller hears what became of the lock behind it.
LeaveGate(p) ==
  /\ pc[p] \in {"gateRetired", "gateKept", "gateFailed"}
  /\ directory' = Without(path[p])
  /\ IF pc[p] = "gateFailed" THEN Throw(p, "failed")
     ELSE /\ path' = [path EXCEPT ![p] = Stale(p)]
          /\ Goto(p, IF pc[p] = "gateRetired" THEN "mkdir" ELSE "wait")
  /\ UNCHANGED <<nextToken, expired, retained, debris, attempts, faults>>

-------------------------------------------------------------------------------
(* Releasing. *)

Release(p) ==
  /\ pc[p] = "held"
  /\ directory' = Without(<<>>)
  /\ Goto(p, "idle")
  /\ UNCHANGED <<nextToken, path, expired, retained, debris, attempts, faults>>

\* The lock or the gate cannot be moved aside, or not be cleaned up once it was: it
\* is retained for a later try.
ReleaseFails(p) ==
  /\ pc[p] \in {"held", "gateRetired", "gateKept", "gateFailed"} /\ Fail(1)
  /\ \/ retained' = [retained EXCEPT ![p] = Append(@, path[p])] /\ UNCHANGED <<directory, debris>>
     \/ directory' = Without(path[p]) /\ debris' = debris \cup {p} /\ UNCHANGED retained
  /\ Throw(p, "failed")
  /\ UNCHANGED <<nextToken, expired, attempts>>

-------------------------------------------------------------------------------

Expire(p) ==
  /\ p \notin Patient /\ ~ expired[p] /\ pc[p] \notin {"idle", "held", "dead"}
  /\ expired' = [expired EXCEPT ![p] = TRUE]
  /\ UNCHANGED <<directory, nextToken, pc, path, retained, debris, attempts, faults>>

Crash(p) ==
  /\ pc[p] \notin {"idle", "dead"} /\ Cardinality(Dead) < MaxCrashes
  /\ Throw(p, "dead")
  /\ retained' = [retained EXCEPT ![p] = <<>>]
  /\ debris' = debris \ {p}
  /\ UNCHANGED <<directory, nextToken, expired, attempts, faults>>

Init ==
  /\ directory = <<>>
  /\ nextToken = 1
  /\ pc = [p \in Process |-> "idle"]
  /\ path = [p \in Process |-> <<>>]
  /\ expired = [p \in Process |-> FALSE]
  /\ retained = [p \in Process |-> <<>>]
  /\ debris = {}
  /\ attempts = [p \in Process |-> 0]
  /\ faults = 0

\* What a process does once it has begun to acquire.
Step(p) ==
  \/ Drain(p) \/ Mkdir(p) \/ WriteOwner(p) \/ Inspect(p) \/ Wait(p)
  \/ Check(p) \/ Retire(p) \/ LeaveGate(p) \/ Release(p)
  \/ DrainFails(p) \/ MkdirFails(p) \/ WriteFails(p) \/ InspectFails(p)
  \/ CheckFails(p) \/ RetireFails(p) \/ ReleaseFails(p)

Next == \E p \in Process : acquire(p) \/ Step(p) \/ Expire(p) \/ Crash(p)

Spec == Init /\ [][Next]_vars

\* A process that lives goes on, holders release in the end, and time passes.
Fairness == \A p \in Process : WF_vars(Step(p)) /\ WF_vars(Expire(p))

FairSpec == Spec /\ Fairness

-------------------------------------------------------------------------------

\* The lock or gate that a process makes, holds or is about to move aside.
InWork(p) ==
  IF pc[p] \in {"write", "held", "check", "retire", "gateRetired", "gateKept", "gateFailed"}
  THEN {path[p]} ELSE {}

\* The names of the directories that a process knows to be its own.
Owned(p) == {retained[p][k] : k \in DOMAIN retained[p]} \cup InWork(p)

\* While a process lives, every lock and gate that it knows to be its own is where it
\* made it: whatever others saw before, and however many of them died while reclaiming, nobody
\* takes a live owner's directory away.
OwnDirectoryStays ==
  \A p \in Process : \A name \in Owned(p) : Exists(name) /\ directory[name].owner = p

\* Who believes to hold the lock, and whose owner file is left in its directory: of one
\* who died holding it, or who failed to sign it and to take the owner file back.
Holders ==
  {p \in Process : \/ pc[p] = "held"
                   \/ \E k \in DOMAIN retained[p] : retained[p][k] = <<>>
                   \/ /\ Readable(<<>>) /\ directory[<<>>].owner = p
                      /\ p \in Dead \/ <<>> \notin Owned(p)}

Lock == INSTANCE FileLock WITH holders <- Holders, dead <- Dead

\* The directories implement a lock with one holder that only its death takes away,
\* whoever dies while making, reclaiming or releasing them.
ImplementsLock == Lock!Spec

Acquiring(p) == pc[p] \notin {"idle", "held", "busy", "failed", "dead"}

\* An attempt with a deadline ends, also behind owners and reclaimers that died.
AttemptsEnd == \A p \in Process \ Patient : Acquiring(p) ~> ~ Acquiring(p)

\* A directory that nobody works on and no reclaimer will take away: its maker died
\* before it wrote the owner file, or lives on and failed to remove it, whether it
\* retains it or has forgotten it.
Stuck ==
  \E name \in DOMAIN directory :
    LET maker == directory[name].owner
    IN  IF maker \in Dead THEN ~ directory[name].written ELSE name \notin InWork(maker)

\* A process that waits long enough gets the lock from holders that release and from
\* holders and reclaimers that died, however many of them, unless it gets stuck.
PatientAcquire ==
  \A p \in Patient : Acquiring(p) ~> pc[p] \in {"held", "failed", "dead"} \/ Stuck

===============================================================================
