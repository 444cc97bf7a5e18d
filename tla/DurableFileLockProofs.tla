------------------------ MODULE DurableFileLockProofs ------------------------
(***************************************************************************)
(* Proofs about the durable file lock, for every set of processes and      *)
(* every number of attempts, crashes and failing calls: nobody takes the   *)
(* directory of a live owner away, and the directories implement FileLock. *)
(***************************************************************************)
EXTENDS DurableFileLock, SequenceTheorems, TLAPS

-------------------------------------------------------------------------------
(* The inductive invariant. *)

Name == Seq(Nat)

Gated == {"check", "retire", "gateRetired", "gateKept", "gateFailed"}

Owning == {"write", "held"} \cup Gated

Resting == {"idle", "drain", "held", "busy", "failed", "dead"}

Label == Owning \cup Resting \cup {"mkdir", "inspect", "wait"}

Directory == [token : Nat, owner : Process, written : BOOLEAN]

LockTypeOK ==
  /\ DOMAIN directory \subseteq Name
  /\ directory \in [DOMAIN directory -> Directory]
  /\ nextToken \in Nat
  /\ pc \in [Process -> Label]
  /\ path \in [Process -> Name]
  /\ expired \in [Process -> BOOLEAN]
  /\ retained \in [Process -> Seq(Name)]
  /\ debris \subseteq Process
  /\ attempts \in [Process -> Nat]
  /\ faults \in Nat

\* The stack is empty outside an acquisition, and not in the frame of a gate.
PathMatchesPc ==
  \A p \in Process : /\ pc[p] \in Resting => path[p] = <<>>
                     /\ pc[p] \in Gated => path[p] # <<>>

\* A process that kept a lock has no other one, and drains it before it acquires.
RetainedAlone ==
  \A p \in Process : /\ Len(retained[p]) <= 1
                     /\ retained[p] # <<>> => pc[p] \in {"drain", "failed"}

\* If the directory that had this token is still there, its owner has died, after
\* writing its owner file.
Condemned(name, token) ==
  /\ token < nextToken
  /\ Exists(name) /\ directory[name].token = token =>
       directory[name].written /\ directory[name].owner \in Dead

TokensUsed == \A name \in DOMAIN directory : directory[name].token < nextToken

\* Each frame of the stack of a process is behind a dead owner.
PathsCondemned ==
  \A p \in Process : \A k \in 1..Len(path[p]) :
    Condemned(SubSeq(path[p], 1, k - 1), path[p][k])

\* What is about to be renamed is what was observed.
RetireeStays ==
  \A p \in Process : pc[p] = "retire" =>
    Exists(Stale(p)) /\ directory[Stale(p)].token = Observed(p)

WrittenWhenReady ==
  \A p \in Process : \A name \in Owned(p) : directory[name].written <=> pc[p] # "write"

ControlInv == LockTypeOK /\ PathMatchesPc /\ RetainedAlone

OwnerInv == OwnDirectoryStays /\ WrittenWhenReady

ReclaimInv == TokensUsed /\ PathsCondemned /\ RetireeStays

LockInv == ControlInv /\ OwnerInv /\ ReclaimInv

-------------------------------------------------------------------------------
(* Names. *)

\* A gate's name is the name of the lock behind it and the token of the owner of
\* that lock.
LEMMA GateName ==
  ASSUME NEW name \in Name, name # <<>>
  PROVE  /\ Len(name) \in Nat /\ Len(name) >= 1
         /\ name[Len(name)] \in Nat
         /\ SubSeq(name, 1, Len(name) - 1) \in Name
         /\ name = Append(SubSeq(name, 1, Len(name) - 1), name[Len(name)])
<1>1. Len(name) \in Nat /\ Len(name) >= 1 /\ name[Len(name)] \in Nat
  BY DEF Name
<1>2. /\ SubSeq(name, 1, Len(name) - 1) \in Seq(Nat)
      /\ Len(SubSeq(name, 1, Len(name) - 1)) = Len(name) - 1
  <2> DEFINE n == Len(name) - 1
  <2>1. n \in Nat /\ \A k \in 1..n : name[k] \in Nat
    BY <1>1 DEF Name
  <2>2. n = Len(name) - 1
    OBVIOUS
  <2> HIDE DEF n
  <2>3. SubSeq(name, 1, n) \in Seq(Nat) /\ Len(SubSeq(name, 1, n)) = IF 1 <= n THEN n - 1 + 1 ELSE 0
    BY <2>1, SubSeqProperties
  <2>4. Len(SubSeq(name, 1, n)) = n
    BY <2>1, <2>3
  <2>5. QED
    BY <2>2, <2>3, <2>4
<1>3. name = Append(SubSeq(name, 1, Len(name) - 1), name[Len(name)])
  <2> DEFINE front == SubSeq(name, 1, Len(name) - 1)
  <2>1. front \in Seq(Nat) /\ Len(front) = Len(name) - 1
    BY <1>2
  <2>2. \A k \in 1..(Len(name) - 1) : front[k] = name[k]
    BY <1>1 DEF Name
  <2>3. Append(front, name[Len(name)]) \in Seq(Nat)
    BY <1>1, <2>1
  <2>4. Len(Append(front, name[Len(name)])) = Len(name)
    BY <1>1, <2>1
  <2>5. \A k \in 1..Len(name) : Append(front, name[Len(name)])[k] = name[k]
    BY <1>1, <2>1, <2>2
  <2>6. QED
    BY <2>3, <2>4, <2>5, SeqEqual DEF Name
<1>4. QED
  BY <1>1, <1>2, <1>3 DEF Name

\* The frames of the lock behind a gate are frames of the gate.
LEMMA FramesBehind ==
  ASSUME NEW name \in Name, name # <<>>,
         NEW k \in 1..Len(SubSeq(name, 1, Len(name) - 1))
  PROVE  /\ k \in 1..Len(name)
         /\ SubSeq(name, 1, Len(name) - 1)[k] = name[k]
         /\ SubSeq(SubSeq(name, 1, Len(name) - 1), 1, k - 1) = SubSeq(name, 1, k - 1)
<1>1. Len(name) \in Nat /\ Len(name) >= 1 /\ Len(SubSeq(name, 1, Len(name) - 1)) = Len(name) - 1
  BY DEF Name
<1>2. k \in 1..(Len(name) - 1) /\ SubSeq(name, 1, Len(name) - 1)[k] = name[k]
  BY <1>1 DEF Name
<1>3. SubSeq(SubSeq(name, 1, Len(name) - 1), 1, k - 1) = SubSeq(name, 1, k - 1)
  BY <1>1, <1>2, SubSeqOfSubSeq DEF Name
<1>4. QED
  BY <1>1, <1>2, <1>3

\* The gate of a lock has the frames of the lock and one more.
LEMMA FramesAppended ==
  ASSUME NEW name \in Name, NEW token \in Nat,
         NEW k \in 1..Len(Append(name, token))
  PROVE  \/ /\ k \in 1..Len(name)
            /\ Append(name, token)[k] = name[k]
            /\ SubSeq(Append(name, token), 1, k - 1) = SubSeq(name, 1, k - 1)
         \/ /\ Append(name, token)[k] = token
            /\ SubSeq(Append(name, token), 1, k - 1) = name
<1>1. Len(Append(name, token)) = Len(name) + 1 /\ Len(name) \in Nat
  BY DEF Name
<1>2. \A j \in 1..Len(name) : Append(name, token)[j] = name[j]
  BY DEF Name
<1>3. Append(name, token)[Len(name) + 1] = token
  BY DEF Name
<1>4. ASSUME NEW j \in 0..Len(name)
      PROVE  SubSeq(Append(name, token), 1, j) = SubSeq(name, 1, j)
  BY <1>1, <1>2 DEF Name
<1>5. SubSeq(name, 1, Len(name)) = name
  BY DEF Name
<1>6. CASE k \in 1..Len(name)
  BY <1>1, <1>2, <1>4, <1>6
<1>7. CASE k = Len(name) + 1
  BY <1>1, <1>3, <1>4, <1>5, <1>7
<1>8. QED
  BY <1>1, <1>6, <1>7
-------------------------------------------------------------------------------
(* Control: the types, the stack and the locks kept. *)

LEMMA WithoutType ==
  ASSUME LockTypeOK, NEW name
  PROVE  /\ DOMAIN Without(name) = DOMAIN directory \ {name}
         /\ DOMAIN Without(name) \subseteq Name
         /\ Without(name) \in [DOMAIN Without(name) -> Directory]
         /\ \A other \in DOMAIN Without(name) : Without(name)[other] = directory[other]
BY DEF LockTypeOK, Without

LEMMA WithOwnerType ==
  ASSUME LockTypeOK, NEW name
  PROVE  /\ DOMAIN WithOwner(name) = DOMAIN directory
         /\ WithOwner(name) \in [DOMAIN directory -> Directory]
         /\ \A other \in DOMAIN directory :
              /\ WithOwner(name)[other].owner = directory[other].owner
              /\ WithOwner(name)[other].token = directory[other].token
              /\ WithOwner(name)[other].written = (other = name \/ directory[other].written)
<1>1. DOMAIN WithOwner(name) = DOMAIN directory
  BY DEF WithOwner
<1>2. ASSUME NEW other \in DOMAIN directory
      PROVE  /\ WithOwner(name)[other] \in Directory
             /\ WithOwner(name)[other].owner = directory[other].owner
             /\ WithOwner(name)[other].token = directory[other].token
             /\ WithOwner(name)[other].written = (other = name \/ directory[other].written)
  <2>1. directory[other] \in Directory
    BY DEF LockTypeOK
  <2>2. WithOwner(name)[other] =
          IF other = name THEN [directory[other] EXCEPT !.written = TRUE] ELSE directory[other]
    BY DEF WithOwner
  <2>3. QED
    BY <2>1, <2>2 DEF Directory
<1>3. WithOwner(name) \in [DOMAIN directory -> Directory]
  BY <1>1, <1>2 DEF WithOwner
<1>4. QED
  BY <1>1, <1>2, <1>3

LEMMA ControlInit == Init => ControlInv
<1> SUFFICES ASSUME Init PROVE ControlInv
  OBVIOUS
<1>1. LockTypeOK
  BY DEF Init, LockTypeOK, Label, Resting, Name
<1>2. PathMatchesPc
  BY DEF Init, PathMatchesPc, Gated
<1>3. RetainedAlone
  BY DEF Init, RetainedAlone
<1>4. QED
  BY <1>1, <1>2, <1>3 DEF ControlInv

\* The types, when the step makes no directory.
LEMMA TypeKept ==
  ASSUME LockTypeOK, NEW p \in Process,
         \/ directory' = directory
         \/ \E name : directory' = Without(name) \/ directory' = WithOwner(name),
         nextToken' = nextToken,
         pc' = pc \/ \E label \in Label : pc' = [pc EXCEPT ![p] = label],
         path' = path \/ \E name \in Name : path' = [path EXCEPT ![p] = name],
         expired' = expired \/ \E b \in BOOLEAN : expired' = [expired EXCEPT ![p] = b],
         retained' = retained \/ \E r \in Seq(Name) : retained' = [retained EXCEPT ![p] = r],
         debris' = debris \/ debris' = debris \cup {p} \/ debris' = debris \ {p},
         attempts' = attempts \/ attempts' = [attempts EXCEPT ![p] = @ + 1],
         faults' = faults \/ \E n \in Nat : faults' = faults + n
  PROVE  LockTypeOK'
<1>1. DOMAIN directory' \subseteq Name /\ directory' \in [DOMAIN directory' -> Directory]
  <2>1. CASE directory' = directory
    BY <2>1 DEF LockTypeOK
  <2>2. ASSUME NEW name, directory' = Without(name)
        PROVE  DOMAIN directory' \subseteq Name /\ directory' \in [DOMAIN directory' -> Directory]
    BY <2>2, WithoutType
  <2>3. ASSUME NEW name, directory' = WithOwner(name)
        PROVE  DOMAIN directory' \subseteq Name /\ directory' \in [DOMAIN directory' -> Directory]
    BY <2>3, WithOwnerType DEF LockTypeOK
  <2>4. QED
    BY <2>1, <2>2, <2>3
<1>2. nextToken' \in Nat /\ faults' \in Nat
  BY DEF LockTypeOK
<1>3. pc' \in [Process -> Label]
  BY DEF LockTypeOK
<1>4. path' \in [Process -> Name]
  BY DEF LockTypeOK
<1>5. expired' \in [Process -> BOOLEAN]
  BY DEF LockTypeOK
<1>6. retained' \in [Process -> Seq(Name)]
  BY DEF LockTypeOK
<1>7. attempts' \in [Process -> Nat]
  BY DEF LockTypeOK
<1>8. debris' \subseteq Process
  BY DEF LockTypeOK
<1>9. Directory' = Directory
  BY DEF Directory
<1>10. QED
  BY <1>1, <1>2, <1>3, <1>4, <1>5, <1>6, <1>7, <1>8, <1>9 DEF LockTypeOK

\* Draining takes the only lock kept.
LEMMA KeptIsOne ==
  ASSUME ControlInv, NEW p \in Process, retained[p] # <<>>
  PROVE  /\ Len(retained[p]) = 1
         /\ retained[p][1] \in Name
         /\ SubSeq(retained[p], 1, Len(retained[p]) - 1) = <<>>
<1>1. retained[p] \in Seq(Name)
  BY DEF ControlInv, LockTypeOK
<1>2. Len(retained[p]) \in Nat /\ Len(retained[p]) # 0
  BY <1>1, EmptySeq
<1>3. Len(retained[p]) <= 1
  BY DEF ControlInv, RetainedAlone
<1>4. \A k \in Nat : k # 0 /\ k <= 1 => k = 1
  OBVIOUS
<1>5. Len(retained[p]) = 1
  BY <1>2, <1>3, <1>4
<1>6. SubSeq(retained[p], 1, Len(retained[p]) - 1) = <<>>
  BY <1>5, SubSeqEmpty
<1>7. QED
  BY <1>1, <1>5, <1>6, ElementOfSeq

LEMMA TypeStep ==
  ASSUME ControlInv, NEW p \in Process, acquire(p) \/ Step(p) \/ Expire(p) \/ Crash(p)
  PROVE  LockTypeOK'
<1> USE DEF ControlInv
<1>0. /\ pc[p] \in Label /\ path[p] \in Name /\ retained[p] \in Seq(Name)
      /\ <<>> \in Name /\ <<>> \in Seq(Name)
  BY DEF LockTypeOK, Name
<1>1. CASE acquire(p)
  <2>1. \E label \in Label : pc' = [pc EXCEPT ![p] = label]
    BY <1>1 DEF acquire, Goto, Label, Resting
  <2>2. QED
    BY <1>1, <2>1, TypeKept DEF acquire
<1>a. \A label : Goto(p, label) /\ label \in Label => \E l \in Label : pc' = [pc EXCEPT ![p] = l]
  BY DEF Goto
<1>b. ASSUME retained[p] # <<>>,
             retained' = [retained EXCEPT ![p] = SubSeq(@, 1, Len(@) - 1)]
      PROVE  \E r \in Seq(Name) : retained' = [retained EXCEPT ![p] = r]
  <2>1. retained' = [retained EXCEPT ![p] = SubSeq(retained[p], 1, Len(retained[p]) - 1)]
    BY <1>b DEF LockTypeOK
  <2>2. QED
    BY <1>0, <1>b, <2>1, KeptIsOne
<1>c. \A n : Fail(n) => faults' = faults + n
  BY DEF Fail
<1>2. CASE Drain(p)
  <2>1. pc' = pc \/ \E label \in Label : pc' = [pc EXCEPT ![p] = label]
    BY <1>2 DEF Drain, Goto, Label
  <2>2. retained' = retained \/ \E r \in Seq(Name) : retained' = [retained EXCEPT ![p] = r]
    BY <1>2, <1>b DEF Drain
  <2>3. /\ directory' = directory \/ \E name : directory' = Without(name)
        /\ debris' = debris \/ debris' = debris \ {p}
    BY <1>2 DEF Drain
  <2>4. QED
    BY <1>2, <2>1, <2>2, <2>3, TypeKept DEF Drain
<1>3. CASE DrainFails(p)
  <2>1. \E label \in Label : pc' = [pc EXCEPT ![p] = label]
    BY <1>3, <1>a DEF DrainFails, Label, Resting
  <2>2. retained' = retained \/ \E r \in Seq(Name) : retained' = [retained EXCEPT ![p] = r]
    BY <1>3, <1>b DEF DrainFails
  <2>3. /\ directory' = directory \/ \E name : directory' = Without(name)
        /\ debris' = debris \/ debris' = debris \cup {p}
        /\ faults' = faults + 1
    BY <1>3, <1>c DEF DrainFails
  <2>4. QED
    BY <1>3, <2>1, <2>2, <2>3, TypeKept DEF DrainFails
<1>4. CASE Mkdir(p)
  <2>1. CASE Exists(path[p])
    <3>1. \E label \in Label : pc' = [pc EXCEPT ![p] = label]
      BY <1>4, <2>1 DEF Mkdir, Goto, Label
    <3>2. QED
      BY <1>4, <2>1, <3>1, TypeKept DEF Mkdir
  <2>2. CASE ~ Exists(path[p])
    <3> DEFINE new == [token |-> nextToken, owner |-> p, written |-> FALSE]
    <3>1. new \in Directory
      BY DEF LockTypeOK, Directory
    <3>2. directory' = [n \in DOMAIN directory \cup {path[p]} |->
                          IF n = path[p] THEN new ELSE directory[n]]
      BY <1>4, <2>2 DEF Mkdir
    <3> HIDE DEF new
    <3>3. DOMAIN directory' \subseteq Name /\ directory' \in [DOMAIN directory' -> Directory]
      BY <1>0, <3>1, <3>2 DEF LockTypeOK
    <3>4. nextToken' \in Nat
      BY <1>4, <2>2 DEF Mkdir, LockTypeOK
    <3>5. pc' \in [Process -> Label]
      BY <1>4, <2>2 DEF Mkdir, LockTypeOK, Goto, Label, Owning
    <3>6. UNCHANGED <<path, expired, retained, debris, attempts, faults>> /\ Directory' = Directory
      BY <1>4 DEF Mkdir, Directory
    <3>7. QED
      BY <3>3, <3>4, <3>5, <3>6 DEF LockTypeOK
  <2>3. QED
    BY <2>1, <2>2
<1>5. CASE WriteOwner(p)
  <2>1. \E label \in Label : pc' = [pc EXCEPT ![p] = label]
    BY <1>5, <1>a DEF WriteOwner, Label, Owning, Gated
  <2>2. QED
    BY <1>5, <2>1, TypeKept DEF WriteOwner
<1>6. CASE WriteFails(p)
  <2>1. \E label \in Label : pc' = [pc EXCEPT ![p] = label]
    BY <1>6, <1>a DEF WriteFails, Throw, Label, Resting
  <2>2. retained' = retained \/ \E r \in Seq(Name) : retained' = [retained EXCEPT ![p] = r]
    <3>1. Append(retained[p], path[p]) \in Seq(Name)
      BY <1>0, AppendProperties
    <3>2. QED
      BY <1>6, <3>1 DEF WriteFails
  <2>3. /\ \/ directory' = directory
           \/ \E name : directory' = Without(name) \/ directory' = WithOwner(name)
        /\ debris' = debris \/ debris' = debris \cup {p}
    BY <1>6 DEF WriteFails
  <2>4. \E n \in Nat : faults' = faults + n
    BY <1>6, <1>c DEF WriteFails
  <2>5. QED
    BY <1>0, <1>6, <2>1, <2>2, <2>3, <2>4, TypeKept DEF WriteFails, Throw
<1>7. CASE Inspect(p)
  <2>1. \E label \in Label : pc' = [pc EXCEPT ![p] = label]
    BY <1>7 DEF Inspect, Goto, Label
  <2>2. path' = path \/ \E name \in Name : path' = [path EXCEPT ![p] = name]
    <3>1. CASE Readable(path[p]) /\ path' = [path EXCEPT ![p] = Append(@, directory[@].token)]
      <4>1. directory[path[p]].token \in Nat
        BY <3>1 DEF Readable, Exists, LockTypeOK, Directory
      <4>2. Append(path[p], directory[path[p]].token) \in Name
        BY <1>0, <4>1, AppendProperties DEF Name
      <4>3. QED
        BY <3>1, <4>2
    <3>2. QED
      BY <1>7, <3>1 DEF Inspect
  <2>3. QED
    BY <1>7, <2>1, <2>2, TypeKept DEF Inspect
<1>8. CASE Wait(p)
  <2>1. \E label \in Label : pc' = [pc EXCEPT ![p] = label]
    BY <1>8 DEF Wait, Throw, Goto, Label, Resting
  <2>2. path' = path \/ \E name \in Name : path' = [path EXCEPT ![p] = name]
    BY <1>0, <1>8 DEF Wait, Throw
  <2>3. QED
    BY <1>8, <2>1, <2>2, TypeKept DEF Wait
<1>9. CASE Check(p)
  <2>1. \E label \in Label : pc' = [pc EXCEPT ![p] = label]
    BY <1>9 DEF Check, Goto, Label, Owning, Gated
  <2>2. QED
    BY <1>9, <2>1, TypeKept DEF Check
<1>10. CASE Retire(p)
  <2>1. \E label \in Label : pc' = [pc EXCEPT ![p] = label]
    BY <1>10 DEF Retire, Goto, Label, Owning, Gated
  <2>2. QED
    BY <1>10, <2>1, TypeKept DEF Retire
<1>11. CASE LeaveGate(p)
  <2>1. Stale(p) \in Name
    BY <1>0, <1>11, GateName DEF LeaveGate, PathMatchesPc, Gated, Stale
  <2>2. \E label \in Label : pc' = [pc EXCEPT ![p] = label]
    BY <1>11 DEF LeaveGate, Throw, Goto, Label, Resting
  <2>3. \E name \in Name : path' = [path EXCEPT ![p] = name]
    BY <1>0, <1>11, <2>1 DEF LeaveGate, Throw
  <2>4. QED
    BY <1>11, <2>2, <2>3, TypeKept DEF LeaveGate
<1>12. CASE MkdirFails(p) \/ InspectFails(p) \/ CheckFails(p)
  <2>1. \E label \in Label : pc' = [pc EXCEPT ![p] = label]
    BY <1>12, <1>a DEF MkdirFails, InspectFails, CheckFails, Throw, Label, Resting, Owning, Gated
  <2>2. path' = path \/ path' = [path EXCEPT ![p] = <<>>]
    BY <1>12 DEF MkdirFails, InspectFails, CheckFails, Throw
  <2>3. UNCHANGED <<directory, nextToken, expired, retained, debris, attempts>> /\ faults' = faults + 1
    BY <1>12, <1>c DEF MkdirFails, InspectFails, CheckFails
  <2>4. QED
    BY <1>0, <2>1, <2>2, <2>3, TypeKept
<1>13. CASE Release(p)
  <2>1. \E label \in Label : pc' = [pc EXCEPT ![p] = label]
    BY <1>13 DEF Release, Goto, Label, Resting
  <2>2. QED
    BY <1>13, <2>1, TypeKept DEF Release
<1>14. CASE ReleaseFails(p) \/ RetireFails(p)
  <2>1. \E label \in Label : pc' = [pc EXCEPT ![p] = label]
    BY <1>14, <1>a DEF ReleaseFails, RetireFails, Throw, Label, Resting, Owning, Gated
  <2>2. Append(retained[p], path[p]) \in Seq(Name)
    BY <1>0, AppendProperties
  <2>3. retained' = retained \/ \E r \in Seq(Name) : retained' = [retained EXCEPT ![p] = r]
    BY <1>14, <2>2 DEF ReleaseFails, RetireFails
  <2>4. /\ directory' = directory \/ \E name : directory' = Without(name)
        /\ debris' = debris \/ debris' = debris \cup {p}
        /\ path' = path \/ path' = [path EXCEPT ![p] = <<>>]
        /\ UNCHANGED <<nextToken, expired, attempts>> /\ faults' = faults + 1
    BY <1>14, <1>c DEF ReleaseFails, RetireFails, Throw
  <2>5. QED
    BY <1>0, <2>1, <2>3, <2>4, TypeKept
<1>15. CASE Expire(p)
  BY <1>15, TypeKept DEF Expire
<1>16. CASE Crash(p)
  <2>1. \E label \in Label : pc' = [pc EXCEPT ![p] = label]
    BY <1>16 DEF Crash, Throw, Goto, Label, Resting
  <2>2. QED
    BY <1>0, <1>16, <2>1, TypeKept DEF Crash, Throw
<1>17. QED
  BY <1>1, <1>2, <1>3, <1>4, <1>5, <1>6, <1>7, <1>8, <1>9, <1>10, <1>11, <1>12, <1>13, <1>14, <1>15, <1>16
     DEF Step

LEMMA StackStep ==
  ASSUME ControlInv, NEW p \in Process, acquire(p) \/ Step(p) \/ Expire(p) \/ Crash(p)
  PROVE  PathMatchesPc'
<1> USE DEF ControlInv, LockTypeOK, PathMatchesPc, Resting, Gated
<1>1. CASE acquire(p)
  BY <1>1 DEF acquire, Goto
<1>2. CASE Drain(p)
  BY <1>2 DEF Drain, Goto
<1>3. CASE DrainFails(p)
  BY <1>3 DEF DrainFails, Goto
<1>4. CASE Mkdir(p)
  BY <1>4 DEF Mkdir, Goto
<1>5. CASE WriteOwner(p)
  BY <1>5 DEF WriteOwner, Goto
<1>6. CASE WriteFails(p)
  BY <1>6 DEF WriteFails, Throw, Goto
<1>7. CASE Inspect(p)
  <2>1. pc'[p] \in {"mkdir", "wait"}
    BY <1>7 DEF Inspect, Goto
  <2>2. ASSUME NEW q \in Process, q # p PROVE pc'[q] = pc[q] /\ path'[q] = path[q]
    BY <1>7, <2>2 DEF Inspect, Goto
  <2>3. QED
    BY <2>1, <2>2
<1>8. CASE Wait(p)
  BY <1>8 DEF Wait, Throw, Goto
<1>9. CASE Check(p)
  BY <1>9 DEF Check, Goto
<1>10. CASE Retire(p)
  BY <1>10 DEF Retire, Goto
<1>11. CASE LeaveGate(p)
  BY <1>11 DEF LeaveGate, Throw, Goto
<1>12. CASE MkdirFails(p) \/ InspectFails(p) \/ CheckFails(p)
  BY <1>12 DEF MkdirFails, InspectFails, CheckFails, Throw, Goto
<1>13. CASE Release(p)
  BY <1>13 DEF Release, Goto
<1>14. CASE ReleaseFails(p) \/ RetireFails(p)
  BY <1>14 DEF ReleaseFails, RetireFails, Throw, Goto
<1>15. CASE Expire(p)
  BY <1>15 DEF Expire
<1>16. CASE Crash(p)
  BY <1>16 DEF Crash, Throw, Goto
<1>17. QED
  BY <1>1, <1>2, <1>3, <1>4, <1>5, <1>6, <1>7, <1>8, <1>9, <1>10, <1>11, <1>12, <1>13, <1>14, <1>15, <1>16
     DEF Step

\* Locks are kept one at a time: who keeps one drains it before it makes the next.
LEMMA KeptStep ==
  ASSUME ControlInv, NEW p \in Process, acquire(p) \/ Step(p) \/ Expire(p) \/ Crash(p)
  PROVE  RetainedAlone'
<1>0. /\ pc \in [Process -> Label] /\ retained \in [Process -> Seq(Name)]
      /\ RetainedAlone
  BY DEF ControlInv, LockTypeOK
<1>1. CASE retained' = retained /\ pc' = pc
  BY <1>0, <1>1 DEF RetainedAlone
<1>2. CASE retained' = retained /\ retained[p] = <<>> /\ \E label : Goto(p, label)
  BY <1>0, <1>2 DEF RetainedAlone, Goto
<1>3. CASE retained' = retained /\ (Goto(p, "drain") \/ Goto(p, "failed"))
  BY <1>0, <1>3 DEF RetainedAlone, Goto
<1>4. CASE pc' = pc /\ retained' = [retained EXCEPT ![p] = <<>>]
  BY <1>0, <1>4 DEF RetainedAlone
<1>5. CASE retained' = [retained EXCEPT ![p] = <<>>] /\ \E label : Goto(p, label)
  BY <1>0, <1>5 DEF RetainedAlone, Goto
<1>6. CASE /\ \E name \in Name : retained' = [retained EXCEPT ![p] = Append(retained[p], name)]
           /\ retained[p] = <<>> /\ Goto(p, "failed")
  <2>1. PICK name \in Name : retained' = [retained EXCEPT ![p] = Append(<<>>, name)]
    BY <1>6
  <2>2. Len(Append(<<>>, name)) = 1
    OBVIOUS
  <2>3. ASSUME NEW q \in Process
        PROVE  Len(retained'[q]) <= 1 /\ (retained'[q] # <<>> => pc'[q] \in {"drain", "failed"})
    BY <1>0, <1>6, <2>1, <2>2 DEF RetainedAlone, Goto
  <2>4. QED
    BY <2>3 DEF RetainedAlone
<1>7. retained[p] # <<>> => pc[p] \in {"drain", "failed"}
  BY <1>0 DEF RetainedAlone
<1>8. path[p] \in Name /\ <<>> \in Name
  BY DEF ControlInv, LockTypeOK, Name
<1>9. acquire(p) => retained' = retained /\ Goto(p, "drain")
  BY DEF acquire
<1>10. CASE Drain(p)
  <2>1. CASE retained[p] = <<>>
    BY <1>2, <1>10, <2>1 DEF Drain
  <2>2. CASE retained[p] # <<>>
    <3>1. retained' = [retained EXCEPT ![p] = SubSeq(retained[p], 1, Len(retained[p]) - 1)] /\ pc' = pc
      BY <1>0, <1>10, <2>2 DEF Drain
    <3>2. QED
      BY <1>4, <2>2, <3>1, KeptIsOne
  <2>3. QED
    BY <2>1, <2>2
<1>11. CASE DrainFails(p)
  <2>1. Goto(p, "failed")
    BY <1>11 DEF DrainFails
  <2>2. CASE retained' = retained
    BY <1>3, <2>1, <2>2
  <2>3. CASE retained[p] # <<>> /\ retained' = [retained EXCEPT ![p] = SubSeq(@, 1, Len(@) - 1)]
    <3>1. retained' = [retained EXCEPT ![p] = SubSeq(retained[p], 1, Len(retained[p]) - 1)]
      BY <1>0, <2>3
    <3>2. QED
      BY <1>5, <2>1, <2>3, <3>1, KeptIsOne
  <2>4. QED
    BY <1>11, <2>2, <2>3 DEF DrainFails
<1>12. CASE Mkdir(p) \/ MkdirFails(p) \/ WriteOwner(p)
  BY <1>2, <1>7, <1>12 DEF Mkdir, MkdirFails, WriteOwner, Throw
<1>13. CASE Inspect(p) \/ InspectFails(p) \/ Wait(p) \/ Check(p) \/ CheckFails(p)
  BY <1>2, <1>7, <1>13 DEF Inspect, InspectFails, Wait, Check, CheckFails, Throw
<1>14. CASE Retire(p) \/ RetireFails(p) \/ LeaveGate(p) \/ Release(p)
  BY <1>2, <1>7, <1>14 DEF Retire, RetireFails, LeaveGate, Release, Throw
<1>15. CASE WriteFails(p) \/ ReleaseFails(p)
  <2>1. retained[p] = <<>> /\ Goto(p, "failed")
    BY <1>7, <1>15 DEF WriteFails, ReleaseFails, Throw
  <2>2. \/ retained' = retained
        \/ \E name \in Name : retained' = [retained EXCEPT ![p] = Append(retained[p], name)]
    BY <1>0, <1>8, <1>15 DEF WriteFails, ReleaseFails
  <2>3. QED
    BY <1>2, <1>6, <2>1, <2>2
<1>16. CASE Expire(p)
  BY <1>1, <1>16 DEF Expire
<1>17. CASE Crash(p)
  BY <1>5, <1>17 DEF Crash, Throw
<1>18. QED
  BY <1>3, <1>9, <1>10, <1>11, <1>12, <1>13, <1>14, <1>15, <1>16, <1>17 DEF Step

LEMMA ControlStep ==
  ASSUME ControlInv, NEW p \in Process, acquire(p) \/ Step(p) \/ Expire(p) \/ Crash(p)
  PROVE  ControlInv'
BY TypeStep, StackStep, KeptStep DEF ControlInv

-------------------------------------------------------------------------------
(* What a step does to the directories and to what the processes own. *)

LEMMA OwnedValue ==
  ASSUME ControlInv, NEW p \in Process
  PROVE  /\ pc[p] \in Owning => Owned(p) = {path[p]}
         /\ retained[p] # <<>> => Owned(p) = {retained[p][1]}
         /\ pc[p] \notin Owning /\ retained[p] = <<>> => Owned(p) = {}
<1>1. retained[p] = <<>> => {retained[p][k] : k \in DOMAIN retained[p]} = {}
  OBVIOUS
<1>2. retained[p] # <<>> => {retained[p][k] : k \in DOMAIN retained[p]} = {retained[p][1]}
  <2> SUFFICES ASSUME retained[p] # <<>>
               PROVE  {retained[p][k] : k \in DOMAIN retained[p]} = {retained[p][1]}
    OBVIOUS
  <2>1. retained[p] \in Seq(Name) /\ Len(retained[p]) = 1
    BY KeptIsOne DEF ControlInv, LockTypeOK
  <2>2. DOMAIN retained[p] = {1}
    BY <2>1
  <2>3. QED
    BY <2>2
<1>3. retained[p] # <<>> => pc[p] \notin Owning
  BY DEF ControlInv, RetainedAlone, Owning, Gated
<1>4. QED
  BY <1>1, <1>2, <1>3 DEF Owned, InWork, Owning, Gated

LEMMA OwnedValueNext ==
  ASSUME ControlInv', NEW p \in Process
  PROVE  /\ pc'[p] \in Owning => Owned(p)' = {path'[p]}
         /\ retained'[p] # <<>> => Owned(p)' = {retained'[p][1]}
         /\ pc'[p] \notin Owning /\ retained'[p] = <<>> => Owned(p)' = {}
<1>1. retained'[p] = <<>> => {retained'[p][k] : k \in DOMAIN retained'[p]} = {}
  OBVIOUS
<1>2. retained'[p] # <<>> => {retained'[p][k] : k \in DOMAIN retained'[p]} = {retained'[p][1]}
  <2> SUFFICES ASSUME retained'[p] # <<>>
               PROVE  {retained'[p][k] : k \in DOMAIN retained'[p]} = {retained'[p][1]}
    OBVIOUS
  <2>1. retained'[p] \in Seq(Name)
    BY DEF ControlInv, LockTypeOK, Name
  <2>2. Len(retained'[p]) \in Nat /\ Len(retained'[p]) # 0
    BY <2>1, EmptySeq
  <2>3. Len(retained'[p]) <= 1
    BY DEF ControlInv, RetainedAlone
  <2>4. \A k \in Nat : k # 0 /\ k <= 1 => k = 1
    OBVIOUS
  <2>5. Len(retained'[p]) = 1
    BY <2>2, <2>3, <2>4
  <2>6. DOMAIN retained'[p] = {1}
    BY <2>1, <2>5
  <2>7. QED
    BY <2>6
<1>3. retained'[p] # <<>> => pc'[p] \notin Owning
  BY DEF ControlInv, RetainedAlone, Owning, Gated
<1>4. QED
  BY <1>1, <1>2, <1>3 DEF Owned, InWork, Owning, Gated

\* The other processes do not notice.
Elsewhere(p) ==
  \A q \in Process \ {p} : pc'[q] = pc[q] /\ path'[q] = path[q] /\ Owned(q)' = Owned(q)

\* p neither makes nor loses a directory.
Steady(p) ==
  /\ UNCHANGED <<directory, nextToken, Dead>>
  /\ Owned(p)' = Owned(p)
  /\ pc'[p] = "write" <=> pc[p] = "write"

\* p makes the directory that it wants.
Makes(p) ==
  /\ ~ Exists(path[p])
  /\ DOMAIN directory' = DOMAIN directory \cup {path[p]}
  /\ directory'[path[p]] = [token |-> nextToken, owner |-> p, written |-> FALSE]
  /\ \A name \in DOMAIN directory : directory'[name] = directory[name]
  /\ nextToken' = nextToken + 1 /\ UNCHANGED Dead
  /\ p \notin Dead /\ Owned(p) = {} /\ Owned(p)' = {path[p]} /\ pc'[p] = "write"

\* p writes the owner file of the directory that it made.
Signs(p) ==
  /\ directory' = WithOwner(path[p]) /\ UNCHANGED <<nextToken, Dead>>
  /\ p \notin Dead /\ Owned(p) = {path[p]} /\ Owned(p)' = {path[p]}
  /\ pc[p] = "write" /\ pc'[p] # "write"

\* p leaves the directory that it made behind, signed or not.
Forgets(p) ==
  /\ directory' \in {directory, WithOwner(path[p])} /\ UNCHANGED <<nextToken, Dead>>
  /\ p \notin Dead /\ Owned(p) = {path[p]} /\ Owned(p)' = {} /\ pc[p] = "write"

\* p removes its only directory.
GivesUp(p, name) ==
  /\ directory' = Without(name) /\ UNCHANGED <<nextToken, Dead>>
  /\ p \notin Dead /\ Owned(p) = {name} /\ Owned(p)' = {}

\* p removes the directory behind its gate.
TakesAway(p) ==
  /\ directory' = Without(Stale(p)) /\ UNCHANGED <<nextToken, Dead>>
  /\ p \notin Dead /\ Owned(p) = {path[p]} /\ Owned(p)' = {path[p]}
  /\ pc[p] = "retire" /\ pc'[p] \in {"gateRetired", "gateFailed"}

Dies(p) ==
  /\ UNCHANGED <<directory, nextToken>>
  /\ p \notin Dead /\ Dead' = Dead \cup {p} /\ Owned(p)' = {}

Effect(p) ==
  \/ Steady(p) \/ Makes(p) \/ Signs(p) \/ Forgets(p) \/ TakesAway(p) \/ Dies(p)
  \/ \E name \in Name : GivesUp(p, name)

LEMMA OthersUnmoved ==
  ASSUME ControlInv, NEW p \in Process, acquire(p) \/ Step(p) \/ Expire(p) \/ Crash(p)
  PROVE  Elsewhere(p)
<1> SUFFICES ASSUME NEW q \in Process \ {p}
             PROVE  pc'[q] = pc[q] /\ path'[q] = path[q] /\ Owned(q)' = Owned(q)
  BY DEF Elsewhere
<1>1. /\ pc \in [Process -> Label] /\ path \in [Process -> Name]
      /\ retained \in [Process -> Seq(Name)]
  BY DEF ControlInv, LockTypeOK
<1>2. pc'[q] = pc[q]
  BY <1>1 DEF Step, acquire, Drain, DrainFails, Mkdir, MkdirFails, WriteOwner, WriteFails, Inspect,
     InspectFails, Wait, Check, CheckFails, Retire, RetireFails, LeaveGate, Release, ReleaseFails,
     Expire, Crash, Goto, Throw
<1>3. path'[q] = path[q]
  BY <1>1 DEF Step, acquire, Drain, DrainFails, Mkdir, MkdirFails, WriteOwner, WriteFails, Inspect,
     InspectFails, Wait, Check, CheckFails, Retire, RetireFails, LeaveGate, Release, ReleaseFails,
     Expire, Crash, Goto, Throw
<1>4. retained'[q] = retained[q]
  BY <1>1 DEF Step, acquire, Drain, DrainFails, Mkdir, MkdirFails, WriteOwner, WriteFails, Inspect,
     InspectFails, Wait, Check, CheckFails, Retire, RetireFails, LeaveGate, Release, ReleaseFails,
     Expire, Crash, Goto, Throw
<1>5. Owned(q)' = Owned(q)
  BY <1>2, <1>3, <1>4 DEF Owned, InWork
<1>6. QED
  BY <1>2, <1>3, <1>5

\* A process that was alive and did not die: nobody died.
LEMMA NobodyDied ==
  ASSUME ControlInv, NEW p \in Process, NEW label, label # "dead", pc[p] # "dead",
         Goto(p, label)
  PROVE  Dead' = Dead /\ p \notin Dead /\ pc'[p] = label
BY DEF Dead, Goto, ControlInv, LockTypeOK

\* Every step is one of the seven.
LEMMA StepEffect ==
  ASSUME ControlInv, ControlInv', NEW p \in Process,
         acquire(p) \/ Step(p) \/ Expire(p) \/ Crash(p)
  PROVE  Effect(p)
<1>0. /\ pc \in [Process -> Label] /\ path \in [Process -> Name]
      /\ retained \in [Process -> Seq(Name)]
      /\ \A q \in Process : path[q] \in Name
  BY DEF ControlInv, LockTypeOK
<1>a. pc[p] \notin {"drain", "failed"} => retained[p] = <<>>
  BY DEF ControlInv, RetainedAlone
<1>b. /\ pc[p] \in Owning => Owned(p) = {path[p]}
      /\ retained[p] # <<>> => Owned(p) = {retained[p][1]}
      /\ pc[p] \notin Owning /\ retained[p] = <<>> => Owned(p) = {}
  BY OwnedValue
<1>c. /\ pc'[p] \in Owning => Owned(p)' = {path'[p]}
      /\ retained'[p] # <<>> => Owned(p)' = {retained'[p][1]}
      /\ pc'[p] \notin Owning /\ retained'[p] = <<>> => Owned(p)' = {}
  BY OwnedValueNext
<1>d. \A label : Goto(p, label) => pc'[p] = label
  BY <1>0 DEF Goto
<1>e. \A label : Goto(p, label) /\ label # "dead" /\ pc[p] # "dead" => Dead' = Dead /\ p \notin Dead
  BY NobodyDied
<1>f. pc[p] \in Resting => path[p] = <<>>
  BY DEF ControlInv, PathMatchesPc
\* What is known of a step to a label, of a process that works on a lock or keeps one.
<1>g. ASSUME Goto(p, "failed"), pc[p] \in Owning, retained' = retained
      PROVE  Owned(p) = {path[p]} /\ Owned(p)' = {} /\ pc'[p] = "failed"
  BY <1>a, <1>b, <1>c, <1>d, <1>g DEF Owning, Gated
<1>h. ASSUME Goto(p, "failed"), pc[p] \in Owning,
             retained' = [retained EXCEPT ![p] = Append(@, path[p])]
      PROVE  Owned(p) = {path[p]} /\ Owned(p)' = {path[p]} /\ pc'[p] = "failed"
  <2>1. retained[p] = <<>> /\ retained'[p] = Append(retained[p], path[p])
    BY <1>0, <1>a, <1>h DEF Owning, Gated
  <2>2. retained'[p] # <<>> /\ retained'[p][1] = path[p]
    BY <2>1
  <2>3. QED
    BY <1>b, <1>c, <1>d, <1>h, <2>2
<1>i. ASSUME pc[p] = "drain", retained[p] # <<>>, pc'[p] \in {"drain", "failed"}, UNCHANGED <<nextToken, Dead>>,
             directory' = Without(retained[p][Len(retained[p])]),
             retained' = [retained EXCEPT ![p] = SubSeq(@, 1, Len(@) - 1)]
      PROVE  Effect(p)
  <2>1. retained' = [retained EXCEPT ![p] = SubSeq(retained[p], 1, Len(retained[p]) - 1)]
    BY <1>0, <1>i
  <2>2. /\ directory' = Without(retained[p][1]) /\ retained'[p] = <<>>
        /\ retained[p][1] \in Name
    BY <1>0, <1>i, <2>1, KeptIsOne
  <2>3. Owned(p) = {retained[p][1]} /\ Owned(p)' = {}
    BY <1>b, <1>c, <1>i, <2>2 DEF Owning, Gated
  <2>4. p \notin Dead
    BY <1>i DEF Dead
  <2>5. GivesUp(p, retained[p][1])
    BY <1>i, <2>2, <2>3, <2>4 DEF GivesUp
  <2>6. QED
    BY <2>2, <2>5 DEF Effect
<1>1. CASE acquire(p)
  <2>1. /\ pc[p] \in {"idle", "busy", "failed"} /\ pc'[p] = "drain" /\ Goto(p, "drain")
        /\ retained' = retained /\ UNCHANGED <<directory, nextToken>>
    BY <1>1, <1>d DEF acquire
  <2>2. Owned(p)' = Owned(p)
    BY <1>b, <1>c, <2>1 DEF Owning, Gated
  <2>3. Dead' = Dead
    BY <1>e, <2>1
  <2>4. QED
    BY <2>1, <2>2, <2>3 DEF Steady, Effect
<1>2. CASE Drain(p)
  <2>1. CASE retained[p] = <<>>
    <3>1. pc[p] = "drain" /\ pc'[p] = "mkdir" /\ retained' = retained /\ Goto(p, "mkdir") /\ UNCHANGED <<directory, nextToken>>
      BY <1>2, <1>d, <2>1 DEF Drain
    <3>2. Owned(p)' = Owned(p)
      BY <1>b, <1>c, <2>1, <3>1 DEF Owning, Gated
    <3>3. Dead' = Dead
      BY <1>e, <3>1
    <3>4. QED
      BY <3>1, <3>2, <3>3 DEF Steady, Effect
  <2>2. CASE retained[p] # <<>>
    BY <1>2, <1>i, <2>2 DEF Drain, Dead
  <2>3. QED
    BY <2>1, <2>2
<1>3. CASE DrainFails(p)
  <2>1. pc[p] = "drain" /\ pc'[p] = "failed" /\ Goto(p, "failed") /\ nextToken' = nextToken
    BY <1>3, <1>d DEF DrainFails
  <2>2. Dead' = Dead
    BY <1>e, <2>1
  <2>3. CASE UNCHANGED <<directory, retained>>
    <3>1. Owned(p)' = Owned(p)
      BY <1>b, <1>c, <2>1, <2>3 DEF Owning, Gated
    <3>2. QED
      BY <2>1, <2>2, <2>3, <3>1 DEF Steady, Effect
  <2>4. CASE /\ retained[p] # <<>> /\ directory' = Without(retained[p][Len(retained[p])])
             /\ retained' = [retained EXCEPT ![p] = SubSeq(@, 1, Len(@) - 1)]
    BY <1>i, <2>1, <2>2, <2>4
  <2>5. QED
    BY <1>3, <2>3, <2>4 DEF DrainFails
<1>4. CASE Mkdir(p)
  <2>1. CASE Exists(path[p])
    <3>1. pc[p] = "mkdir" /\ pc'[p] = "inspect" /\ retained' = retained /\ Goto(p, "inspect") /\ UNCHANGED <<directory, nextToken>>
      BY <1>4, <1>d, <2>1 DEF Mkdir
    <3>2. Owned(p)' = Owned(p)
      BY <1>a, <1>b, <1>c, <3>1 DEF Owning, Gated
    <3>3. Dead' = Dead
      BY <1>e, <3>1
    <3>4. QED
      BY <3>1, <3>2, <3>3 DEF Steady, Effect
  <2>2. CASE ~ Exists(path[p])
    <3>1. /\ pc[p] = "mkdir" /\ pc'[p] = "write" /\ Goto(p, "write") /\ path' = path
          /\ retained' = retained /\ nextToken' = nextToken + 1
          /\ directory' = [n \in DOMAIN directory \cup {path[p]} |->
                             IF n = path[p] THEN [token |-> nextToken, owner |-> p, written |-> FALSE]
                                            ELSE directory[n]]
      BY <1>4, <1>d, <2>2 DEF Mkdir
    <3>2. Owned(p) = {} /\ Owned(p)' = {path[p]}
      BY <1>a, <1>b, <1>c, <3>1 DEF Owning, Gated
    <3>3. Dead' = Dead /\ p \notin Dead
      BY <1>e, <3>1
    <3>4. /\ DOMAIN directory' = DOMAIN directory \cup {path[p]}
          /\ directory'[path[p]] = [token |-> nextToken, owner |-> p, written |-> FALSE]
      BY <3>1
    <3>5. \A name \in DOMAIN directory : directory'[name] = directory[name]
      BY <2>2, <3>1 DEF Exists
    <3>6. QED
      BY <2>2, <3>1, <3>2, <3>3, <3>4, <3>5 DEF Makes, Effect
  <2>3. QED
    BY <2>1, <2>2
<1>5. CASE WriteOwner(p)
  <2> DEFINE label == IF path[p] = <<>> THEN "held" ELSE "check"
  <2>1. /\ pc[p] = "write" /\ Goto(p, label) /\ path' = path /\ nextToken' = nextToken
        /\ directory' = WithOwner(path[p])
    BY <1>5 DEF WriteOwner
  <2>2. label \in {"held", "check"}
    OBVIOUS
  <2> HIDE DEF label
  <2>3. pc'[p] = label
    BY <1>d, <2>1
  <2>4. Owned(p) = {path[p]} /\ Owned(p)' = {path[p]}
    BY <1>b, <1>c, <2>1, <2>2, <2>3 DEF Owning, Gated
  <2>5. Dead' = Dead /\ p \notin Dead
    BY <1>e, <2>1, <2>2
  <2>6. QED
    BY <2>1, <2>2, <2>3, <2>4, <2>5 DEF Signs, Effect
<1>6. CASE WriteFails(p)
  <2>1. pc[p] = "write" /\ Goto(p, "failed") /\ nextToken' = nextToken /\ pc[p] \in Owning
    BY <1>6 DEF WriteFails, Throw, Owning
  <2>2. Dead' = Dead /\ p \notin Dead
    BY <1>e, <2>1
  <2>3. CASE directory' = Without(path[p]) /\ retained' = retained
    <3>1. GivesUp(p, path[p])
      BY <1>g, <2>1, <2>2, <2>3 DEF GivesUp
    <3>2. QED
      BY <1>0, <3>1 DEF Effect
  <2>4. CASE directory' \in {directory, WithOwner(path[p])} /\ retained' = retained
    BY <1>g, <2>1, <2>2, <2>4 DEF Forgets, Effect
  <2>5. CASE directory' = WithOwner(path[p]) /\ retained' = [retained EXCEPT ![p] = Append(@, path[p])]
    BY <1>h, <2>1, <2>2, <2>5 DEF Signs, Effect
  <2>6. QED
    BY <1>6, <2>3, <2>4, <2>5 DEF WriteFails
<1>7. CASE Inspect(p)
  <2>1. PICK label \in {"mkdir", "wait"} : Goto(p, label)
    BY <1>7 DEF Inspect
  <2>2. /\ pc[p] = "inspect" /\ pc'[p] = label
        /\ retained' = retained /\ UNCHANGED <<directory, nextToken>>
    BY <1>7, <1>d, <2>1 DEF Inspect
  <2>3. Owned(p)' = Owned(p)
    BY <1>a, <1>b, <1>c, <2>2 DEF Owning, Gated
  <2>4. Dead' = Dead
    BY <1>e, <2>1, <2>2
  <2>5. QED
    BY <2>2, <2>3, <2>4 DEF Steady, Effect
<1>8. CASE Wait(p)
  <2>1. PICK label \in {"mkdir", "busy"} : Goto(p, label)
    BY <1>8 DEF Wait, Throw
  <2>2. /\ pc[p] = "wait" /\ pc'[p] = label
        /\ retained' = retained /\ UNCHANGED <<directory, nextToken>>
    BY <1>8, <1>d, <2>1 DEF Wait
  <2>3. Owned(p)' = Owned(p)
    BY <1>a, <1>b, <1>c, <2>2 DEF Owning, Gated
  <2>4. Dead' = Dead
    BY <1>e, <2>1, <2>2
  <2>5. QED
    BY <2>2, <2>3, <2>4 DEF Steady, Effect
<1>9. CASE Check(p)
  <2>1. PICK label \in {"retire", "gateKept", "gateRetired", "gateFailed"} : Goto(p, label)
    BY <1>9 DEF Check
  <2>2. /\ pc[p] = "check" /\ pc'[p] = label /\ path' = path
        /\ UNCHANGED <<directory, nextToken>>
    BY <1>9, <1>d, <2>1 DEF Check
  <2>3. Owned(p)' = Owned(p)
    BY <1>b, <1>c, <2>2 DEF Owning, Gated
  <2>4. Dead' = Dead
    BY <1>e, <2>1, <2>2
  <2>5. QED
    BY <2>2, <2>3, <2>4 DEF Steady, Effect
<1>10. CASE Retire(p)
  <2>1. /\ pc[p] = "retire" /\ pc'[p] = "gateRetired" /\ Goto(p, "gateRetired") /\ path' = path
        /\ directory' = Without(Stale(p)) /\ nextToken' = nextToken
    BY <1>10, <1>d DEF Retire
  <2>2. Owned(p) = {path[p]} /\ Owned(p)' = {path[p]}
    BY <1>b, <1>c, <2>1 DEF Owning, Gated
  <2>3. Dead' = Dead /\ p \notin Dead
    BY <1>e, <2>1
  <2>4. QED
    BY <2>1, <2>2, <2>3 DEF TakesAway, Effect
<1>11. CASE LeaveGate(p)
  <2>1. PICK label \in {"failed", "mkdir", "wait"} : Goto(p, label)
    BY <1>11 DEF LeaveGate, Throw
  <2>2. /\ pc[p] \in {"gateRetired", "gateKept", "gateFailed"} /\ pc'[p] = label
        /\ retained' = retained /\ directory' = Without(path[p]) /\ nextToken' = nextToken
    BY <1>11, <1>d, <2>1 DEF LeaveGate
  <2>3. Owned(p) = {path[p]} /\ Owned(p)' = {}
    BY <1>a, <1>b, <1>c, <2>2 DEF Owning, Gated
  <2>4. Dead' = Dead /\ p \notin Dead
    BY <1>e, <2>1, <2>2
  <2>5. QED
    BY <1>0, <2>2, <2>3, <2>4 DEF GivesUp, Effect
<1>12. CASE MkdirFails(p) \/ InspectFails(p) \/ CheckFails(p)
  <2>1. PICK label \in {"failed", "wait", "gateFailed"} : Goto(p, label)
    BY <1>12 DEF MkdirFails, InspectFails, CheckFails, Throw
  <2>2. UNCHANGED <<directory, nextToken, retained>> /\ pc[p] \in {"mkdir", "inspect", "check"}
    BY <1>12 DEF MkdirFails, InspectFails, CheckFails
  <2>3. CASE pc[p] # "check"
    <3>1. pc'[p] \in {"failed", "wait"}
      BY <1>12, <1>d, <2>3 DEF MkdirFails, InspectFails, CheckFails, Throw
    <3>2. Owned(p)' = Owned(p)
      BY <1>a, <1>b, <1>c, <2>2, <2>3, <3>1 DEF Owning, Gated
    <3>3. QED
      BY <1>e, <2>1, <2>2, <2>3, <3>1, <3>2 DEF Steady, Effect
  <2>4. CASE pc[p] = "check"
    <3>1. pc'[p] = "gateFailed" /\ path' = path
      BY <1>12, <1>d, <2>4 DEF MkdirFails, InspectFails, CheckFails
    <3>2. Owned(p)' = Owned(p)
      BY <1>b, <1>c, <2>4, <3>1 DEF Owning, Gated
    <3>3. QED
      BY <1>e, <2>1, <2>2, <2>4, <3>1, <3>2 DEF Steady, Effect
  <2>5. QED
    BY <2>3, <2>4
<1>13. CASE Release(p)
  <2>1. /\ pc[p] = "held" /\ pc'[p] = "idle" /\ Goto(p, "idle") /\ retained' = retained
        /\ directory' = Without(<<>>) /\ nextToken' = nextToken
    BY <1>13, <1>d DEF Release
  <2>2. path[p] = <<>>
    BY <1>f, <2>1 DEF Resting
  <2>3. Owned(p) = {path[p]} /\ Owned(p)' = {}
    BY <1>a, <1>b, <1>c, <2>1 DEF Owning, Gated
  <2>4. Dead' = Dead /\ p \notin Dead
    BY <1>e, <2>1
  <2>5. QED
    BY <1>0, <2>1, <2>2, <2>3, <2>4 DEF GivesUp, Effect
<1>14. CASE ReleaseFails(p)
  <2>1. /\ pc[p] \in {"held", "gateRetired", "gateKept", "gateFailed"} /\ Goto(p, "failed")
        /\ nextToken' = nextToken /\ pc[p] \in Owning
    BY <1>14 DEF ReleaseFails, Throw, Owning, Gated
  <2>2. Dead' = Dead /\ p \notin Dead
    BY <1>e, <2>1
  <2>3. CASE retained' = [retained EXCEPT ![p] = Append(@, path[p])] /\ directory' = directory
    <3>1. Owned(p)' = Owned(p) /\ pc'[p] = "failed"
      BY <1>h, <2>1, <2>3
    <3>2. QED
      BY <2>1, <2>2, <2>3, <3>1 DEF Steady, Effect
  <2>4. CASE directory' = Without(path[p]) /\ retained' = retained
    <3>1. GivesUp(p, path[p])
      BY <1>g, <2>1, <2>2, <2>4 DEF GivesUp
    <3>2. QED
      BY <1>0, <3>1 DEF Effect
  <2>5. QED
    BY <1>14, <2>3, <2>4 DEF ReleaseFails
<1>18. CASE RetireFails(p)
  <2>1. /\ pc[p] = "retire" /\ pc'[p] = "gateFailed" /\ Goto(p, "gateFailed") /\ path' = path
        /\ nextToken' = nextToken
    BY <1>18, <1>d DEF RetireFails
  <2>2. Owned(p) = {path[p]} /\ Owned(p)' = {path[p]}
    BY <1>b, <1>c, <2>1 DEF Owning, Gated
  <2>3. Dead' = Dead /\ p \notin Dead
    BY <1>e, <2>1
  <2>4. CASE directory' = directory
    BY <2>1, <2>2, <2>3, <2>4 DEF Steady, Effect
  <2>5. CASE directory' = Without(Stale(p))
    BY <2>1, <2>2, <2>3, <2>5 DEF TakesAway, Effect
  <2>6. QED
    BY <1>18, <2>4, <2>5 DEF RetireFails
<1>15. CASE Expire(p)
  <2>1. UNCHANGED <<directory, nextToken, pc, path, retained>>
    BY <1>15 DEF Expire
  <2>2. Owned(p)' = Owned(p) /\ Dead' = Dead
    BY <2>1 DEF Owned, InWork, Dead
  <2>3. QED
    BY <2>1, <2>2 DEF Steady, Effect
<1>16. CASE Crash(p)
  <2>1. /\ pc[p] # "dead" /\ pc' = [pc EXCEPT ![p] = "dead"] /\ UNCHANGED <<directory, nextToken>>
        /\ retained'[p] = <<>>
    BY <1>0, <1>16 DEF Crash, Throw, Goto
  <2>2. pc'[p] = "dead"
    BY <1>0, <2>1
  <2>3. Owned(p)' = {}
    BY <1>c, <2>1, <2>2 DEF Owning, Gated
  <2>4. p \notin Dead /\ Dead' = Dead \cup {p}
    BY <1>0, <2>1 DEF Dead
  <2>5. QED
    BY <2>1, <2>3, <2>4 DEF Dies, Effect
<1>17. QED
  BY <1>1, <1>2, <1>3, <1>4, <1>5, <1>6, <1>7, <1>8, <1>9, <1>10, <1>11, <1>12, <1>13, <1>14, <1>15, <1>16, <1>18
     DEF Step

-------------------------------------------------------------------------------
(* Nobody takes the directory of a live owner away. *)

LEMMA OwnersLive ==
  ASSUME ControlInv, NEW p \in Process, Owned(p) # {}
  PROVE  p \notin Dead
<1> SUFFICES ASSUME p \in Dead PROVE FALSE
  OBVIOUS
<1>1. pc[p] = "dead"
  BY DEF Dead
<1>2. pc[p] \notin Owning
  BY <1>1 DEF Owning, Gated
<1>3. retained[p] = <<>>
  BY <1>1 DEF ControlInv, RetainedAlone
<1>4. QED
  BY <1>2, <1>3, OwnedValue

\* What a reclaimer is about to rename has a dead owner: it is what was observed, and
\* what was observed had one.
LEMMA RetireeIsDead ==
  ASSUME LockInv, NEW p \in Process, pc[p] = "retire"
  PROVE  Exists(Stale(p)) /\ directory[Stale(p)].written /\ directory[Stale(p)].owner \in Dead
<1>1. path[p] \in Name /\ path[p] # <<>>
  BY DEF LockInv, ControlInv, LockTypeOK, PathMatchesPc, Gated
<1>2. Exists(Stale(p)) /\ directory[Stale(p)].token = Observed(p)
  BY DEF LockInv, ReclaimInv, RetireeStays
<1>3. Len(path[p]) \in 1..Len(path[p])
  BY <1>1, GateName
<1>4. Condemned(Stale(p), Observed(p))
  BY <1>3 DEF LockInv, ReclaimInv, PathsCondemned, Stale, Observed
<1>5. QED
  BY <1>2, <1>4 DEF Condemned

LEMMA OwnStep ==
  ASSUME LockInv, ControlInv', NEW p \in Process, Elsewhere(p),
         Effect(p)
  PROVE  OwnDirectoryStays'
<1>0. /\ \A q \in Process : \A name \in Owned(q) : name \in DOMAIN directory /\ directory[name].owner = q
      /\ \A q \in Process \ {p} : Owned(q)' = Owned(q)
      /\ LockTypeOK
  BY DEF LockInv, OwnerInv, OwnDirectoryStays, Elsewhere, ControlInv, Exists
<1>1. SUFFICES ASSUME NEW q \in Process, NEW name \in Owned(q)'
               PROVE  name \in DOMAIN directory' /\ directory'[name].owner = q
  BY DEF OwnDirectoryStays, Exists
<1>2. CASE Steady(p)
  BY <1>0, <1>1, <1>2 DEF Steady
<1>3. CASE Makes(p)
  <2>1. CASE q = p
    BY <1>1, <1>3, <2>1 DEF Makes
  <2>2. CASE q # p
    BY <1>0, <1>1, <1>3, <2>2 DEF Makes
  <2>3. QED
    BY <2>1, <2>2
<1>4. CASE Signs(p) \/ Forgets(p)
  <2>1. name \in DOMAIN directory /\ directory[name].owner = q
    BY <1>0, <1>1, <1>4 DEF Signs, Forgets
  <2>2. name \in DOMAIN directory' /\ directory'[name].owner = directory[name].owner
    BY <1>0, <1>4, <2>1, WithOwnerType DEF Signs, Forgets
  <2>3. QED
    BY <2>1, <2>2
<1>5. CASE TakesAway(p)
  <2>1. Exists(Stale(p)) /\ directory[Stale(p)].owner \in Dead
    BY <1>5, RetireeIsDead DEF TakesAway
  <2>2. name \in Owned(q)
    BY <1>0, <1>1, <1>5 DEF TakesAway
  <2>3. q \notin Dead
    BY <2>2, OwnersLive DEF LockInv
  <2>4. name # Stale(p)
    BY <1>0, <2>1, <2>2, <2>3
  <2>5. name \in DOMAIN directory /\ directory[name].owner = q
    BY <1>0, <2>2
  <2>6. directory' = Without(Stale(p))
    BY <1>5 DEF TakesAway
  <2>7. QED
    BY <2>4, <2>5, <2>6 DEF Without
<1>6. CASE Dies(p)
  BY <1>0, <1>1, <1>6 DEF Dies
<1>7. ASSUME NEW given \in Name, GivesUp(p, given)
      PROVE  name \in DOMAIN directory' /\ directory'[name].owner = q
  <2>1. q # p /\ name \in Owned(q)
    BY <1>0, <1>1, <1>7 DEF GivesUp
  <2>2. name # given
    BY <1>0, <1>7, <2>1 DEF GivesUp
  <2>3. name \in DOMAIN directory /\ directory[name].owner = q
    BY <1>0, <2>1
  <2>4. directory' = Without(given)
    BY <1>7 DEF GivesUp
  <2>5. QED
    BY <2>2, <2>3, <2>4 DEF Without
<1>8. QED
  BY <1>2, <1>3, <1>4, <1>5, <1>6, <1>7 DEF Effect

\* A directory that stays has the same owner.
LEMMA StayersKeepOwner ==
  ASSUME LockTypeOK, NEW p \in Process,
         Effect(p),
         NEW name \in DOMAIN directory, name \in DOMAIN directory'
  PROVE  /\ directory'[name].owner = directory[name].owner
         /\ directory'[name].token = directory[name].token
         /\ directory[name].written => directory'[name].written
<1>1. directory[name] \in Directory
  BY DEF LockTypeOK
<1>2. CASE Steady(p) \/ Dies(p)
  BY <1>2 DEF Steady, Dies
<1>3. CASE Makes(p)
  BY <1>3 DEF Makes
<1>4. CASE Signs(p) \/ Forgets(p)
  <2>1. /\ WithOwner(path[p])[name].owner = directory[name].owner
        /\ WithOwner(path[p])[name].token = directory[name].token
        /\ directory[name].written => WithOwner(path[p])[name].written
    BY WithOwnerType
  <2>2. directory' = directory \/ directory' = WithOwner(path[p])
    BY <1>4 DEF Signs, Forgets
  <2>3. QED
    BY <2>1, <2>2
<1>5. CASE TakesAway(p)
  BY <1>5, WithoutType DEF TakesAway
<1>6. ASSUME NEW given \in Name, GivesUp(p, given)
      PROVE  directory'[name] = directory[name]
  BY <1>6, WithoutType DEF GivesUp
<1>7. QED
  BY <1>2, <1>3, <1>4, <1>5, <1>6 DEF Effect

\* Only Mkdir makes a directory.
LEMMA NewOnesAreMade ==
  ASSUME LockTypeOK, NEW p \in Process,
         Effect(p),
         NEW name \in DOMAIN directory', name \notin DOMAIN directory
  PROVE  Makes(p) /\ name = path[p]
<1>1. ~ Steady(p) /\ ~ Dies(p)
  BY DEF Steady, Dies
<1>2. ~ Signs(p) /\ ~ Forgets(p)
  BY WithOwnerType DEF Signs, Forgets
<1>3. ~ TakesAway(p)
  BY WithoutType DEF TakesAway
<1>4. ASSUME NEW given \in Name PROVE ~ GivesUp(p, given)
  BY WithoutType DEF GivesUp
<1>5. Makes(p)
  BY <1>1, <1>2, <1>3, <1>4 DEF Effect
<1>6. QED
  BY <1>5 DEF Makes

LEMMA WrittenStep ==
  ASSUME LockInv, ControlInv', NEW p \in Process, Elsewhere(p),
         Effect(p)
  PROVE  WrittenWhenReady'
<1>0. /\ \A q \in Process : \A name \in Owned(q) :
           /\ name \in DOMAIN directory /\ directory[name].owner = q
           /\ directory[name].written <=> pc[q] # "write"
      /\ \A q \in Process \ {p} : Owned(q)' = Owned(q) /\ pc'[q] = pc[q]
      /\ LockTypeOK
  BY DEF LockInv, OwnerInv, OwnDirectoryStays, WrittenWhenReady, Elsewhere, ControlInv, Exists
<1>1. OwnDirectoryStays'
  BY OwnStep
<1>2. SUFFICES ASSUME NEW q \in Process, NEW name \in Owned(q)'
               PROVE  directory'[name].written <=> pc'[q] # "write"
  BY DEF WrittenWhenReady
<1>3. name \in DOMAIN directory'
  BY <1>1, <1>2 DEF OwnDirectoryStays, Exists
<1>4. CASE Steady(p)
  BY <1>0, <1>2, <1>4 DEF Steady
<1>5. CASE Makes(p)
  <2>1. CASE q = p
    BY <1>2, <1>5, <2>1 DEF Makes
  <2>2. CASE q # p
    BY <1>0, <1>2, <1>5, <2>2 DEF Makes
  <2>3. QED
    BY <2>1, <2>2
<1>6. CASE Signs(p)
  <2>1. name \in DOMAIN directory /\ name \in Owned(q)
    BY <1>0, <1>2, <1>6 DEF Signs
  <2>2. directory'[name].written = (name = path[p] \/ directory[name].written)
    BY <1>0, <1>6, <2>1, WithOwnerType DEF Signs
  <2>3. CASE q = p
    BY <1>6, <1>2, <2>2, <2>3 DEF Signs
  <2>4. CASE q # p
    <3>1. name # path[p]
      BY <1>0, <1>6, <2>1, <2>4 DEF Signs
    <3>2. QED
      BY <1>0, <2>1, <2>2, <2>4, <3>1
  <2>5. QED
    BY <2>3, <2>4
<1>11. CASE Forgets(p)
  <2>1. q # p /\ name \in Owned(q) /\ name \in DOMAIN directory
    BY <1>0, <1>2, <1>11 DEF Forgets
  <2>2. name # path[p]
    BY <1>0, <1>11, <2>1 DEF Forgets
  <2>3. directory'[name].written <=> directory[name].written
    <3>1. WithOwner(path[p])[name].written <=> directory[name].written
      BY <1>0, <2>1, <2>2, WithOwnerType
    <3>2. directory' = directory \/ directory' = WithOwner(path[p])
      BY <1>11 DEF Forgets
    <3>3. QED
      BY <3>1, <3>2
  <2>4. QED
    BY <1>0, <2>1, <2>3
<1>7. CASE TakesAway(p)
  <2>1. name \in Owned(q)
    BY <1>0, <1>2, <1>7 DEF TakesAway
  <2>2. directory'[name] = directory[name]
    BY <1>0, <1>3, <1>7, WithoutType DEF TakesAway
  <2>3. pc'[q] = "write" <=> pc[q] = "write"
    BY <1>0, <1>7 DEF TakesAway
  <2>4. QED
    BY <1>0, <2>1, <2>2, <2>3
<1>8. CASE Dies(p)
  BY <1>0, <1>2, <1>8 DEF Dies
<1>9. ASSUME NEW given \in Name, GivesUp(p, given)
      PROVE  directory'[name].written <=> pc'[q] # "write"
  <2>1. q # p /\ name \in Owned(q)
    BY <1>0, <1>2, <1>9 DEF GivesUp
  <2>2. directory'[name] = directory[name]
    BY <1>0, <1>3, <1>9, WithoutType DEF GivesUp
  <2>3. QED
    BY <1>0, <2>1, <2>2
<1>10. QED
  BY <1>4, <1>5, <1>6, <1>7, <1>8, <1>9, <1>11 DEF Effect

-------------------------------------------------------------------------------
(* What was observed stays condemned until it is taken away. *)

LEMMA DeadStayDead ==
  ASSUME NEW p \in Process,
         Effect(p)
  PROVE  \A q \in Dead : q \in Dead'
BY DEF Effect, Steady, Makes, Signs, Forgets, TakesAway, Dies, GivesUp

LEMMA TokensGrow ==
  ASSUME LockTypeOK, NEW p \in Process,
         Effect(p)
  PROVE  nextToken \in Nat /\ (nextToken' = nextToken \/ nextToken' = nextToken + 1)
<1>1. nextToken \in Nat
  BY DEF LockTypeOK
<1>2. nextToken' = nextToken \/ nextToken' = nextToken + 1
  BY DEF Effect, Steady, Makes, Signs, Forgets, TakesAway, Dies, GivesUp
<1>3. QED
  BY <1>1, <1>2

LEMMA TokensStep ==
  ASSUME LockInv, NEW p \in Process,
         Effect(p)
  PROVE  TokensUsed'
<1>0. LockTypeOK /\ \A name \in DOMAIN directory : directory[name].token < nextToken
  BY DEF LockInv, ControlInv, ReclaimInv, TokensUsed
<1>1. SUFFICES ASSUME NEW name \in DOMAIN directory' PROVE directory'[name].token < nextToken'
  BY DEF TokensUsed
<1>2. nextToken \in Nat /\ (nextToken' = nextToken \/ nextToken' = nextToken + 1)
  BY <1>0, TokensGrow
<1>3. CASE name \in DOMAIN directory
  <2>1. directory'[name].token = directory[name].token
    BY <1>0, <1>3, StayersKeepOwner
  <2>2. directory[name].token \in Nat
    BY <1>0, <1>3 DEF LockTypeOK, Directory
  <2>3. QED
    BY <1>0, <1>2, <1>3, <2>1, <2>2
<1>4. CASE name \notin DOMAIN directory
  <2>1. Makes(p) /\ name = path[p]
    BY <1>0, <1>4, NewOnesAreMade
  <2>2. directory'[name].token = nextToken /\ nextToken' = nextToken + 1
    BY <2>1 DEF Makes
  <2>3. QED
    BY <1>2, <2>2
<1>5. QED
  BY <1>3, <1>4

LEMMA CondemnedStays ==
  ASSUME LockInv, NEW p \in Process,
         Effect(p),
         NEW name, NEW token \in Nat, Condemned(name, token)
  PROVE  Condemned(name, token)'
<1>0. LockTypeOK /\ token < nextToken
  BY DEF LockInv, ControlInv, Condemned
<1>1. nextToken \in Nat /\ (nextToken' = nextToken \/ nextToken' = nextToken + 1)
  BY <1>0, TokensGrow
<1>2. token < nextToken'
  BY <1>0, <1>1
<1>3. ASSUME name \in DOMAIN directory', directory'[name].token = token
      PROVE  directory'[name].written /\ directory'[name].owner \in Dead'
  <2>1. CASE name \in DOMAIN directory
    <3>1. /\ directory'[name].owner = directory[name].owner
          /\ directory'[name].token = directory[name].token
          /\ directory[name].written => directory'[name].written
      BY <1>0, <1>3, <2>1, StayersKeepOwner
    <3>2. directory[name].written /\ directory[name].owner \in Dead
      BY <1>3, <2>1, <3>1 DEF Condemned, Exists
    <3>3. QED
      BY <3>1, <3>2, DeadStayDead
  <2>2. CASE name \notin DOMAIN directory
    <3>1. Makes(p) /\ name = path[p]
      BY <1>0, <1>3, <2>2, NewOnesAreMade
    <3>2. token = nextToken
      BY <1>3, <3>1 DEF Makes
    <3>3. QED
      BY <1>0, <1>1, <3>2
  <2>3. QED
    BY <2>1, <2>2
<1>4. QED
  BY <1>2, <1>3 DEF Condemned, Exists

\* The stack grows over a dead owner's lock, shrinks by a frame or is left.
LEMMA StackMoves ==
  ASSUME ControlInv, NEW p \in Process, acquire(p) \/ Step(p) \/ Expire(p) \/ Crash(p)
  PROVE  \/ path'[p] = path[p]
         \/ path'[p] = <<>>
         \/ path[p] # <<>> /\ path'[p] = Stale(p)
         \/ /\ Readable(path[p]) /\ directory[path[p]].owner \in Dead
            /\ path'[p] = Append(path[p], directory[path[p]].token)
<1>0. path \in [Process -> Name] /\ (pc[p] \in Gated => path[p] # <<>>)
  BY DEF ControlInv, LockTypeOK, PathMatchesPc
<1>1. CASE acquire(p) \/ Drain(p) \/ DrainFails(p) \/ Mkdir(p) \/ WriteOwner(p)
  BY <1>1 DEF acquire, Drain, DrainFails, Mkdir, WriteOwner
<1>2. CASE InspectFails(p) \/ Check(p) \/ CheckFails(p) \/ Retire(p) \/ RetireFails(p) \/ Release(p) \/ Expire(p)
  BY <1>2 DEF InspectFails, Check, CheckFails, Retire, RetireFails, Release, Expire
<1>3. CASE MkdirFails(p) \/ WriteFails(p) \/ Wait(p) \/ ReleaseFails(p) \/ Crash(p)
  BY <1>0, <1>3 DEF MkdirFails, WriteFails, Wait, ReleaseFails, Crash, Throw
<1>4. CASE Inspect(p)
  BY <1>0, <1>4 DEF Inspect
<1>5. CASE LeaveGate(p)
  BY <1>0, <1>5 DEF LeaveGate, Throw, Gated
<1>6. QED
  BY <1>1, <1>2, <1>3, <1>4, <1>5 DEF Step

LEMMA FramesStep ==
  ASSUME LockInv, ControlInv', NEW p \in Process, Elsewhere(p),
         acquire(p) \/ Step(p) \/ Expire(p) \/ Crash(p),
         Effect(p)
  PROVE  PathsCondemned'
<1>0. /\ \A q \in Process : path[q] \in Name
      /\ \A q \in Process : \A k \in 1..Len(path[q]) : Condemned(SubSeq(path[q], 1, k - 1), path[q][k])
      /\ \A q \in Process \ {p} : path'[q] = path[q]
      /\ ControlInv /\ LockTypeOK
  BY DEF LockInv, ControlInv, ReclaimInv, LockTypeOK, PathsCondemned, Elsewhere
<1>1. SUFFICES ASSUME NEW q \in Process, NEW k \in 1..Len(path'[q]), NEW name, NEW token,
                      name = SubSeq(path'[q], 1, k - 1), token = path'[q][k]
               PROVE  Condemned(name, token)'
  BY DEF PathsCondemned, Condemned, Exists
<1>2. \A n \in Name : \A j \in 1..Len(n) : n[j] \in Nat
  BY DEF Name
<1>3. SUFFICES token \in Nat /\ Condemned(name, token)
  BY CondemnedStays
<1>4. CASE path'[q] = path[q]
  BY <1>0, <1>1, <1>2, <1>4
<1>5. CASE q = p /\ path'[p] = <<>>
  BY <1>1, <1>5
<1>6. CASE q = p /\ path[p] # <<>> /\ path'[p] = Stale(p)
  <2>1. /\ k \in 1..Len(path[p]) /\ token = path[p][k]
        /\ name = SubSeq(path[p], 1, k - 1)
    BY <1>0, <1>1, <1>6, FramesBehind DEF Stale
  <2>2. QED
    BY <1>0, <1>2, <2>1
<1>7. CASE /\ q = p /\ Readable(path[p]) /\ directory[path[p]].owner \in Dead
           /\ path'[p] = Append(path[p], directory[path[p]].token)
  <2> DEFINE observed == directory[path[p]].token
  <2>1. observed \in Nat /\ observed < nextToken
    <3>1. path[p] \in DOMAIN directory
      BY <1>7 DEF Readable, Exists
    <3>2. observed \in Nat
      BY <1>0, <3>1 DEF LockTypeOK, Directory
    <3>3. QED
      BY <3>1, <3>2 DEF LockInv, ReclaimInv, TokensUsed
  <2>2. Condemned(path[p], observed)
    BY <1>7, <2>1 DEF Condemned, Readable
  <2>3. path'[q] = Append(path[p], observed)
    BY <1>7
  <2> HIDE DEF observed
  <2>4. \/ /\ k \in 1..Len(path[p]) /\ token = path[p][k]
           /\ name = SubSeq(path[p], 1, k - 1)
        \/ token = observed /\ name = path[p]
    BY <1>0, <1>1, <2>1, <2>3, FramesAppended
  <2>5. QED
    BY <1>0, <1>2, <2>1, <2>2, <2>4
<1>8. QED
  BY <1>0, <1>4, <1>5, <1>6, <1>7, StackMoves

\* Two gates for the same observation are the same gate.
LEMMA SameRetireeSameGate ==
  ASSUME LockInv, NEW p \in Process, NEW q \in Process,
         pc[p] = "retire", pc[q] = "retire", Stale(p) = Stale(q)
  PROVE  p = q
<1>1. /\ path[p] \in Name /\ path[p] # <<>> /\ path[q] \in Name /\ path[q] # <<>>
  BY DEF LockInv, ControlInv, LockTypeOK, PathMatchesPc, Gated
<1>2. Observed(p) = Observed(q)
  BY DEF LockInv, ReclaimInv, RetireeStays
<1>3. path[p] = Append(Stale(p), Observed(p)) /\ path[q] = Append(Stale(q), Observed(q))
  BY <1>1, GateName DEF Stale, Observed
<1>4. path[p] = path[q]
  BY <1>2, <1>3
<1>5. path[p] \in Owned(p) /\ path[q] \in Owned(q)
  BY OwnedValue DEF LockInv, Owning, Gated
<1>6. QED
  BY <1>4, <1>5 DEF LockInv, OwnerInv, OwnDirectoryStays

LEMMA RetireeStep ==
  ASSUME LockInv, ControlInv', NEW p \in Process, Elsewhere(p),
         acquire(p) \/ Step(p) \/ Expire(p) \/ Crash(p),
         Effect(p)
  PROVE  RetireeStays'
<1>0. /\ \A q \in Process \ {p} : pc'[q] = pc[q] /\ path'[q] = path[q]
      /\ \A q \in Process : pc[q] = "retire" =>
           Stale(q) \in DOMAIN directory /\ directory[Stale(q)].token = Observed(q)
      /\ pc \in [Process -> Label] /\ path \in [Process -> Name] /\ LockTypeOK
  BY DEF LockInv, ControlInv, ReclaimInv, LockTypeOK, RetireeStays, Elsewhere, Exists
<1>1. SUFFICES ASSUME NEW q \in Process, pc'[q] = "retire"
               PROVE  Stale(q)' \in DOMAIN directory' /\ directory'[Stale(q)'].token = Observed(q)'
  BY DEF RetireeStays, Exists
<1>2. CASE q = p
  <2>1. CASE Check(p)
    <3>1. /\ Readable(Stale(p)) /\ directory[Stale(p)].token = Observed(p)
          /\ directory' = directory /\ path' = path
      BY <1>0, <1>1, <1>2, <2>1 DEF Check, Goto
    <3>2. Stale(p)' = Stale(p) /\ Observed(p)' = Observed(p)
      BY <3>1 DEF Stale, Observed
    <3>3. QED
      BY <1>2, <3>1, <3>2 DEF Readable, Exists
  <2>2. CASE Expire(p)
    <3>1. pc' = pc /\ path' = path /\ directory' = directory
      BY <2>2 DEF Expire
    <3>2. Stale(p)' = Stale(p) /\ Observed(p)' = Observed(p)
      BY <3>1 DEF Stale, Observed
    <3>3. QED
      BY <1>0, <1>1, <1>2, <3>1, <3>2
  <2>3. CASE acquire(p) \/ Crash(p)
    BY <1>0, <1>1, <1>2, <2>3 DEF acquire, Crash, Throw, Goto
  <2>4. CASE Drain(p) \/ DrainFails(p)
    BY <1>0, <1>1, <1>2, <2>4 DEF Drain, DrainFails, Throw, Goto
  <2>5. CASE Mkdir(p) \/ MkdirFails(p) \/ WriteOwner(p) \/ WriteFails(p)
    BY <1>0, <1>1, <1>2, <2>5 DEF Mkdir, MkdirFails, WriteOwner, WriteFails, Throw, Goto
  <2>6. CASE Inspect(p) \/ InspectFails(p) \/ Wait(p) \/ CheckFails(p)
    BY <1>0, <1>1, <1>2, <2>6 DEF Inspect, InspectFails, Wait, CheckFails, Throw, Goto
  <2>7. CASE Retire(p) \/ RetireFails(p) \/ LeaveGate(p)
    BY <1>0, <1>1, <1>2, <2>7 DEF Retire, RetireFails, LeaveGate, Throw, Goto
  <2>8. CASE Release(p) \/ ReleaseFails(p)
    BY <1>0, <1>1, <1>2, <2>8 DEF Release, ReleaseFails, Throw, Goto
  <2>9. QED
    BY <2>1, <2>2, <2>3, <2>4, <2>5, <2>6, <2>7, <2>8 DEF Step
<1>3. CASE q # p
  <2>1. pc[q] = "retire" /\ Stale(q)' = Stale(q) /\ Observed(q)' = Observed(q)
    BY <1>0, <1>1, <1>3 DEF Stale, Observed
  <2>2. /\ Stale(q) \in DOMAIN directory /\ directory[Stale(q)].token = Observed(q)
        /\ directory[Stale(q)].owner \in Dead
    BY <1>0, <2>1, RetireeIsDead
  <2> DEFINE stale == Stale(q)
  <2>3. stale \in DOMAIN directory /\ directory[stale].owner \in Dead
    BY <2>2
  <2>4. pc[p] = "retire" => Stale(p) # stale
    BY <1>3, <2>1, SameRetireeSameGate
  <2> HIDE DEF stale
  <2>5. stale \in DOMAIN directory'
    <3>1. CASE Steady(p) \/ Dies(p)
      BY <2>3, <3>1 DEF Steady, Dies
    <3>2. CASE Makes(p)
      BY <2>3, <3>2 DEF Makes
    <3>3. CASE Signs(p) \/ Forgets(p)
      BY <1>0, <2>3, <3>3, WithOwnerType DEF Signs, Forgets
    <3>4. CASE TakesAway(p)
      BY <2>3, <2>4, <3>4 DEF TakesAway, Without
    <3>5. ASSUME NEW given \in Name, GivesUp(p, given) PROVE stale \in DOMAIN directory'
      <4>1. directory[given].owner = p /\ p \notin Dead /\ directory' = Without(given)
        BY <3>5 DEF GivesUp, LockInv, OwnerInv, OwnDirectoryStays
      <4>2. QED
        BY <2>3, <4>1 DEF Without
    <3>6. QED
      BY <3>1, <3>2, <3>3, <3>4, <3>5 DEF Effect
  <2>6. directory'[stale].token = directory[stale].token
    BY <1>0, <2>3, <2>5, StayersKeepOwner
  <2>7. QED
    BY <2>1, <2>2, <2>5, <2>6 DEF stale
<1>4. QED
  BY <1>2, <1>3

-------------------------------------------------------------------------------
(* The theorems. *)

LEMMA LockInit == Init => LockInv
<1> SUFFICES ASSUME Init PROVE LockInv
  OBVIOUS
<1>1. ControlInv
  BY ControlInit
<1>2. DOMAIN directory = {}
  BY DEF Init
<1>3. \A p \in Process : pc[p] = "idle" /\ path[p] = <<>> /\ retained[p] = <<>>
  BY DEF Init
<1>4. \A p \in Process : Owned(p) = {}
  BY <1>1, <1>3, OwnedValue DEF Owning, Gated
<1>5. OwnerInv
  BY <1>2, <1>4 DEF OwnerInv, OwnDirectoryStays, WrittenWhenReady
<1>6. ReclaimInv
  BY <1>2, <1>3 DEF ReclaimInv, TokensUsed, PathsCondemned, RetireeStays
<1>7. QED
  BY <1>1, <1>5, <1>6 DEF LockInv

LEMMA LockStep == LockInv /\ [Next]_vars => LockInv'
<1> SUFFICES ASSUME LockInv, [Next]_vars PROVE LockInv'
  OBVIOUS
<1>1. ASSUME NEW p \in Process, acquire(p) \/ Step(p) \/ Expire(p) \/ Crash(p)
      PROVE  LockInv'
  <2>1. ControlInv /\ ControlInv'
    BY <1>1, ControlStep DEF LockInv
  <2>2. Elsewhere(p)
    BY <1>1, <2>1, OthersUnmoved
  <2>3. Effect(p)
    BY <1>1, <2>1, StepEffect
  <2>4. OwnerInv'
    BY <2>1, <2>2, <2>3, OwnStep, WrittenStep DEF OwnerInv
  <2>5. ReclaimInv'
    BY <1>1, <2>1, <2>2, <2>3, TokensStep, FramesStep, RetireeStep DEF ReclaimInv
  <2>6. QED
    BY <2>1, <2>4, <2>5 DEF LockInv
<1>2. CASE UNCHANGED vars
  <2> USE <1>2 DEF vars
  <2>1. ControlInv'
    BY DEF LockInv, ControlInv, LockTypeOK, Directory, PathMatchesPc, RetainedAlone
  <2>2. Dead' = Dead /\ \A p \in Process : Owned(p)' = Owned(p)
    BY DEF Dead, Owned, InWork
  <2>3. OwnerInv'
    BY <2>2 DEF LockInv, OwnerInv, OwnDirectoryStays, WrittenWhenReady, Exists
  <2>4. ReclaimInv'
    BY <2>2 DEF LockInv, ReclaimInv, TokensUsed, PathsCondemned, Condemned, RetireeStays, Exists, Stale, Observed
  <2>5. QED
    BY <2>1, <2>3, <2>4 DEF LockInv
<1>3. QED
  BY <1>1, <1>2 DEF Next

LEMMA LockInvHolds == Spec => []LockInv
<1>1. QED
  BY LockInit, LockStep, PTL DEF Spec

\* The state of the lock keeps its types: names are sequences of tokens, and a process
\* is at one of the labels of the acquire loop, the reclaim or the release.
THEOREM LockTypeCorrect == Spec => []LockTypeOK
<1>1. LockInv => LockTypeOK
  BY DEF LockInv, ControlInv
<1>2. QED
  BY <1>1, LockInvHolds, PTL

\* Nobody takes the directory of a live owner away (reclaim compares what is there with
\* what it observed before removeOwnedLock), for any number of processes and crashes.
THEOREM LiveOwnersKeepTheirs == Spec => []OwnDirectoryStays
<1>1. LockInv => OwnDirectoryStays
  BY DEF LockInv, OwnerInv
<1>2. QED
  BY <1>1, LockInvHolds, PTL

\* Between the comparison in reclaim and the rename in retireDurableFileLockSync nothing
\* changes behind the gate: what is renamed is what was observed, and its owner is dead.
RetiresWhatItSaw ==
  [][\A p \in Process : Retire(p) =>
       /\ Readable(Stale(p))
       /\ directory[Stale(p)].token = Observed(p)
       /\ directory[Stale(p)].owner \in Dead]_vars

\* A reclaimer renames the directory that it observed and no other.
THEOREM ReclaimersRetireWhatTheySaw == Spec => RetiresWhatItSaw
<1>1. ASSUME LockInv, NEW p \in Process, Retire(p)
      PROVE  /\ Readable(Stale(p))
             /\ directory[Stale(p)].token = Observed(p)
             /\ directory[Stale(p)].owner \in Dead
  <2>1. pc[p] = "retire"
    BY <1>1 DEF Retire
  <2>2. Exists(Stale(p)) /\ directory[Stale(p)].written /\ directory[Stale(p)].owner \in Dead
    BY <1>1, <2>1, RetireeIsDead
  <2>3. directory[Stale(p)].token = Observed(p)
    BY <1>1, <2>1 DEF LockInv, ReclaimInv, RetireeStays
  <2>4. QED
    BY <2>2, <2>3 DEF Readable
<1>2. LockInv => [\A p \in Process : Retire(p) =>
                    /\ Readable(Stale(p))
                    /\ directory[Stale(p)].token = Observed(p)
                    /\ directory[Stale(p)].owner \in Dead]_vars
  BY <1>1
<1>3. QED
  BY <1>2, LockInvHolds, PTL DEF RetiresWhatItSaw

\* No two processes are about to rename the same directory: the gate lets one pass.
ReclaimersExclude ==
  \A p, q \in Process : pc[p] = "retire" /\ pc[q] = "retire" /\ Stale(p) = Stale(q) => p = q

\* The gate of a dead owner's lock admits one reclaimer at a time.
THEOREM GatesExclude == Spec => []ReclaimersExclude
<1>1. LockInv => ReclaimersExclude
  BY SameRetireeSameGate DEF ReclaimersExclude
<1>2. QED
  BY <1>1, LockInvHolds, PTL

-------------------------------------------------------------------------------
(* The directories implement the lock. *)

\* Who holds the lock is written in the lock directory.
Signed == IF Readable(<<>>) THEN {directory[<<>>].owner} ELSE {}

LEMMA HoldersSigned == LockInv => Holders = Signed
<1> SUFFICES ASSUME LockInv PROVE Holders = Signed
  OBVIOUS
<1>0. /\ \A p \in Process : \A name \in Owned(p) :
           /\ name \in DOMAIN directory /\ directory[name].owner = p
           /\ directory[name].written <=> pc[p] # "write"
      /\ ControlInv
  BY DEF LockInv, OwnerInv, OwnDirectoryStays, WrittenWhenReady, Exists
<1>1. ASSUME NEW p \in Holders PROVE p \in Signed
  <2>0. p \in Process
    BY <1>1 DEF Holders
  <2>1. CASE Readable(<<>>) /\ directory[<<>>].owner = p
    BY <2>1 DEF Signed
  <2>2. CASE pc[p] = "held"
    <3>1. Owned(p) = {<<>>}
      BY <1>0, <2>0, <2>2, OwnedValue DEF Owning, ControlInv, PathMatchesPc, Resting
    <3>2. <<>> \in DOMAIN directory /\ directory[<<>>].owner = p /\ directory[<<>>].written
      BY <1>0, <2>0, <2>2, <3>1
    <3>3. QED
      BY <3>2 DEF Signed, Readable, Exists
  <2>3. CASE \E k \in DOMAIN retained[p] : retained[p][k] = <<>>
    <3>1. <<>> \in Owned(p)
      BY <2>3 DEF Owned
    <3>2. pc[p] \in {"drain", "failed"}
      <4>1. retained[p] # <<>>
        BY <2>3
      <4>2. QED
        BY <1>0, <2>0, <4>1 DEF ControlInv, RetainedAlone
    <3>3. <<>> \in DOMAIN directory /\ directory[<<>>].owner = p /\ directory[<<>>].written
      BY <1>0, <2>0, <3>1, <3>2
    <3>4. QED
      BY <3>3 DEF Signed, Readable, Exists
  <2>4. QED
    BY <1>1, <2>1, <2>2, <2>3 DEF Holders
<1>2. ASSUME Readable(<<>>), NEW p, p = directory[<<>>].owner PROVE p \in Holders
  <2>1. <<>> \in DOMAIN directory /\ directory[<<>>].written
    BY <1>2 DEF Readable, Exists
  <2>2. p \in Process
    BY <1>0, <1>2, <2>1 DEF ControlInv, LockTypeOK, Directory
  <2>3. CASE p \in Dead \/ <<>> \notin Owned(p)
    BY <1>2, <2>2, <2>3 DEF Holders
  <2>4. CASE <<>> \in Owned(p)
    <3>1. <<>> \in Owned(p) /\ pc[p] # "write"
      BY <1>0, <1>2, <2>1, <2>2, <2>4
    <3>2. CASE \E k \in DOMAIN retained[p] : retained[p][k] = <<>>
      BY <2>2, <3>2 DEF Holders
    <3>3. CASE ~ \E k \in DOMAIN retained[p] : retained[p][k] = <<>>
      <4>1. pc[p] \in Owning /\ path[p] = <<>>
        BY <3>1, <3>3 DEF Owned, InWork, Owning, Gated
      <4>2. pc[p] = "held"
        BY <1>0, <2>2, <3>1, <4>1 DEF ControlInv, PathMatchesPc, Owning
      <4>3. QED
        BY <2>2, <4>2 DEF Holders
    <3>4. QED
      BY <3>2, <3>3
  <2>5. QED
    BY <2>3, <2>4
<1>3. ASSUME NEW p \in Signed PROVE p \in Holders
  BY <1>2, <1>3 DEF Signed
<1>4. QED
  BY <1>1, <1>3

LEMMA HoldersSignedNext == LockInv' => (Holders = Signed)'
BY HoldersSigned, PTL

\* The lock directory changes hands as the abstract lock does.
LEMMA LockRefines ==
  ASSUME LockInv, LockInv', NEW p \in Process,
         Effect(p)
  PROVE  [Lock!Next]_Lock!vars
<1>0. Holders = Signed /\ Holders' = Signed'
  BY HoldersSigned, HoldersSignedNext
<1>a. /\ \A q \in Process : \A name \in Owned(q) :
           /\ name \in DOMAIN directory /\ directory[name].owner = q
           /\ directory[name].written <=> pc[q] # "write"
      /\ LockTypeOK
      /\ Dead \subseteq Process
  BY DEF LockInv, OwnerInv, OwnDirectoryStays, WrittenWhenReady, Exists, ControlInv, Dead
<1>b. ASSUME UNCHANGED <<Signed, Dead>> PROVE [Lock!Next]_Lock!vars
  BY <1>0, <1>b DEF Lock!vars
<1>1. CASE Steady(p)
  BY <1>1, <1>b DEF Steady, Signed, Readable, Exists
<1>2. CASE Makes(p)
  <2>1. CASE path[p] = <<>>
    <3>1. ~ Readable(<<>>)
      BY <1>2, <2>1 DEF Makes, Readable
    <3>2. ~ directory'[<<>>].written
      BY <1>2, <2>1 DEF Makes
    <3>3. Signed = {} /\ Signed' = {}
      BY <3>1, <3>2 DEF Signed, Readable
    <3>4. QED
      BY <1>2, <1>b, <3>3 DEF Makes
  <2>2. CASE path[p] # <<>>
    <3>1. Exists(<<>>)' <=> Exists(<<>>)
      BY <1>2, <2>2 DEF Makes, Exists
    <3>2. Exists(<<>>) => directory'[<<>>] = directory[<<>>]
      BY <1>2 DEF Makes, Exists
    <3>3. QED
      BY <1>2, <1>b, <3>1, <3>2 DEF Makes, Signed, Readable
  <2>3. QED
    BY <2>1, <2>2
<1>c. ASSUME directory' = WithOwner(path[p]), UNCHANGED Dead, p \notin Dead, path[p] \in Owned(p), pc[p] = "write"
      PROVE  [Lock!Next]_Lock!vars
  <2>1. /\ DOMAIN directory' = DOMAIN directory
        /\ \A name \in DOMAIN directory :
             /\ directory'[name].owner = directory[name].owner
             /\ directory'[name].written = (name = path[p] \/ directory[name].written)
    BY <1>a, <1>c, WithOwnerType
  <2>2. CASE path[p] = <<>>
    <3>1. <<>> \in DOMAIN directory /\ directory[<<>>].owner = p /\ ~ directory[<<>>].written
      BY <1>a, <1>c, <2>2
    <3>2. Signed = {} /\ Signed' = {p}
      BY <2>1, <2>2, <3>1 DEF Signed, Readable, Exists
    <3>3. Lock!Acquire(p)
      BY <1>0, <1>c, <3>2 DEF Lock!Acquire
    <3>4. QED
      BY <3>3 DEF Lock!Next
  <2>3. CASE path[p] # <<>>
    <3>1. Signed' = Signed
      BY <2>1, <2>3 DEF Signed, Readable, Exists
    <3>2. QED
      BY <1>b, <1>c, <3>1
  <2>4. QED
    BY <2>2, <2>3
<1>3. CASE Signs(p)
  BY <1>3, <1>c DEF Signs
<1>8. CASE Forgets(p)
  <2>1. CASE directory' = directory
    BY <1>8, <1>b, <2>1 DEF Forgets, Signed, Readable, Exists
  <2>2. CASE directory' = WithOwner(path[p])
    BY <1>8, <1>c, <2>2 DEF Forgets
  <2>3. QED
    BY <1>8, <2>1, <2>2 DEF Forgets
<1>4. CASE TakesAway(p)
  <2>1. Exists(Stale(p)) /\ directory[Stale(p)].written /\ directory[Stale(p)].owner \in Dead
    BY <1>4, RetireeIsDead DEF TakesAway
  <2>2. CASE Stale(p) = <<>>
    <3>1. PICK q : q = directory[<<>>].owner
      OBVIOUS
    <3>2. q \in Dead /\ q \in Process /\ Signed = {q}
      BY <1>a, <2>1, <2>2, <3>1 DEF Signed, Readable
    <3>3. Signed' = {}
      BY <1>4, <2>2 DEF TakesAway, Without, Signed, Readable, Exists
    <3>4. Lock!Break(q)
      BY <1>0, <1>4, <3>2, <3>3 DEF Lock!Break, TakesAway
    <3>5. QED
      BY <3>2, <3>4 DEF Lock!Next
  <2>3. CASE Stale(p) # <<>>
    <3>1. directory' = Without(Stale(p))
      BY <1>4 DEF TakesAway
    <3>2. /\ <<>> \in DOMAIN directory' <=> <<>> \in DOMAIN directory
          /\ <<>> \in DOMAIN directory => directory'[<<>>] = directory[<<>>]
      BY <2>3, <3>1 DEF Without
    <3>3. QED
      BY <1>4, <1>b, <3>2 DEF TakesAway, Signed, Readable, Exists
  <2>4. QED
    BY <2>2, <2>3
<1>5. CASE Dies(p)
  <2>1. Signed' = Signed
    BY <1>5 DEF Dies, Signed, Readable, Exists
  <2>2. Lock!Die(p)
    BY <1>0, <1>5, <2>1 DEF Lock!Die, Dies
  <2>3. QED
    BY <2>2 DEF Lock!Next
<1>6. ASSUME NEW given \in Name, GivesUp(p, given) PROVE [Lock!Next]_Lock!vars
  <2>1. directory' = Without(given) /\ directory[given].owner = p /\ given \in DOMAIN directory
    BY <1>6, <1>a DEF GivesUp
  <2>2. CASE given = <<>>
    <3>1. Signed' = {}
      BY <2>1, <2>2 DEF Without, Signed, Readable, Exists
    <3>2. CASE Readable(<<>>)
      <4>1. Signed = {p}
        BY <2>1, <2>2, <3>2 DEF Signed
      <4>2. Lock!Release(p)
        BY <1>0, <1>6, <3>1, <4>1 DEF Lock!Release, GivesUp
      <4>3. QED
        BY <4>2 DEF Lock!Next
    <3>3. CASE ~ Readable(<<>>)
      BY <1>6, <1>b, <3>1, <3>3 DEF Signed, GivesUp
    <3>4. QED
      BY <3>2, <3>3
  <2>3. CASE given # <<>>
    <3>1. /\ <<>> \in DOMAIN directory' <=> <<>> \in DOMAIN directory
          /\ <<>> \in DOMAIN directory => directory'[<<>>] = directory[<<>>]
      BY <2>1, <2>3 DEF Without
    <3>2. QED
      BY <1>6, <1>b, <3>1 DEF GivesUp, Signed, Readable, Exists
  <2>4. QED
    BY <2>2, <2>3
<1>7. QED
  BY <1>1, <1>2, <1>3, <1>4, <1>5, <1>6, <1>8 DEF Effect

\* acquireDurableFileLockPathSync, reclaim and release implement a lock with one holder
\* that only its death takes away: writing the owner file acquires it, moving the
\* directory aside releases it, or breaks it when the owner is dead.
THEOREM DirectoriesImplementLock == Spec => ImplementsLock
<1>1. Init => Lock!Init
  <2> SUFFICES ASSUME Init PROVE Lock!Init
    OBVIOUS
  <2>1. Holders = {}
    BY DEF Init, Holders, Readable, Exists, Dead
  <2>2. Dead = {}
    BY DEF Init, Dead
  <2>3. QED
    BY <2>1, <2>2 DEF Lock!Init
<1>2. LockInv /\ LockInv' /\ [Next]_vars => [Lock!Next]_Lock!vars
  <2> SUFFICES ASSUME LockInv, LockInv', [Next]_vars PROVE [Lock!Next]_Lock!vars
    OBVIOUS
  <2>1. ASSUME NEW p \in Process, acquire(p) \/ Step(p) \/ Expire(p) \/ Crash(p)
        PROVE  [Lock!Next]_Lock!vars
    <3>1. Effect(p)
      BY <2>1, StepEffect DEF LockInv
    <3>2. QED
      BY <3>1, LockRefines
  <2>2. CASE UNCHANGED vars
    BY <2>2 DEF vars, Lock!vars, Holders, Owned, InWork, Dead, Readable, Exists
  <2>3. QED
    BY <2>1, <2>2 DEF Next
<1>3. QED
  BY <1>1, <1>2, LockInvHolds, PTL DEF Spec, ImplementsLock, Lock!Spec

\* At most one process holds the lock, the one whose owner file is in the lock directory.
OneHolder == Holders = Signed /\ \A p, q \in Holders : p = q

\* The lock excludes, also while a process that died with it still counts as holder.
THEOREM LockExcludes == Spec => []OneHolder
<1>1. LockInv => OneHolder
  BY HoldersSigned DEF OneHolder, Signed
<1>2. QED
  BY <1>1, LockInvHolds, PTL

===============================================================================
