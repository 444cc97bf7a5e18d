-------------------------- MODULE ShardExecutionProofs --------------------------
(***************************************************************************)
(* What the journal of a plan of shards may be relied on for, for any plan *)
(* and any number of calls, failing appends and crashes: attempts have one *)
(* outcome, from the task that made them; dependencies come first; and     *)
(* what is reported passed has passed.                                     *)
(***************************************************************************)
EXTENDS ShardExecution, FiniteSetTheorems, TLAPS

-------------------------------------------------------------------------------
(* The parts of the invariant. *)

\* Where the executor is, a call has been made, and the store has the journal.  A
\* store without the journal is one nobody has called since the process started.
PlacesOK ==
  /\ pc # "idle" => call \in Call /\ journal.memory.kind # "unloaded"
  /\ \A c \in Call : c > call => task[c] = [s \in Shard |-> "none"]
  /\ pc = "rearm" => task[call] = [s \in Shard |-> "none"]
  /\ journal.memory.kind = "unloaded" =>
       /\ journal.memory.shards = Untouched
       /\ task = [c \in Call |-> [s \in Shard |-> "none"]]
       /\ projections = [c \in Call |-> Untouched]
  /\ journal.memory.kind = "absent" => journal.memory.shards = Untouched
  /\ journal.file.kind = "absent" => journal.file.shards = Untouched

\* Whoever takes a shard for passed is right.
EarnedOK ==
  \A s \in Shard :
    /\ journal.file.shards[s].state = "passed" => s \in earned
    /\ journal.memory.shards[s].state = "passed" => s \in earned
    /\ \A c \in Call : projections[c][s].state = "passed" =>
         s \in earned /\ journal.memory.shards[s].state = "passed"

\* What has been launched had its dependencies passed, and they stay so.
DueOK ==
  \A c \in Call, s \in Shard : task[c][s] = "acquire" =>
    \A d \in dependencyIds[s] : journal.memory.shards[d].state = "passed"

\* A running task has an attempt of its shard for its own: the latest one only if
\* it has started it.
AttemptOK ==
  \A c \in Call, s \in Shard : task[c][s] = "running" =>
    /\ projections[c][s].attempt <= journal.memory.shards[s].attempt
    /\ projections[c][s].attempt = journal.memory.shards[s].attempt => starter[s] = c

\* While no append has failed, the file, the store, the current call and its tasks
\* agree, and nobody else is at work.
AgreeOK ==
  journal.faults = 0 =>
    /\ journal.memory.kind # "unloaded" => journal.file = journal.memory
    /\ \A c \in Call, s \in Shard : task[c][s] \in Live => c = call /\ pc # "idle"
    /\ pc # "idle" => \A s \in Shard :
         /\ projections[call][s] = journal.memory.shards[s]
         /\ task[call][s] = "acquire" => projections[call][s].state = "pending"
         /\ task[call][s] = "running" => projections[call][s].state = "running"
    /\ pc = "rearm" => \A s \in rearm :
         projections[call][s].state \in {"running", "interrupted", "failed", "aborted"}

IInv ==
  /\ TypeOK
  /\ PlacesOK
  /\ EarnedOK
  /\ DueOK
  /\ AttemptOK
  /\ AgreeOK
  /\ FaultlessIsClean
  /\ PassedIsEarned

-------------------------------------------------------------------------------
(* Records and the journal. *)

\* A journal of the right type that nobody has confused with another.
Sane(j) ==
  /\ j \in [file : Content, memory : Content, faults : 0..MaxFaults]
  /\ j.file.kind # "unloaded" /\ j.memory.kind # "damaged"
  /\ j.memory.kind = "absent" => j.memory.shards = Untouched
  /\ j.file.kind = "absent" => j.file.shards = Untouched

LEMMA UntouchedType ==
  /\ Untouched \in [Shard -> Entry]
  /\ \A s \in Shard : Untouched[s].state = "pending" /\ Untouched[s].attempt = 0
  BY DEF Untouched, Entry, State

LEMMA ContentTypes ==
  /\ NoPlan \in Content /\ NoPlan.kind = "absent" /\ NoPlan.shards = Untouched
  /\ Damaged \in Content /\ Damaged.kind = "damaged" /\ Damaged.shards = Untouched
  /\ Unloaded \in Content /\ Unloaded.kind = "unloaded" /\ Unloaded.shards = Untouched
  BY UntouchedType DEF Content, NoPlan, Damaged, Unloaded

LEMMA MovedType ==
  ASSUME NEW p \in Entry, NEW state \in State
  PROVE  /\ Moved(p, state) \in Entry
         /\ Moved(p, state).state = state
         /\ state = "running" => Moved(p, state).attempt = p.attempt + 1
         /\ state # "running" => Moved(p, state).attempt = p.attempt
  BY DEF Moved, Entry

\* A record that replays comes from a legal state and continues the attempt.
LEMMA ReplaysLegal ==
  ASSUME NEW q \in Entry, NEW p \in Entry, NEW state \in State, Replays(q, Moved(p, state))
  PROVE  /\ q.state # "passed"
         /\ q.attempt = p.attempt
         /\ state = "running" => q.state = "pending"
         /\ state \in {"passed", "failed", "aborted", "interrupted"} => q.state = "running"
         /\ state = "pending" => q.state \in {"failed", "aborted", "interrupted"}
<1>1. <<q.state, state>> \in LEGAL_TRANSITIONS /\ Moved(p, state) = Moved(q, state)
  BY MovedType DEF Replays
<1>2. q.attempt = p.attempt
  BY <1>1, MovedType DEF Entry
<1>3. QED
  BY <1>1, <1>2 DEF LEGAL_TRANSITIONS

\* A record of a shard that is known as it is replays if the transition is legal.
LEMMA LegalReplays ==
  ASSUME NEW q \in Entry, NEW state \in State,
         \/ q.state = "pending" /\ state = "running"
         \/ q.state = "running" /\ state \in {"passed", "failed", "aborted", "interrupted"}
         \/ q.state \in {"failed", "aborted", "interrupted"} /\ state = "pending"
  PROVE  Replays(q, Moved(q, state))
<1>1. <<q.state, state>> \in LEGAL_TRANSITIONS
  BY DEF LEGAL_TRANSITIONS
<1>2. QED
  BY <1>1, MovedType DEF Replays

\* What appending a sound content comes to.
LEMMA AppendCases ==
  ASSUME NEW j, Sane(j), NEW c \in Content, c.kind = "sound", NEW o \in appendLine(j, c)
  PROVE  /\ o.ok \in BOOLEAN
         /\ Sane(o.journal)
         /\ o.ok => /\ o.journal.memory = c
                    /\ o.journal.faults = j.faults
                    /\ j.file = j.memory => o.journal.file = o.journal.memory
         /\ ~ o.ok => /\ o.journal.memory = j.memory
                      /\ o.journal.faults = j.faults + 1
         /\ o.journal.file \in {j.file, c, Damaged}
<1>2. FileWith(j, c) \in {c, Damaged} /\ (j.file = j.memory => FileWith(j, c) = c)
  BY DEF FileWith
<1>3. CASE o = [ok |-> TRUE, journal |-> [j EXCEPT !.file = FileWith(j, c), !.memory = c]]
  <2>1. /\ o.ok = TRUE /\ o.journal.file = FileWith(j, c) /\ o.journal.memory = c
        /\ o.journal.faults = j.faults
        /\ o.journal \in [file : Content, memory : Content, faults : 0..MaxFaults]
    BY <1>2, <1>3, ContentTypes DEF Sane
  <2>2. QED
    BY <2>1, <1>2, ContentTypes DEF Sane
<1>4. ASSUME NEW f \in {j.file, FileWith(j, c), Damaged}, j.faults < MaxFaults,
             o = [ok |-> FALSE, journal |-> [j EXCEPT !.file = f, !.faults = j.faults + 1]]
      PROVE  /\ o.ok = FALSE
             /\ Sane(o.journal)
             /\ o.journal.memory = j.memory
             /\ o.journal.faults = j.faults + 1
             /\ o.journal.file \in {j.file, c, Damaged}
  <2>1. f \in {j.file, c, Damaged}
    BY <1>2
  <2>2. j.faults + 1 \in 0..MaxFaults
    BY <1>4, ShardAssumption DEF Sane
  <2>3. /\ o.ok = FALSE /\ o.journal.file = f /\ o.journal.memory = j.memory
        /\ o.journal.faults = j.faults + 1
        /\ o.journal \in [file : Content, memory : Content, faults : 0..MaxFaults]
    BY <1>4, <2>1, <2>2, ContentTypes DEF Sane
  <2>4. QED
    BY <2>1, <2>3, ContentTypes DEF Sane
<1>5. \/ o = [ok |-> TRUE, journal |-> [j EXCEPT !.file = FileWith(j, c), !.memory = c]]
      \/ j.faults < MaxFaults /\ \E f \in {j.file, FileWith(j, c), Damaged} :
           o = [ok |-> FALSE, journal |-> [j EXCEPT !.file = f, !.faults = j.faults + 1]]
  BY DEF appendLine
<1>6. CASE o.ok = TRUE
  BY <1>3, <1>4, <1>5, <1>6
<1>7. CASE o.ok # TRUE
  BY <1>3, <1>4, <1>5, <1>7
<1>8. QED
  BY <1>6, <1>7

\* A store that has the journal.
Ready(j) == Sane(j) /\ j.memory.kind # "unloaded"

\* What a record, or an attempt to append one, makes of the journal and of what the
\* call knows of the shard; it may say that a shard in won has passed.
Worked(j, k, p, q, s, won) ==
  /\ Ready(k) /\ q \in Entry
  /\ \A t \in Shard \ {s} : k.memory.shards[t] = j.memory.shards[t]
  /\ k.memory.shards[s].attempt >= j.memory.shards[s].attempt
  /\ j.memory.shards[s].state = "passed" => k.memory.shards[s] = j.memory.shards[s]
  /\ \/ q = p /\ k.memory.shards[s] = j.memory.shards[s]
     \/ q = k.memory.shards[s]
  /\ k.memory.shards[s].state = "passed" => j.memory.shards[s].state = "passed" \/ s \in won
  /\ \A t \in Shard : k.file.shards[t].state = "passed" =>
       j.file.shards[t].state = "passed" \/ j.memory.shards[t].state = "passed" \/ t \in won
  /\ k.faults >= j.faults
  /\ k.faults = 0 /\ j.file = j.memory => k.file = k.memory

LEMMA ContentFields ==
  ASSUME NEW j, Sane(j)
  PROVE  /\ j.file \in Content /\ j.memory \in Content /\ j.faults \in Nat
         /\ j.file.shards \in [Shard -> Entry] /\ j.memory.shards \in [Shard -> Entry]
         /\ \A s \in Shard : /\ j.file.shards[s] \in Entry /\ j.memory.shards[s] \in Entry
                             /\ j.memory.shards[s].attempt \in Nat
  BY ShardAssumption DEF Sane, Content, Entry

\* A transition, by its results.
LEMMA Transition ==
  ASSUME NEW j, Ready(j), NEW p \in Entry, NEW s \in Shard, NEW state \in State, NEW won,
         state = "passed" => s \in won,
         NEW o \in applyTransition(j, p, s, state)
  PROVE  /\ o.ok \in BOOLEAN
         /\ Worked(j, o.journal, p, o.entry, s, won)
         /\ o.ok => /\ Replays(j.memory.shards[s], Moved(p, state))
                    /\ o.entry = Moved(p, state)
                    /\ o.journal.memory.shards[s] = Moved(p, state)
         /\ ~ o.ok => /\ o.entry = p
                      /\ o.journal.memory = j.memory
                      /\ Replays(j.memory.shards[s], Moved(p, state)) => o.journal.faults > 0
<1> DEFINE old == j.memory.shards
           shards == [old EXCEPT ![s] = Moved(p, state)]
           c == [kind |-> "sound", shards |-> shards]
           legal == Replays(old[s], Moved(p, state))
<1>1. /\ Sane(j) /\ j.faults \in Nat /\ old \in [Shard -> Entry] /\ old[s] \in Entry
      /\ \A t \in Shard : old[t].attempt \in Nat
  BY ContentFields DEF Ready
<1>2. /\ shards \in [Shard -> Entry] /\ shards[s] = Moved(p, state)
      /\ \A t \in Shard \ {s} : shards[t] = old[t]
  BY <1>1, MovedType
<1>3. c \in Content /\ c.kind = "sound" /\ c.shards = shards
  BY <1>2 DEF Content
<1>4. PICK a \in IF legal THEN appendLine(j, c) ELSE {[ok |-> FALSE, journal |-> j]} :
        o = [ok |-> a.ok, journal |-> a.journal, entry |-> IF a.ok THEN Moved(p, state) ELSE p]
  BY DEF applyTransition
<1>5. /\ o.ok = a.ok /\ o.journal = a.journal
      /\ o.entry = IF a.ok THEN Moved(p, state) ELSE p
  BY <1>4
<1> HIDE DEF c, shards
<1>6. CASE legal
  <2>1. a \in appendLine(j, c)
    BY <1>4, <1>6
  <2>2. /\ a.ok \in BOOLEAN
        /\ Sane(a.journal)
        /\ a.ok => /\ a.journal.memory = c
                   /\ a.journal.faults = j.faults
                   /\ j.file = j.memory => a.journal.file = a.journal.memory
        /\ ~ a.ok => /\ a.journal.memory = j.memory
                     /\ a.journal.faults = j.faults + 1
        /\ a.journal.file \in {j.file, c, Damaged}
    BY <2>1, <1>1, <1>3, AppendCases
  <2>3. /\ old[s].state # "passed" /\ old[s].attempt = p.attempt
        /\ shards[s].state = state /\ shards[s].attempt >= old[s].attempt
    <3>1. old[s].state # "passed" /\ old[s].attempt = p.attempt
      BY <1>1, <1>6, ReplaysLegal
    <3>2. p.attempt \in Nat
      BY DEF Entry
    <3>3. QED
      BY <3>1, <3>2, <1>2, MovedType
  <2>4. \A t \in Shard : a.journal.file.shards[t].state = "passed" =>
          j.file.shards[t].state = "passed" \/ old[t].state = "passed" \/ t \in won
    <3> TAKE t \in Shard
    <3>1. CASE a.journal.file = j.file
      BY <3>1
    <3>2. CASE a.journal.file = c
      BY <3>2, <2>3, <1>2, <1>3
    <3>3. CASE a.journal.file = Damaged
      BY <3>3, ContentTypes, UntouchedType
    <3>4. QED
      BY <3>1, <3>2, <3>3, <2>2
  <2>5. CASE a.ok
    <3>1. /\ o.ok = TRUE /\ o.entry = Moved(p, state) /\ o.journal = a.journal
          /\ a.journal.memory = c /\ a.journal.memory.shards = shards
      BY <2>2, <2>5, <1>3, <1>5
    <3>2. Ready(a.journal)
      BY <2>2, <3>1, <1>3 DEF Ready
    <3>3. Worked(j, a.journal, p, Moved(p, state), s, won)
      BY <2>2, <2>3, <2>4, <2>5, <3>1, <3>2, <1>1, <1>2, MovedType DEF Worked
    <3>4. QED
      BY <3>1, <3>3, <1>2, <1>6
  <2>6. CASE ~ a.ok
    <3>1. /\ o.ok = FALSE /\ o.entry = p /\ o.journal = a.journal
          /\ a.journal.memory = j.memory /\ a.journal.faults = j.faults + 1
      BY <2>2, <2>6, <1>5
    <3>2. Ready(a.journal)
      BY <2>2, <3>1 DEF Ready
    <3>3. Worked(j, a.journal, p, p, s, won)
      BY <2>4, <3>1, <3>2, <1>1 DEF Worked
    <3>4. o.journal.faults > 0 /\ o.journal.memory = j.memory
      BY <3>1, <1>1
    <3>5. Worked(j, o.journal, p, o.entry, s, won)
      BY <3>1, <3>3
    <3>6. QED
      BY <3>1, <3>4, <3>5
  <2>7. QED
    BY <2>2, <2>5, <2>6
<1>7. CASE ~ legal
  <2>1. o.ok = FALSE /\ o.journal = j /\ o.entry = p
    BY <1>4, <1>7
  <2>2. Worked(j, j, p, p, s, won)
    BY <1>1 DEF Worked
  <2>3. QED
    BY <2>1, <2>2, <1>7
<1>8. QED
  BY <1>6, <1>7

\* Two records after one another.
LEMMA WorkedTwice ==
  ASSUME NEW i, NEW j, NEW k, NEW p \in Entry, NEW q, NEW r, NEW s \in Shard, NEW won,
         Ready(i), Worked(i, j, p, q, s, won), Worked(j, k, q, r, s, won)
  PROVE  Worked(i, k, p, r, s, won)
<1>1. /\ i.faults \in Nat /\ j.faults \in Nat /\ k.faults \in Nat
      /\ \A t \in Shard : /\ i.memory.shards[t].attempt \in Nat
                          /\ j.memory.shards[t].attempt \in Nat
                          /\ k.memory.shards[t].attempt \in Nat
  BY ContentFields DEF Ready, Worked
<1>2. k.faults = 0 => j.faults = 0
  BY <1>1 DEF Worked
<1>3. \A t \in Shard : k.file.shards[t].state = "passed" =>
        i.file.shards[t].state = "passed" \/ i.memory.shards[t].state = "passed" \/ t \in won
  <2> TAKE t \in Shard
  <2>1. j.memory.shards[t].state = "passed" => i.memory.shards[t].state = "passed" \/ t \in won
    BY DEF Worked
  <2>2. QED
    BY <2>1 DEF Worked
<1>4. QED
  BY <1>1, <1>2, <1>3 DEF Worked

-------------------------------------------------------------------------------
(* What the steps of the tasks have in common. *)

\* The step of the task of shard s in call c, by what it does to everybody else.
TaskStep(c, s) ==
  /\ pc # "rearm" /\ task[c][s] \in Live
  /\ Worked(journal, journal', projections[c][s], projections'[c][s], s, earned')
  /\ projections' = [projections EXCEPT ![c][s] = projections'[c][s]]
  /\ earned \subseteq earned' /\ earned' \subseteq Shard
  /\ TaskFrame
  /\ starter' \in [Shard -> 0..MaxCalls] /\ \A t \in Shard \ {s} : starter'[t] = starter[t]
  /\ \/ starter'[s] = starter[s]
     \/ journal'.memory.shards[s].attempt > journal.memory.shards[s].attempt
  /\ leaked' \in 0..Permits /\ (journal'.faults = 0 => leaked' = leaked)
  /\ \/ /\ task[c][s] = "acquire" /\ task' = [task EXCEPT ![c][s] = "running"]
        /\ UNCHANGED <<pc, verdict>>
        /\ projections'[c][s] = journal'.memory.shards[s]
        /\ projections'[c][s].state = "running" /\ starter'[s] = c
     \/ \E ok \in BOOLEAN : End(c, s, ok) /\ (journal'.faults = 0 => ok)
  /\ /\ journal.memory.shards[s].state = "running"
     /\ journal'.memory.shards[s].state \in {"passed", "failed", "aborted"}
     => task[c][s] = "running" /\ starter[s] = c /\ task'[c][s] = "ended"

\* A live task has a store to work with, and its call has projections.
LEMMA LiveFacts ==
  ASSUME IInv, NEW c \in Call, NEW s \in Shard, task[c][s] \in Live
  PROVE  /\ Ready(journal)
         /\ projections[c][s] \in Entry
         /\ journal.memory.shards[s] \in Entry
         /\ journal.faults \in Nat
         /\ journal.faults = 0 =>
              /\ c = call /\ pc # "idle"
              /\ projections[c][s] = journal.memory.shards[s]
              /\ task[c][s] = "acquire" => projections[c][s].state = "pending"
              /\ task[c][s] = "running" => projections[c][s].state = "running"
<1>1. Sane(journal)
  BY DEF IInv, TypeOK, PlacesOK, Sane
<1>2. journal.memory.kind # "unloaded"
  BY DEF IInv, PlacesOK, Live
<1>3. projections[c][s] \in Entry
  BY DEF IInv, TypeOK
<1>4. QED
  BY <1>1, <1>2, <1>3, ContentFields DEF Ready, IInv, AgreeOK

\* The shard of a running task whose projection is up to date is its own.
LEMMA OwnAttempt ==
  ASSUME IInv, NEW c \in Call, NEW s \in Shard, task[c][s] = "running",
         NEW state \in State, Replays(journal.memory.shards[s], Moved(projections[c][s], state))
  PROVE  starter[s] = c
<1>1. projections[c][s] \in Entry /\ journal.memory.shards[s] \in Entry
  BY LiveFacts DEF Live
<1>2. journal.memory.shards[s].attempt = projections[c][s].attempt
  BY <1>1, ReplaysLegal
<1>3. QED
  BY <1>2 DEF IInv, AttemptOK

\* There is room for a permit that is lost.
LEMMA RoomToLeak ==
  ASSUME TypeOK, Free > 0
  PROVE  leaked + 1 \in 0..Permits
<1> DEFINE out == {x \in Call \X Shard : task[x[1]][x[2]] = "running"}
<1>1. IsFiniteSet(Call) /\ IsFiniteSet(Shard)
  BY ShardAssumption, FS_Interval DEF Call, Shard
<1>2. IsFiniteSet(Call \X Shard)
  BY <1>1, FS_Product
<1>3. IsFiniteSet(out)
  BY <1>2, FS_Subset
<1>4. Cardinality(out) \in Nat
  BY <1>3, FS_CardinalityType
<1>5. Permits - leaked - Cardinality(out) > 0
  BY DEF Free
<1> HIDE DEF out
<1>6. QED
  BY <1>4, <1>5, ShardAssumption DEF TypeOK

\* A task that ends has ended.
LEMMA EndedTask ==
  ASSUME TypeOK, NEW c \in Call, NEW s \in Shard, NEW ok, End(c, s, ok)
  PROVE  task'[c][s] = "ended"
  BY DEF TypeOK, End

\* The permit is granted.
LEMMA GrantedIsStep ==
  ASSUME IInv, NEW c \in Call, NEW s \in Shard, PermitGranted(c, s)
  PROVE  TaskStep(c, s)
<1> USE DEF Live, State
<1>1. PICK o \in applyTransition(journal, projections[c][s], s, "running") :
        /\ journal' = o.journal
        /\ projections' = [projections EXCEPT ![c][s] = o.entry]
        /\ IF o.ok THEN /\ task' = [task EXCEPT ![c][s] = "running"]
                        /\ starter' = [starter EXCEPT ![s] = c]
                        /\ UNCHANGED <<pc, verdict, leaked>>
                   ELSE /\ leaked' = leaked + 1
                        /\ End(c, s, FALSE)
                        /\ UNCHANGED starter
  BY DEF PermitGranted
<1>2. /\ pc # "rearm" /\ task[c][s] = "acquire" /\ Free > 0 /\ TaskFrame /\ earned' = earned
      /\ earned \subseteq Shard /\ starter \in [Shard -> 0..MaxCalls] /\ leaked \in 0..Permits
      /\ c \in 0..MaxCalls /\ leaked + 1 \in 0..Permits
  BY RoomToLeak, ShardAssumption DEF PermitGranted, IInv, TypeOK, Call
<1>3. /\ Ready(journal) /\ projections[c][s] \in Entry /\ journal.memory.shards[s] \in Entry
      /\ journal.faults = 0 => Replays(journal.memory.shards[s], Moved(projections[c][s], "running"))
  BY <1>2, LiveFacts, LegalReplays
<1>4. projections'[c][s] = o.entry
  BY <1>1 DEF IInv, TypeOK
<1>5. /\ o.ok \in BOOLEAN
      /\ Worked(journal, journal', projections[c][s], projections'[c][s], s, earned')
      /\ o.ok => /\ Replays(journal.memory.shards[s], Moved(projections[c][s], "running"))
                 /\ o.entry = Moved(projections[c][s], "running")
                 /\ journal'.memory.shards[s] = Moved(projections[c][s], "running")
      /\ ~ o.ok => /\ o.entry = projections[c][s]
                   /\ journal'.memory = journal.memory
                   /\ Replays(journal.memory.shards[s], Moved(projections[c][s], "running"))
                        => journal'.faults > 0
  <2>1. /\ o.ok \in BOOLEAN
        /\ Worked(journal, o.journal, projections[c][s], o.entry, s, earned')
        /\ o.ok => /\ Replays(journal.memory.shards[s], Moved(projections[c][s], "running"))
                   /\ o.entry = Moved(projections[c][s], "running")
                   /\ o.journal.memory.shards[s] = Moved(projections[c][s], "running")
        /\ ~ o.ok => /\ o.entry = projections[c][s]
                     /\ o.journal.memory = journal.memory
                     /\ Replays(journal.memory.shards[s], Moved(projections[c][s], "running"))
                          => o.journal.faults > 0
    BY <1>3, Transition, ZenonT(60)
  <2>2. QED
    BY <2>1, <1>1, <1>4
<1>6. ~ o.ok => journal'.faults # 0
  <2>1. journal.faults \in Nat /\ journal'.faults \in Nat /\ journal'.faults >= journal.faults
    BY <1>3, <1>5, ContentFields DEF Worked, Ready
  <2>2. QED
    BY <2>1, <1>3, <1>5
<1>7. ~ (/\ journal.memory.shards[s].state = "running"
         /\ journal'.memory.shards[s].state \in {"passed", "failed", "aborted"})
  BY <1>3, <1>5, MovedType
<1>8. CASE o.ok
  <2>1. Moved(projections[c][s], "running").state = "running"
    BY <1>3, MovedType
  <2>2. journal'.memory.shards[s].attempt > journal.memory.shards[s].attempt
    <3>1. /\ Moved(projections[c][s], "running").attempt = projections[c][s].attempt + 1
          /\ journal.memory.shards[s].attempt = projections[c][s].attempt
      BY <1>3, <1>5, <1>8, MovedType, ReplaysLegal
    <3>2. QED
      BY <3>1, <1>3, <1>5, <1>8 DEF Entry
  <2>3. starter' \in [Shard -> 0..MaxCalls] /\ starter'[s] = c /\ \A t \in Shard \ {s} : starter'[t] = starter[t]
    BY <1>1, <1>2, <1>8
  <2>4. QED
    BY <1>1, <1>2, <1>4, <1>5, <1>7, <1>8, <2>1, <2>2, <2>3 DEF TaskStep
<1>9. CASE ~ o.ok
  BY <1>1, <1>2, <1>4, <1>5, <1>6, <1>7, <1>9 DEF TaskStep
<1>10. QED
  BY <1>5, <1>8, <1>9

\* There is no permit to be had.
LEMMA UnavailableIsStep ==
  ASSUME IInv, NEW c \in Call, NEW s \in Shard, PermitUnavailable(c, s)
  PROVE  TaskStep(c, s)
<1> USE DEF Live, State
<1>1. PICK r \in applyTransition(journal, projections[c][s], s, "running") :
      \E o \in IF r.ok THEN applyTransition(r.journal, r.entry, s, "failed") ELSE {r} :
        /\ journal' = o.journal
        /\ projections' = [projections EXCEPT ![c][s] = o.entry]
        /\ starter' = IF r.ok THEN [starter EXCEPT ![s] = c] ELSE starter
        /\ End(c, s, o.ok)
  BY DEF PermitUnavailable
<1>2. PICK o \in IF r.ok THEN applyTransition(r.journal, r.entry, s, "failed") ELSE {r} :
        /\ journal' = o.journal
        /\ projections' = [projections EXCEPT ![c][s] = o.entry]
        /\ starter' = IF r.ok THEN [starter EXCEPT ![s] = c] ELSE starter
        /\ End(c, s, o.ok)
  BY <1>1
<1>3. /\ pc # "rearm" /\ task[c][s] = "acquire" /\ TaskFrame /\ earned' = earned /\ leaked' = leaked
      /\ earned \subseteq Shard /\ starter \in [Shard -> 0..MaxCalls] /\ leaked \in 0..Permits
      /\ c \in 0..MaxCalls
  BY ShardAssumption DEF PermitUnavailable, IInv, TypeOK, Call
<1>4. /\ Ready(journal) /\ projections[c][s] \in Entry /\ journal.memory.shards[s] \in Entry
      /\ journal.faults \in Nat
      /\ journal.faults = 0 => Replays(journal.memory.shards[s], Moved(projections[c][s], "running"))
  BY <1>3, LiveFacts, LegalReplays
<1>5. projections'[c][s] = o.entry
  BY <1>2 DEF IInv, TypeOK
<1> DEFINE q == Moved(projections[c][s], "running")
<1>6. /\ r.ok \in BOOLEAN
      /\ Worked(journal, r.journal, projections[c][s], r.entry, s, earned')
      /\ r.ok => /\ Replays(journal.memory.shards[s], q)
                 /\ r.entry = q
                 /\ r.journal.memory.shards[s] = q
      /\ ~ r.ok => /\ r.entry = projections[c][s]
                   /\ r.journal.memory = journal.memory
                   /\ Replays(journal.memory.shards[s], q) => r.journal.faults > 0
  BY <1>4, Transition, ZenonT(60)
<1>7. CASE ~ r.ok
  <2>1. o = r
    BY <1>2, <1>7
  <2>2. journal'.faults # 0 /\ journal'.memory = journal.memory
    <3>1. journal'.faults \in Nat /\ journal'.faults >= journal.faults
      BY <1>2, <1>6, <2>1, ContentFields DEF Worked, Ready
    <3>2. QED
      BY <3>1, <2>1, <1>2, <1>4, <1>6, <1>7
  <2>3. Worked(journal, journal', projections[c][s], projections'[c][s], s, earned')
    BY <2>1, <1>2, <1>5, <1>6
  <2>4. QED
    BY <1>2, <1>3, <1>5, <1>6, <1>7, <2>1, <2>2, <2>3 DEF TaskStep
<1>8. CASE r.ok
  <2>1. Ready(r.journal) /\ q \in Entry /\ q.state = "running" /\ q.attempt = projections[c][s].attempt + 1
    BY <1>4, <1>6, MovedType DEF Worked
  <2>2. /\ journal.memory.shards[s].state = "pending"
        /\ journal.memory.shards[s].attempt = projections[c][s].attempt
    BY <1>4, <1>6, <1>8, ReplaysLegal
  <2>3. o \in applyTransition(r.journal, q, s, "failed")
    BY <1>2, <1>6, <1>8
  <2>4. Replays(r.journal.memory.shards[s], Moved(q, "failed"))
    BY <1>6, <1>8, <2>1, LegalReplays
  <2>5. /\ o.ok \in BOOLEAN
        /\ Worked(r.journal, o.journal, q, o.entry, s, earned')
        /\ ~ o.ok => o.journal.faults > 0
    BY <2>1, <2>3, <2>4, Transition, ZenonT(60)
  <2>6. Worked(journal, journal', projections[c][s], projections'[c][s], s, earned')
    BY <1>2, <1>4, <1>5, <1>6, <1>8, <2>5, WorkedTwice
  <2>7. journal'.memory.shards[s].attempt > journal.memory.shards[s].attempt
    <3>1. o.journal.memory.shards[s].attempt >= q.attempt
      BY <1>6, <1>8, <2>5 DEF Worked
    <3>2. o.journal.memory.shards[s].attempt \in Nat
      BY <2>5, ContentFields DEF Worked, Ready
    <3>3. QED
      BY <3>1, <3>2, <2>1, <2>2, <1>2, <1>4 DEF Entry
  <2>8. journal'.faults = 0 => o.ok
    BY <1>2, <2>5
  <2>9. starter' \in [Shard -> 0..MaxCalls] /\ \A t \in Shard \ {s} : starter'[t] = starter[t]
    BY <1>2, <1>3, <1>8
  <2>10. QED
    BY <1>2, <1>3, <1>5, <2>2, <2>5, <2>6, <2>7, <2>8, <2>9 DEF TaskStep
<1>9. QED
  BY <1>6, <1>7, <1>8

\* The wait for a permit is aborted.
LEMMA AbortedIsStep ==
  ASSUME IInv, NEW c \in Call, NEW s \in Shard, PermitAborted(c, s)
  PROVE  TaskStep(c, s)
<1> USE DEF Live
<1>1. /\ pc # "rearm" /\ task[c][s] = "acquire" /\ TaskFrame /\ End(c, s, TRUE)
      /\ journal' = journal /\ projections' = projections /\ starter' = starter
      /\ leaked' = leaked /\ earned' = earned
  BY DEF PermitAborted
<1>2. /\ Ready(journal) /\ projections[c][s] \in Entry /\ journal.memory.shards[s] \in Entry
  BY <1>1, LiveFacts
<1>3. Worked(journal, journal', projections[c][s], projections'[c][s], s, earned')
  BY <1>1, <1>2, ContentFields DEF Worked, Ready
<1>4. /\ projections' = [projections EXCEPT ![c][s] = projections'[c][s]]
      /\ earned \subseteq Shard /\ starter \in [Shard -> 0..MaxCalls] /\ leaked \in 0..Permits
  BY <1>1 DEF IInv, TypeOK
<1>5. QED
  BY <1>1, <1>3, <1>4 DEF TaskStep

LEMMA TerminalStates ==
  ASSUME NEW c, NEW exit \in {0, 1}
  PROVE  /\ terminalStateFor(c, exit) \in State
         /\ terminalStateFor(c, exit) \in {"passed", "failed", "aborted"}
         /\ terminalStateFor(c, exit) = "passed" => exit = 0
  BY DEF terminalStateFor, State

\* What the records of an outcome come to: at least one of them is appended as long
\* as no append has failed.
LEMMA OutcomeIsStep ==
  ASSUME IInv, NEW c \in Call, NEW s \in Shard, task[c][s] = "running", pc # "rearm",
         NEW o, NEW ok \in BOOLEAN,
         Worked(journal, o.journal, projections[c][s], o.entry, s, earned'),
         o.journal.memory.shards[s] # journal.memory.shards[s] => starter[s] = c,
         o.journal.faults = 0 => ok,
         journal' = o.journal, projections' = [projections EXCEPT ![c][s] = o.entry],
         End(c, s, ok), earned \subseteq earned', earned' \subseteq Shard,
         TaskFrame, UNCHANGED <<leaked, starter>>
  PROVE  TaskStep(c, s)
<1>1. projections'[c][s] = o.entry
  BY DEF IInv, TypeOK
<1>2. starter \in [Shard -> 0..MaxCalls] /\ leaked \in 0..Permits
  BY DEF IInv, TypeOK
<1>3. task'[c][s] = "ended"
  BY EndedTask DEF IInv
<1>4. QED
  BY <1>1, <1>2, <1>3 DEF TaskStep, Live

\* The one record of a runner that throws.
LEMMA ThrowsIsStep ==
  ASSUME IInv, NEW c \in Call, NEW s \in Shard, RunnerThrows(c, s)
  PROVE  TaskStep(c, s)
<1> DEFINE state == terminalStateFor(c, 1)
<1>1. PICK o \in applyTransition(journal, projections[c][s], s, state) :
        /\ journal' = o.journal
        /\ projections' = [projections EXCEPT ![c][s] = o.entry]
        /\ End(c, s, o.ok)
  BY DEF RunnerThrows
<1>2. /\ pc # "rearm" /\ task[c][s] = "running" /\ TaskFrame /\ earned' = earned
      /\ UNCHANGED <<leaked, starter>> /\ earned \subseteq Shard
  BY DEF RunnerThrows, IInv, TypeOK
<1>3. /\ state \in State /\ state \in {"failed", "aborted"}
      /\ state = "passed" => s \in earned'
  BY TerminalStates
<1> HIDE DEF state
<1>4. /\ Ready(journal) /\ projections[c][s] \in Entry /\ journal.memory.shards[s] \in Entry
      /\ journal.faults \in Nat
      /\ journal.faults = 0 => Replays(journal.memory.shards[s], Moved(projections[c][s], state))
  BY <1>2, <1>3, LiveFacts, LegalReplays DEF Live
<1>5. /\ o.ok \in BOOLEAN
      /\ Worked(journal, o.journal, projections[c][s], o.entry, s, earned')
      /\ o.ok => Replays(journal.memory.shards[s], Moved(projections[c][s], state))
      /\ ~ o.ok => /\ o.entry = projections[c][s]
                   /\ o.journal.memory = journal.memory
                   /\ Replays(journal.memory.shards[s], Moved(projections[c][s], state))
                        => o.journal.faults > 0
  BY <1>3, <1>4, Transition
<1>6. o.journal.memory.shards[s] # journal.memory.shards[s] => starter[s] = c
  BY <1>2, <1>3, <1>5, OwnAttempt
<1>7. o.journal.faults = 0 => o.ok
  <2>1. o.journal.faults \in Nat /\ o.journal.faults >= journal.faults
    BY <1>5, ContentFields DEF Worked, Ready
  <2>2. QED
    BY <2>1, <1>4, <1>5
<1>8. QED
  BY <1>1, <1>2, <1>5, <1>6, <1>7, OutcomeIsStep

\* The record of an exit code, and the failure that replaces it if it is not appended.
LEMMA ReturnsIsStep ==
  ASSUME IInv, NEW c \in Call, NEW s \in Shard, NEW exit \in {0, 1}, RunnerReturns(c, s, exit)
  PROVE  TaskStep(c, s)
<1> DEFINE state == terminalStateFor(c, exit)
           failure == terminalStateFor(c, 1)
<1>1. PICK r \in applyTransition(journal, projections[c][s], s, state) :
      \E o \in IF r.ok THEN {r} ELSE applyTransition(r.journal, r.entry, s, failure) :
        /\ journal' = o.journal
        /\ projections' = [projections EXCEPT ![c][s] = o.entry]
        /\ End(c, s, o.ok)
  BY DEF RunnerReturns
<1>2. PICK o \in IF r.ok THEN {r} ELSE applyTransition(r.journal, r.entry, s, failure) :
        /\ journal' = o.journal
        /\ projections' = [projections EXCEPT ![c][s] = o.entry]
        /\ End(c, s, o.ok)
  BY <1>1
<1>3. /\ pc # "rearm" /\ task[c][s] = "running" /\ TaskFrame
      /\ UNCHANGED <<leaked, starter>>
      /\ earned \subseteq earned' /\ earned' \subseteq Shard
      /\ exit = 0 => s \in earned'
  BY DEF RunnerReturns, IInv, TypeOK
<1>4. /\ state \in State /\ state \in {"passed", "failed", "aborted"}
      /\ state = "passed" => s \in earned'
      /\ failure \in State /\ failure \in {"failed", "aborted"}
  BY <1>3, TerminalStates
<1> HIDE DEF state, failure
<1>5. /\ Ready(journal) /\ projections[c][s] \in Entry /\ journal.memory.shards[s] \in Entry
      /\ journal.faults \in Nat
      /\ journal.faults = 0 => Replays(journal.memory.shards[s], Moved(projections[c][s], state))
  BY <1>3, <1>4, LiveFacts, LegalReplays DEF Live
<1>6. /\ r.ok \in BOOLEAN
      /\ Worked(journal, r.journal, projections[c][s], r.entry, s, earned')
      /\ r.ok => Replays(journal.memory.shards[s], Moved(projections[c][s], state))
      /\ ~ r.ok => /\ r.entry = projections[c][s]
                   /\ r.journal.memory = journal.memory
                   /\ Replays(journal.memory.shards[s], Moved(projections[c][s], state))
                        => r.journal.faults > 0
  BY <1>4, <1>5, Transition
<1>7. r.journal.faults \in Nat /\ r.journal.faults >= journal.faults
  BY <1>6, ContentFields DEF Worked, Ready
<1>8. CASE r.ok
  <2>1. o = r
    BY <1>2, <1>8
  <2>2. o.journal.memory.shards[s] # journal.memory.shards[s] => starter[s] = c
    BY <1>3, <1>4, <1>6, <1>8, OwnAttempt
  <2>3. QED
    BY <1>2, <1>3, <1>6, <1>8, <2>1, <2>2, OutcomeIsStep
<1>9. CASE ~ r.ok
  <2>1. Ready(r.journal) /\ r.journal.faults # 0
    BY <1>5, <1>6, <1>7, <1>9 DEF Worked
  <2>2. o \in applyTransition(r.journal, projections[c][s], s, failure)
    BY <1>2, <1>6, <1>9
  <2>3. /\ o.ok \in BOOLEAN
        /\ Worked(r.journal, o.journal, projections[c][s], o.entry, s, earned')
        /\ o.ok => Replays(journal.memory.shards[s], Moved(projections[c][s], failure))
        /\ ~ o.ok => o.journal.memory = journal.memory
    BY <1>4, <1>5, <1>6, <1>9, <2>1, <2>2, Transition, SMTT(30)
  <2>4. Worked(journal, o.journal, projections[c][s], o.entry, s, earned')
    BY <1>5, <1>6, <1>9, <2>3, WorkedTwice
  <2>5. o.journal.memory.shards[s] # journal.memory.shards[s] => starter[s] = c
    BY <1>3, <1>4, <2>3, OwnAttempt
  <2>6. o.journal.faults # 0
    <3>1. o.journal.faults \in Nat /\ o.journal.faults >= r.journal.faults
      BY <2>3, ContentFields DEF Worked, Ready
    <3>2. QED
      BY <3>1, <2>1, <1>7
  <2>7. QED
    BY <1>2, <1>3, <2>3, <2>4, <2>5, <2>6, OutcomeIsStep
<1>10. QED
  BY <1>6, <1>8, <1>9

LEMMA TaskIsStep ==
  ASSUME IInv, NEW c \in Call, NEW s \in Shard, Task(c, s)
  PROVE  TaskStep(c, s)
  BY GrantedIsStep, UnavailableIsStep, AbortedIsStep, ThrowsIsStep, ReturnsIsStep DEF Task

-------------------------------------------------------------------------------
(* The invariant under the steps of the tasks. *)

\* What the tasks leave to everybody else.
LEMMA TaskEffects ==
  ASSUME IInv, NEW c \in Call, NEW s \in Shard, TaskStep(c, s)
  PROVE  /\ Ready(journal) /\ Ready(journal')
         /\ journal.faults \in Nat /\ journal'.faults \in Nat
         /\ journal'.faults = 0 => journal.faults = 0
         /\ projections'[c][s] \in Entry
         /\ \A t \in Shard : journal'.memory.shards[t] \in Entry /\ journal.memory.shards[t] \in Entry
         /\ \A d \in Call, t \in Shard : <<d, t>> # <<c, s>> =>
              projections'[d][t] = projections[d][t] /\ task'[d][t] = task[d][t]
         /\ task' \in [Call -> [Shard -> Live \cup {"none", "ended"}]]
         /\ task'[c][s] \in {"running", "ended"}
         /\ verdict' \in {verdict, "rejected"}
         /\ pc' = pc \/ (c = call /\ pc = "wait" /\ pc' = "loop")
              \/ (c = call /\ pc = "join" /\ pc' = "idle" /\ journal'.faults # 0)
         /\ journal'.faults = 0 => verdict' = verdict
<1>1. /\ Ready(journal) /\ Ready(journal') /\ projections'[c][s] \in Entry
      /\ journal'.faults >= journal.faults
  BY LiveFacts DEF TaskStep, Worked
<1>2. /\ journal.faults \in Nat /\ journal'.faults \in Nat
      /\ \A t \in Shard : journal'.memory.shards[t] \in Entry /\ journal.memory.shards[t] \in Entry
  BY <1>1, ContentFields DEF Ready
<1>3. journal'.faults = 0 => journal.faults = 0
  BY <1>1, <1>2
<1>4. \A d \in Call, t \in Shard : <<d, t>> # <<c, s>> => projections'[d][t] = projections[d][t]
  BY DEF TaskStep, IInv, TypeOK
<1>5. \/ task' = [task EXCEPT ![c][s] = "running"] /\ UNCHANGED <<pc, verdict>>
      \/ /\ task' = [task EXCEPT ![c][s] = "ended"]
         /\ \/ UNCHANGED <<pc, verdict>>
            \/ c = call /\ pc = "wait" /\ pc' = "loop" /\ UNCHANGED verdict
            \/ c = call /\ pc = "join" /\ pc' = "idle" /\ verdict' = "rejected" /\ journal'.faults # 0
  <2>1. CASE UNCHANGED <<pc, verdict>> /\ task' = [task EXCEPT ![c][s] = "running"]
    BY <2>1
  <2>2. ASSUME NEW ok \in BOOLEAN, End(c, s, ok), journal'.faults = 0 => ok
        PROVE  /\ task' = [task EXCEPT ![c][s] = "ended"]
               /\ \/ UNCHANGED <<pc, verdict>>
                  \/ c = call /\ pc = "wait" /\ pc' = "loop" /\ UNCHANGED verdict
                  \/ c = call /\ pc = "join" /\ pc' = "idle" /\ verdict' = "rejected" /\ journal'.faults # 0
    <3>1. task' = [task EXCEPT ![c][s] = "ended"]
      BY <2>2 DEF End
    <3>2. CASE c # call
      BY <2>2, <3>1, <3>2 DEF End
    <3>3. CASE c = call /\ pc = "wait"
      BY <2>2, <3>1, <3>3 DEF End
    <3>4. CASE c = call /\ pc = "join" /\ ~ ok
      BY <2>2, <3>1, <3>4 DEF End, Return
    <3>5. CASE c = call /\ pc # "wait" /\ ~ (pc = "join" /\ ~ ok)
      BY <2>2, <3>1, <3>5 DEF End
    <3>6. QED
      BY <3>2, <3>3, <3>4, <3>5
  <2>3. QED
    BY <2>1, <2>2 DEF TaskStep
<1>6. /\ task' \in [Call -> [Shard -> Live \cup {"none", "ended"}]]
      /\ task'[c][s] \in {"running", "ended"}
      /\ \A d \in Call, t \in Shard : <<d, t>> # <<c, s>> => task'[d][t] = task[d][t]
  <2>1. PICK a \in {"running", "ended"} : task' = [task EXCEPT ![c][s] = a]
    BY <1>5
  <2>2. task \in [Call -> [Shard -> Live \cup {"none", "ended"}]]
    BY DEF IInv, TypeOK
  <2>3. QED
    BY <2>1, <2>2 DEF Live
<1>7. QED
  BY <1>1, <1>2, <1>3, <1>4, <1>5, <1>6

LEMMA TaskKeepsType ==
  ASSUME IInv, NEW c \in Call, NEW s \in Shard, TaskStep(c, s)
  PROVE  TypeOK'
<1>1. /\ Ready(journal') /\ task' \in [Call -> [Shard -> Live \cup {"none", "ended"}]]
      /\ projections'[c][s] \in Entry
      /\ verdict' \in {verdict, "rejected"} /\ pc' \in {pc, "loop", "idle"}
  BY TaskEffects
<1>2. projections' \in [Call -> [Shard -> Entry]]
  <2> DEFINE q == projections'[c][s]
  <2>1. q \in Entry /\ projections' = [projections EXCEPT ![c][s] = q]
    BY <1>1 DEF TaskStep
  <2> HIDE DEF q
  <2>2. QED
    BY <2>1 DEF IInv, TypeOK
<1>3. QED
  BY <1>1, <1>2 DEF TaskStep, TaskFrame, Ready, Sane, IInv, TypeOK

LEMMA TaskKeepsPlaces ==
  ASSUME IInv, NEW c \in Call, NEW s \in Shard, TaskStep(c, s), TypeOK'
  PROVE  PlacesOK'
<1>1. /\ Ready(journal) /\ Ready(journal') /\ (pc' # "idle" => pc # "idle") /\ pc' # "rearm" /\ call' = call
      /\ \A d \in Call, t \in Shard : <<d, t>> # <<c, s>> => task'[d][t] = task[d][t]
  BY TaskEffects DEF TaskStep, TaskFrame
<1>2. ~ (c > call)
  BY DEF IInv, PlacesOK, TaskStep, Live
<1>3. ASSUME NEW d \in Call, d > call
      PROVE  task'[d] = [t \in Shard |-> "none"]
  <2>1. \A t \in Shard : task'[d][t] = task[d][t]
    BY <1>1, <1>2, <1>3
  <2>2. task[d] = [t \in Shard |-> "none"]
    BY <1>3 DEF IInv, PlacesOK
  <2>3. task'[d] \in [Shard -> Live \cup {"none", "ended"}]
    BY DEF TypeOK
  <2>4. QED
    BY <2>1, <2>2, <2>3
<1>4. QED
  BY <1>1, <1>3 DEF IInv, PlacesOK, Ready, Sane

LEMMA TaskKeepsEarned ==
  ASSUME IInv, NEW c \in Call, NEW s \in Shard, TaskStep(c, s)
  PROVE  EarnedOK'
<1>1. /\ \A d \in Call, t \in Shard : <<d, t>> # <<c, s>> => projections'[d][t] = projections[d][t]
      /\ earned \subseteq earned'
      /\ Worked(journal, journal', projections[c][s], projections'[c][s], s, earned')
  BY TaskEffects DEF TaskStep
<1>2. \A t \in Shard : journal'.memory.shards[t].state = "passed" => t \in earned'
  BY <1>1 DEF IInv, EarnedOK, Worked
<1>3. \A t \in Shard : journal'.file.shards[t].state = "passed" => t \in earned'
  BY <1>1 DEF IInv, EarnedOK, Worked
<1>4. \A t \in Shard : journal.memory.shards[t].state = "passed" =>
        journal'.memory.shards[t].state = "passed"
  BY <1>1 DEF Worked
<1>5. ASSUME NEW d \in Call, NEW t \in Shard, projections'[d][t].state = "passed"
      PROVE  t \in earned' /\ journal'.memory.shards[t].state = "passed"
  <2>1. CASE projections'[d][t] = projections[d][t]
    BY <1>1, <1>4, <1>5, <2>1 DEF IInv, EarnedOK
  <2>2. CASE projections'[d][t] # projections[d][t]
    <3>1. d = c /\ t = s /\ projections'[c][s] = journal'.memory.shards[s]
      BY <1>1, <2>2 DEF Worked
    <3>2. QED
      BY <3>1, <1>2, <1>5
  <2>3. QED
    BY <2>1, <2>2
<1>6. QED
  BY <1>2, <1>3, <1>5 DEF EarnedOK

LEMMA TaskKeepsDue ==
  ASSUME IInv, NEW c \in Call, NEW s \in Shard, TaskStep(c, s)
  PROVE  DueOK'
<1>1. ASSUME NEW d \in Call, NEW t \in Shard, task'[d][t] = "acquire"
      PROVE  task[d][t] = "acquire"
  BY <1>1, TaskEffects
<1>2. \A t \in Shard : journal.memory.shards[t].state = "passed" =>
        journal'.memory.shards[t].state = "passed"
  BY DEF TaskStep, Worked
<1>3. \A t \in Shard : dependencyIds[t] \subseteq Shard
  BY ShardAssumption
<1>4. QED
  BY <1>1, <1>2, <1>3 DEF IInv, DueOK

LEMMA TaskKeepsAttempt ==
  ASSUME IInv, NEW c \in Call, NEW s \in Shard, TaskStep(c, s)
  PROVE  AttemptOK'
<1> SUFFICES ASSUME NEW d \in Call, NEW t \in Shard, task'[d][t] = "running"
             PROVE  /\ projections'[d][t].attempt <= journal'.memory.shards[t].attempt
                    /\ projections'[d][t].attempt = journal'.memory.shards[t].attempt => starter'[t] = d
  BY DEF AttemptOK
<1>1. /\ projections'[d][t].attempt \in Nat /\ projections[d][t].attempt \in Nat
      /\ journal.memory.shards[t].attempt \in Nat /\ journal'.memory.shards[t].attempt \in Nat
  BY TaskEffects, TaskKeepsType DEF IInv, TypeOK, Entry
<1>2. CASE <<d, t>> = <<c, s>>
  <2>1. projections'[c][s] = journal'.memory.shards[s] /\ starter'[s] = c
    <3>1. \A ok : ~ End(c, s, ok)
      BY <1>2, EndedTask DEF IInv
    <3>2. QED
      BY <3>1 DEF TaskStep
  <2>2. QED
    BY <1>1, <1>2, <2>1
<1>3. CASE <<d, t>> # <<c, s>>
  <2>1. /\ projections'[d][t] = projections[d][t] /\ task[d][t] = "running"
    BY <1>3, TaskEffects
  <2>2. /\ projections[d][t].attempt <= journal.memory.shards[t].attempt
        /\ projections[d][t].attempt = journal.memory.shards[t].attempt => starter[t] = d
    BY <2>1 DEF IInv, AttemptOK
  <2>3. CASE t = s
    <3>1. journal'.memory.shards[s].attempt >= journal.memory.shards[s].attempt
      BY DEF TaskStep, Worked
    <3>2. \/ starter'[s] = starter[s]
          \/ journal'.memory.shards[s].attempt > journal.memory.shards[s].attempt
      BY DEF TaskStep
    <3>3. QED
      BY <1>1, <2>1, <2>2, <2>3, <3>1, <3>2
  <2>4. CASE t # s
    <3>1. journal'.memory.shards[t] = journal.memory.shards[t] /\ starter'[t] = starter[t]
      BY <2>4 DEF TaskStep, Worked
    <3>2. QED
      BY <2>1, <2>2, <3>1
  <2>5. QED
    BY <2>3, <2>4
<1>4. QED
  BY <1>2, <1>3

LEMMA TaskKeepsAgreement ==
  ASSUME IInv, NEW c \in Call, NEW s \in Shard, TaskStep(c, s)
  PROVE  AgreeOK' /\ FaultlessIsClean'
<1> SUFFICES ASSUME journal'.faults = 0
             PROVE  AgreeOK' /\ FaultlessIsClean'
  BY DEF AgreeOK, FaultlessIsClean
<1>1. /\ journal.faults = 0 /\ Ready(journal) /\ Ready(journal')
      /\ \A d \in Call, t \in Shard : <<d, t>> # <<c, s>> =>
           projections'[d][t] = projections[d][t] /\ task'[d][t] = task[d][t]
      /\ task'[c][s] \in {"running", "ended"}
      /\ verdict' = verdict /\ (pc' = pc \/ pc' = "loop") /\ pc # "rearm"
      /\ call' = call /\ rearm' = rearm /\ leaked' = leaked
      /\ Worked(journal, journal', projections[c][s], projections'[c][s], s, earned')
  BY TaskEffects DEF TaskStep, TaskFrame
<1>2. /\ c = call /\ pc # "idle" /\ journal.file = journal.memory
      /\ projections[c][s] = journal.memory.shards[s]
  BY <1>1, LiveFacts DEF TaskStep, IInv, AgreeOK, Ready
<1>3. journal'.file = journal'.memory
  BY <1>1, <1>2 DEF Worked
<1>4. \A t \in Shard : projections'[call][t] = journal'.memory.shards[t]
  <2> TAKE t \in Shard
  <2>1. CASE t = s
    BY <1>1, <1>2, <2>1 DEF Worked
  <2>2. CASE t # s
    BY <1>1, <1>2, <2>2 DEF Worked, IInv, AgreeOK
  <2>3. QED
    BY <2>1, <2>2
<1>5. \A d \in Call, t \in Shard : task'[d][t] \in Live => d = call
  BY <1>1, <1>2 DEF IInv, AgreeOK
<1>6. \A t \in Shard : task'[call][t] = "acquire" => projections'[call][t].state = "pending"
  BY <1>1, <1>2 DEF IInv, AgreeOK
<1>7. task'[c][s] = "running" => projections'[c][s].state = "running"
  BY EndedTask DEF TaskStep, IInv
<1>8. \A t \in Shard : task'[call][t] = "running" => projections'[call][t].state = "running"
  BY <1>1, <1>2, <1>7 DEF IInv, AgreeOK
<1>9. pc' # "idle" /\ pc' # "rearm"
  BY <1>1, <1>2
<1>10. AgreeOK'
  BY <1>1, <1>3, <1>4, <1>5, <1>6, <1>8, <1>9 DEF AgreeOK
<1>11. FaultlessIsClean'
  BY <1>1, <1>3 DEF FaultlessIsClean, IInv, Ready, Sane
<1>12. QED
  BY <1>10, <1>11

LEMMA TaskKeepsInvariant ==
  ASSUME IInv, NEW c \in Call, NEW s \in Shard, TaskStep(c, s)
  PROVE  IInv'
<1>1. PassedIsEarned'
  <2>1. verdict' = "passed" => verdict = "passed"
    BY TaskEffects
  <2>2. verdict = "passed" => earned = Shard
    BY DEF IInv, PassedIsEarned
  <2>3. earned \subseteq earned' /\ earned' \subseteq Shard
    BY DEF TaskStep
  <2>4. QED
    BY <2>1, <2>2, <2>3 DEF PassedIsEarned
<1>2. QED
  BY <1>1, TaskKeepsType, TaskKeepsPlaces, TaskKeepsEarned, TaskKeepsDue, TaskKeepsAttempt,
     TaskKeepsAgreement DEF IInv

-------------------------------------------------------------------------------
(* The invariant under the start of a call. *)

\* What the start of a call comes to: the journal is damaged and moved aside, or
\* the call knows what the store has and goes on to re-arm, or the plan could not
\* be appended.
StartStep(next) ==
  /\ pc = "idle" /\ call < MaxCalls /\ next = call + 1 /\ call' = next
  /\ UNCHANGED <<task, aborted, leaked, crashes, starter>>
  /\ \/ /\ journal.memory.kind = "unloaded" /\ journal.file.kind = "damaged"
        /\ journal' = [journal EXCEPT !.file = NoPlan]
        /\ earned' = {} /\ pc' = "idle" /\ verdict' = "blocked"
        /\ UNCHANGED <<rearm, remaining, projections>>
     \/ /\ Ready(journal') /\ earned' = earned /\ remaining' = {}
        /\ journal.memory.kind # "unloaded" => journal'.memory.shards = journal.memory.shards
        /\ \A s \in Shard :
             /\ journal'.memory.shards[s].state = "passed" => s \in earned
             /\ journal'.file.shards[s].state = "passed" => s \in earned
        /\ journal'.faults \in Nat /\ (journal'.faults = 0 => journal.faults = 0 /\ journal'.file = journal'.memory)
        /\ projections' = [projections EXCEPT ![next] = journal'.memory.shards]
        /\ rearm' \subseteq {s \in Shard : journal'.memory.shards[s].state
                                            \in {"running", "interrupted", "failed", "aborted"}}
        /\ \/ pc' = "rearm" /\ verdict' = "none"
           \/ pc' = "idle" /\ verdict' = "rejected" /\ journal'.faults # 0

LEMMA ExecuteIsStep ==
  ASSUME IInv, NEW retryFailed \in BOOLEAN, NEW resumeAborted \in BOOLEAN,
         executeWorkloadShardPlan(retryFailed, resumeAborted)
  PROVE  StartStep(call + 1)
<1> DEFINE j == Loaded(journal)
<1>1. /\ pc = "idle" /\ call < MaxCalls /\ call' = call + 1
      /\ UNCHANGED <<task, aborted, leaked, crashes, starter>>
  BY DEF executeWorkloadShardPlan
<1>2. Sane(journal)
  BY DEF IInv, TypeOK, PlacesOK, Sane
<1>3. /\ journal.memory.kind # "unloaded" => j = journal
      /\ journal.memory.kind = "unloaded" => j = [journal EXCEPT !.memory = journal.file]
  BY DEF Loaded
<1>4. CASE j.memory.kind = "damaged"
  <2>1. /\ journal' = [journal EXCEPT !.file = NoPlan] /\ earned' = {}
        /\ pc' = "idle" /\ verdict' = "blocked" /\ UNCHANGED <<rearm, remaining, projections>>
    BY <1>4 DEF executeWorkloadShardPlan, Return
  <2>2. journal.memory.kind = "unloaded" /\ journal.file.kind = "damaged"
    BY <1>2, <1>3, <1>4 DEF Sane
  <2>3. QED
    BY <1>1, <2>1, <2>2 DEF StartStep
<1>5. CASE j.memory.kind # "damaged"
  <2>1. /\ Sane(j) /\ j.memory.kind \in {"sound", "absent"} /\ j.faults = journal.faults
        /\ j.file = journal.file
    BY <1>2, <1>3, <1>5 DEF Sane, Content
  <2>2. /\ journal.memory.kind # "unloaded" => j.memory.shards = journal.memory.shards
        /\ j.faults = 0 => j.file = j.memory
        /\ \A s \in Shard : /\ j.memory.shards[s].state = "passed" => s \in earned
                            /\ j.file.shards[s].state = "passed" => s \in earned
    <3>1. CASE journal.memory.kind = "unloaded"
      BY <1>2, <1>3, <3>1 DEF IInv, EarnedOK, Sane
    <3>2. CASE journal.memory.kind # "unloaded"
      BY <1>3, <3>2 DEF IInv, EarnedOK, AgreeOK
    <3>3. QED
      BY <3>1, <3>2
  <2>3. PICK o \in IF j.memory.kind = "sound" THEN {[ok |-> TRUE, journal |-> j]}
                   ELSE appendLine(j, [kind |-> "sound", shards |-> Untouched]) :
          /\ journal' = o.journal
          /\ projections' = [projections EXCEPT ![call + 1] = j.memory.shards]
          /\ rearm' = Resumed(j.memory.shards, retryFailed, resumeAborted)
          /\ remaining' = {}
          /\ IF o.ok THEN pc' = "rearm" /\ verdict' = "none" ELSE Return("rejected")
          /\ UNCHANGED earned
    BY <1>5 DEF executeWorkloadShardPlan
  <2>4. /\ o.ok \in BOOLEAN /\ Ready(o.journal)
        /\ o.journal.memory.shards = j.memory.shards
        /\ o.journal.faults \in Nat
        /\ o.journal.faults = 0 => j.faults = 0 /\ o.journal.file = o.journal.memory
        /\ ~ o.ok => o.journal.faults # 0
        /\ \A s \in Shard : o.journal.file.shards[s].state = "passed" => s \in earned
    <3>0. j.faults \in Nat
      BY <2>1, ContentFields
    <3>1. CASE j.memory.kind = "sound"
      <4>1. o.ok = TRUE /\ o.journal = j
        BY <2>3, <3>1
      <4>2. QED
        BY <2>1, <2>2, <3>0, <4>1 DEF Ready
    <3>2. CASE j.memory.kind = "absent"
      <4> DEFINE c == [kind |-> "sound", shards |-> Untouched]
      <4>1. c \in Content /\ c.kind = "sound" /\ c.shards = Untouched
        BY UntouchedType DEF Content
      <4>2. o \in appendLine(j, c) /\ j.memory.shards = Untouched
        BY <2>1, <2>3, <3>2 DEF Sane
      <4> HIDE DEF c
      <4>3. /\ o.ok \in BOOLEAN
            /\ Sane(o.journal)
            /\ o.ok => /\ o.journal.memory = c
                       /\ o.journal.faults = j.faults
                       /\ j.file = j.memory => o.journal.file = o.journal.memory
            /\ ~ o.ok => /\ o.journal.memory = j.memory
                         /\ o.journal.faults = j.faults + 1
            /\ o.journal.file \in {j.file, c, Damaged}
        BY <2>1, <4>1, <4>2, AppendCases
      <4>4. \A s \in Shard : o.journal.file.shards[s].state = "passed" => s \in earned
        BY <2>2, <4>1, <4>3, ContentTypes, UntouchedType
      <4>5. CASE o.ok
        BY <2>2, <3>0, <4>1, <4>2, <4>3, <4>4, <4>5 DEF Ready
      <4>6. CASE ~ o.ok
        <5>1. o.journal.faults \in Nat /\ o.journal.faults # 0
          BY <3>0, <4>3, <4>6
        <5>2. QED
          BY <3>2, <4>3, <4>4, <4>6, <5>1 DEF Ready
      <4>7. QED
        BY <4>3, <4>5, <4>6
    <3>3. QED
      BY <2>1, <3>1, <3>2
  <2>5. rearm' \subseteq {s \in Shard : journal'.memory.shards[s].state
                                         \in {"running", "interrupted", "failed", "aborted"}}
    BY <2>3, <2>4 DEF Resumed
  <2>6. \/ pc' = "rearm" /\ verdict' = "none"
        \/ pc' = "idle" /\ verdict' = "rejected" /\ journal'.faults # 0
    BY <2>3, <2>4 DEF Return
  <2>7. \A s \in Shard : journal'.memory.shards[s].state = "passed" => s \in earned
    BY <2>2, <2>3, <2>4
  <2>8. QED
    BY <1>1, <2>1, <2>2, <2>3, <2>4, <2>5, <2>6, <2>7 DEF StartStep
<1>6. QED
  BY <1>4, <1>5

LEMMA StartKeepsInvariant ==
  ASSUME IInv, NEW next, StartStep(next)
  PROVE  IInv'
<1>1. /\ next \in Call /\ next > call /\ next \in 0..MaxCalls
      /\ call \in Nat
  BY ShardAssumption DEF StartStep, IInv, TypeOK, Call
<1>2. Sane(journal)
  BY DEF IInv, TypeOK, PlacesOK, Sane
<1>3. CASE /\ journal.memory.kind = "unloaded" /\ journal.file.kind = "damaged"
           /\ journal' = [journal EXCEPT !.file = NoPlan]
           /\ earned' = {} /\ pc' = "idle" /\ verdict' = "blocked"
           /\ UNCHANGED <<rearm, remaining, projections>>
  <2>1. /\ journal'.memory = journal.memory /\ journal'.file = NoPlan /\ journal'.faults = journal.faults
        /\ journal.memory.shards = Untouched
        /\ task = [c \in Call |-> [s \in Shard |-> "none"]]
        /\ projections = [c \in Call |-> Untouched]
        /\ journal' \in [file : Content, memory : Content, faults : 0..MaxFaults]
    BY <1>2, <1>3, ContentTypes DEF IInv, PlacesOK, Sane
  <2>2. task' = task /\ projections' = projections /\ pc' = "idle" /\ call' = next /\ leaked' = leaked
    BY <1>3 DEF StartStep
  <2>3. journal.faults # 0
    BY <1>3 DEF IInv, FaultlessIsClean
  <2>4. TypeOK'
    BY <1>1, <1>2, <1>3, <2>1, ContentTypes DEF StartStep, IInv, TypeOK, Sane
  <2>5. PlacesOK'
    BY <1>1, <1>2, <1>3, <2>1, <2>2, ContentTypes DEF PlacesOK, Sane
  <2>6. EarnedOK'
    BY <1>3, <2>1, <2>2, ContentTypes, UntouchedType DEF EarnedOK
  <2>7. DueOK' /\ AttemptOK'
    BY <2>1, <2>2 DEF DueOK, AttemptOK
  <2>8. AgreeOK' /\ FaultlessIsClean' /\ PassedIsEarned'
    BY <1>3, <2>1, <2>3 DEF AgreeOK, FaultlessIsClean, PassedIsEarned
  <2>9. QED
    BY <2>4, <2>5, <2>6, <2>7, <2>8 DEF IInv
<1>4. CASE /\ Ready(journal') /\ earned' = earned /\ remaining' = {}
           /\ journal.memory.kind # "unloaded" => journal'.memory.shards = journal.memory.shards
           /\ \A s \in Shard :
                /\ journal'.memory.shards[s].state = "passed" => s \in earned
                /\ journal'.file.shards[s].state = "passed" => s \in earned
           /\ journal'.faults \in Nat
           /\ journal'.faults = 0 => journal.faults = 0 /\ journal'.file = journal'.memory
           /\ projections' = [projections EXCEPT ![next] = journal'.memory.shards]
           /\ rearm' \subseteq {s \in Shard : journal'.memory.shards[s].state
                                               \in {"running", "interrupted", "failed", "aborted"}}
           /\ \/ pc' = "rearm" /\ verdict' = "none"
              \/ pc' = "idle" /\ verdict' = "rejected" /\ journal'.faults # 0
  <2>1. /\ projections'[next] = journal'.memory.shards
        /\ journal'.memory.shards \in [Shard -> Entry]
        /\ \A c \in Call \ {next} : projections'[c] = projections[c]
        /\ task' = task /\ call' = next /\ leaked' = leaked /\ starter' = starter /\ pc = "idle"
        /\ task[next] = [s \in Shard |-> "none"]
    BY <1>1, <1>4, ContentFields DEF StartStep, IInv, TypeOK, PlacesOK, Ready
  <2>2. TypeOK'
    BY <1>1, <1>4, <2>1 DEF StartStep, IInv, TypeOK, Ready, Sane
  <2>3. PlacesOK'
    <3>1. \A c \in Call : c > next => c > call
      BY <1>1 DEF Call
    <3>2. \A c \in Call : c > call' => task'[c] = [s \in Shard |-> "none"]
      BY <2>1, <3>1 DEF IInv, PlacesOK
    <3>3. QED
      BY <1>1, <1>4, <2>1, <3>2 DEF PlacesOK, Ready, Sane
  <2>4. \A c \in Call \ {next}, s \in Shard : projections'[c][s].state = "passed" =>
           s \in earned /\ journal'.memory.shards[s].state = "passed"
    <3> TAKE c \in Call \ {next}, s \in Shard
    <3>1. CASE journal.memory.kind = "unloaded"
      <4>1. projections[c] = Untouched
        BY <3>1 DEF IInv, PlacesOK
      <4>2. QED
        BY <2>1, <4>1, UntouchedType
    <3>2. CASE journal.memory.kind # "unloaded"
      BY <1>4, <2>1, <3>2 DEF IInv, EarnedOK
    <3>3. QED
      BY <3>1, <3>2
  <2>5. EarnedOK'
    BY <1>4, <2>1, <2>4 DEF EarnedOK
  <2>6. \A c \in Call, s \in Shard : task[c][s] \in Live =>
          c # next /\ journal'.memory.shards = journal.memory.shards
    BY <1>4, <2>1 DEF IInv, PlacesOK, Live
  <2>7. DueOK'
    BY <2>1, <2>6 DEF IInv, DueOK, Live
  <2>8. AttemptOK'
    BY <2>1, <2>6 DEF IInv, AttemptOK, Live
  <2>9. AgreeOK'
    <3> SUFFICES ASSUME journal'.faults = 0
                 PROVE  AgreeOK'
      BY DEF AgreeOK
    <3>1. \A c \in Call, s \in Shard : task[c][s] \notin Live
      BY <1>4, <2>1 DEF IInv, AgreeOK
    <3>2. \A s \in Shard : task'[next][s] = "none" /\ projections'[next][s] = journal'.memory.shards[s]
      BY <2>1
    <3>3. QED
      BY <1>4, <2>1, <3>1, <3>2 DEF AgreeOK
  <2>10. FaultlessIsClean'
    BY <1>4, <2>1 DEF FaultlessIsClean, IInv, Ready, Sane
  <2>11. PassedIsEarned'
    BY <1>4 DEF PassedIsEarned
  <2>12. QED
    BY <2>2, <2>3, <2>5, <2>7, <2>8, <2>9, <2>10, <2>11 DEF IInv
<1>5. QED
  BY <1>3, <1>4 DEF StartStep

-------------------------------------------------------------------------------
(* The invariant under the loop that re-arms. *)

\* One record of the loop, by what it does.
RearmStep(s) ==
  /\ pc = "rearm"
  /\ Worked(journal, journal', projections[call][s], projections'[call][s], s, earned)
  /\ projections' = [projections EXCEPT ![call][s] = projections'[call][s]]
  /\ \/ journal'.memory.shards[s] = journal.memory.shards[s]
     \/ journal'.memory.shards[s].state \in {"interrupted", "pending"}
  /\ rearm' \subseteq rearm
  /\ journal'.faults = 0 /\ s \in rearm' => projections'[call][s].state = "interrupted"
  /\ \/ UNCHANGED <<pc, verdict>>
     \/ pc' = "idle" /\ verdict' = "rejected" /\ journal'.faults # 0
  /\ UNCHANGED <<call, remaining, task, aborted, leaked, crashes, starter, earned>>

LEMMA RearmIsStep ==
  ASSUME IInv, NEW s \in Shard, RearmShard(s)
  PROVE  RearmStep(s)
<1> DEFINE state == IF projections[call][s].state = "running" THEN "interrupted" ELSE "pending"
<1>1. PICK o \in applyTransition(journal, projections[call][s], s, state) :
        /\ journal' = o.journal
        /\ projections' = [projections EXCEPT ![call][s] = o.entry]
        /\ rearm' = IF state = "pending" THEN rearm \ {s} ELSE rearm
        /\ IF o.ok THEN UNCHANGED <<pc, verdict>> ELSE Return("rejected")
  BY DEF RearmShard
<1>2. /\ pc = "rearm" /\ s \in rearm /\ call \in Call
      /\ UNCHANGED <<call, remaining, task, aborted, leaked, crashes, starter, earned>>
      /\ Ready(journal) /\ projections[call][s] \in Entry
  BY DEF RearmShard, IInv, TypeOK, PlacesOK, Ready, Sane
<1>3. /\ state \in State /\ state \in {"interrupted", "pending"}
      /\ state = "passed" => s \in earned
  BY DEF State
<1>4. journal.faults \in Nat /\ journal.memory.shards[s] \in Entry
  BY <1>2, ContentFields DEF Ready
<1>5. journal.faults = 0 => Replays(journal.memory.shards[s], Moved(projections[call][s], state))
  <2> HAVE journal.faults = 0
  <2>1. /\ projections[call][s] = journal.memory.shards[s]
        /\ projections[call][s].state \in {"running", "interrupted", "failed", "aborted"}
    BY <1>2 DEF IInv, AgreeOK
  <2>2. QED
    BY <1>2, <1>3, <2>1, LegalReplays
<1>6. projections'[call][s] = o.entry
  BY <1>1, <1>2 DEF IInv, TypeOK
<1> HIDE DEF state
<1>7. /\ o.ok \in BOOLEAN
      /\ Worked(journal, o.journal, projections[call][s], o.entry, s, earned)
      /\ o.ok => /\ Replays(journal.memory.shards[s], Moved(projections[call][s], state))
                 /\ o.entry = Moved(projections[call][s], state)
                 /\ o.journal.memory.shards[s] = Moved(projections[call][s], state)
      /\ ~ o.ok => /\ o.entry = projections[call][s]
                   /\ o.journal.memory = journal.memory
                   /\ Replays(journal.memory.shards[s], Moved(projections[call][s], state))
                        => o.journal.faults > 0
  BY <1>2, <1>3, Transition
<1>8. o.journal.faults \in Nat /\ o.journal.faults >= journal.faults
  BY <1>7, ContentFields DEF Worked, Ready
<1>9. o.journal.faults = 0 => o.ok
  BY <1>4, <1>5, <1>7, <1>8
<1>10. Worked(journal, journal', projections[call][s], projections'[call][s], s, earned)
  BY <1>1, <1>6, <1>7
<1>11. journal'.faults = 0 /\ s \in rearm' => projections'[call][s].state = "interrupted"
  <2>1. Moved(projections[call][s], state).state = state
    BY <1>2, <1>3, MovedType
  <2>2. QED
    BY <1>1, <1>3, <1>6, <1>7, <1>9, <2>1
<1>12. \/ journal'.memory.shards[s] = journal.memory.shards[s]
       \/ journal'.memory.shards[s].state \in {"interrupted", "pending"}
  <2>1. Moved(projections[call][s], state).state = state
    BY <1>2, <1>3, MovedType
  <2>2. QED
    BY <1>1, <1>3, <1>7, <2>1
<1>13. QED
  BY <1>1, <1>2, <1>6, <1>7, <1>9, <1>10, <1>11, <1>12 DEF RearmStep, Return

LEMMA RearmKeepsInvariant ==
  ASSUME IInv, NEW s \in Shard, RearmStep(s)
  PROVE  IInv'
<1>1. /\ pc = "rearm" /\ call \in Call /\ Ready(journal) /\ Ready(journal')
      /\ task' = task /\ call' = call /\ earned' = earned /\ starter' = starter /\ leaked' = leaked
      /\ Worked(journal, journal', projections[call][s], projections'[call][s], s, earned)
      /\ projections'[call][s] \in Entry
      /\ pc' \in {"rearm", "idle"} /\ verdict' \in {verdict, "rejected"}
      /\ rearm' \subseteq rearm
  BY DEF RearmStep, IInv, TypeOK, PlacesOK, Ready, Sane, Worked
<1>2. /\ projections' \in [Call -> [Shard -> Entry]]
      /\ \A d \in Call, t \in Shard : <<d, t>> # <<call, s>> => projections'[d][t] = projections[d][t]
  <2> DEFINE q == projections'[call][s]
  <2>1. q \in Entry /\ projections' = [projections EXCEPT ![call][s] = q]
    BY <1>1 DEF RearmStep
  <2> HIDE DEF q
  <2>2. QED
    BY <1>1, <2>1 DEF IInv, TypeOK
<1>3. /\ journal.faults \in Nat /\ journal'.faults \in Nat /\ journal'.faults >= journal.faults
      /\ \A t \in Shard : /\ journal.memory.shards[t].attempt \in Nat
                          /\ journal'.memory.shards[t].attempt \in Nat
  BY <1>1, ContentFields DEF Ready, Worked
<1>4. \A t \in Shard : task[call][t] = "none"
  BY <1>1 DEF IInv, PlacesOK
<1>5. TypeOK'
  BY <1>1, <1>2 DEF RearmStep, IInv, TypeOK, Ready, Sane
<1>6. PlacesOK'
  BY <1>1 DEF IInv, PlacesOK, Ready, Sane
<1>7. /\ \A t \in Shard : journal'.memory.shards[t].state = "passed" => t \in earned
      /\ \A t \in Shard : journal'.file.shards[t].state = "passed" => t \in earned
      /\ \A t \in Shard : journal.memory.shards[t].state = "passed" =>
           journal'.memory.shards[t].state = "passed"
  BY <1>1 DEF Worked, IInv, EarnedOK
<1>8. ASSUME NEW d \in Call, NEW t \in Shard, projections'[d][t].state = "passed"
      PROVE  t \in earned /\ journal'.memory.shards[t].state = "passed"
  <2>1. CASE projections'[d][t] = projections[d][t]
    BY <1>7, <1>8, <2>1 DEF IInv, EarnedOK
  <2>2. CASE projections'[d][t] # projections[d][t]
    <3>1. d = call /\ t = s /\ projections'[call][s] = journal'.memory.shards[s]
      BY <1>1, <1>2, <2>2 DEF Worked
    <3>2. QED
      BY <3>1, <1>7, <1>8
  <2>3. QED
    BY <2>1, <2>2
<1>9. EarnedOK'
  BY <1>1, <1>7, <1>8 DEF EarnedOK
<1>10. DueOK'
  <2>1. \A t \in Shard : dependencyIds[t] \subseteq Shard
    BY ShardAssumption
  <2>2. QED
    BY <1>1, <1>7, <2>1 DEF IInv, DueOK
<1>11. AttemptOK'
  <2> SUFFICES ASSUME NEW d \in Call, NEW t \in Shard, task[d][t] = "running"
               PROVE  /\ projections'[d][t].attempt <= journal'.memory.shards[t].attempt
                      /\ projections'[d][t].attempt = journal'.memory.shards[t].attempt => starter[t] = d
    BY <1>1 DEF AttemptOK
  <2>1. projections'[d][t] = projections[d][t] /\ projections[d][t].attempt \in Nat
    BY <1>2, <1>4 DEF IInv, TypeOK, Entry
  <2>2. journal'.memory.shards[t].attempt >= journal.memory.shards[t].attempt
    BY <1>1, <1>3 DEF Worked
  <2>3. QED
    BY <1>3, <2>1, <2>2 DEF IInv, AttemptOK
<1>12. AgreeOK'
  <2> SUFFICES ASSUME journal'.faults = 0
               PROVE  AgreeOK'
    BY DEF AgreeOK
  <2>1. journal.faults = 0 /\ journal.file = journal.memory /\ journal'.file = journal'.memory
    BY <1>1, <1>3 DEF IInv, AgreeOK, Ready, Worked
  <2>2. \A t \in Shard : projections'[call][t] = journal'.memory.shards[t]
    <3> TAKE t \in Shard
    <3>1. CASE t = s
      BY <1>1, <2>1, <3>1 DEF Worked, IInv, AgreeOK
    <3>2. CASE t # s
      BY <1>1, <1>2, <2>1, <3>2 DEF Worked, IInv, AgreeOK
    <3>3. QED
      BY <3>1, <3>2
  <2>3. \A c \in Call, t \in Shard : task[c][t] \notin Live
    BY <1>4, <2>1 DEF IInv, AgreeOK, Live
  <2>4. \A t \in rearm' : projections'[call][t].state \in {"running", "interrupted", "failed", "aborted"}
    <3> TAKE t \in rearm'
    <3>1. CASE t = s
      BY <3>1 DEF RearmStep
    <3>2. CASE t # s
      BY <1>1, <1>2, <2>1, <3>2 DEF IInv, AgreeOK, TypeOK
    <3>3. QED
      BY <3>1, <3>2
  <2>5. QED
    BY <1>1, <1>4, <2>1, <2>2, <2>3, <2>4 DEF AgreeOK, Live
<1>13. FaultlessIsClean'
  <2> SUFFICES ASSUME journal'.faults = 0
               PROVE  FaultlessIsClean'
    BY DEF FaultlessIsClean
  <2>1. journal.faults = 0 /\ journal'.file = journal'.memory /\ verdict' = verdict
    BY <1>1, <1>3 DEF RearmStep, IInv, AgreeOK, Ready, Worked
  <2>2. QED
    BY <1>1, <2>1 DEF FaultlessIsClean, IInv, Ready, Sane
<1>14. PassedIsEarned'
  BY <1>1 DEF IInv, PassedIsEarned
<1>15. QED
  BY <1>5, <1>6, <1>9, <1>10, <1>11, <1>12, <1>13, <1>14 DEF IInv

-------------------------------------------------------------------------------
(* The invariant under the other steps. *)

LEMMA RearmedKeepsInvariant ==
  ASSUME IInv, Rearmed
  PROVE  IInv'
<1>1. /\ pc = "rearm" /\ pc' = "loop" /\ remaining' \subseteq Shard
      /\ UNCHANGED <<journal, call, rearm, projections, task, aborted, leaked, verdict, crashes,
                     starter, earned>>
  BY DEF Rearmed
<1>2. TypeOK'
  BY <1>1 DEF IInv, TypeOK
<1>3. PlacesOK'
  BY <1>1 DEF IInv, PlacesOK
<1>4. EarnedOK' /\ DueOK' /\ AttemptOK' /\ FaultlessIsClean' /\ PassedIsEarned'
  BY <1>1 DEF IInv, EarnedOK, DueOK, AttemptOK, FaultlessIsClean, PassedIsEarned
<1>5. AgreeOK'
  BY <1>1 DEF IInv, AgreeOK
<1>6. QED
  BY <1>2, <1>3, <1>4, <1>5 DEF IInv

LEMMA LaunchKeepsInvariant ==
  ASSUME IInv, Loop, Launch
  PROVE  IInv'
<1>1. /\ pc = "loop" /\ pc' = pc /\ remaining' \subseteq remaining /\ call \in Call
      /\ UNCHANGED <<journal, call, rearm, projections, aborted, leaked, verdict, crashes,
                     starter, earned>>
      /\ task' = [task EXCEPT ![call] = [s \in Shard |-> IF s \in launchable THEN "acquire"
                                                         ELSE task[call][s]]]
  BY DEF Loop, Launch, IInv, PlacesOK
<1>2. \A s \in launchable : /\ s \in Shard /\ projections[call][s].state = "pending"
                            /\ \A d \in dependencyIds[s] : projections[call][d].state = "passed"
  BY DEF launchable, ready, IInv, TypeOK
<1>3. task \in [Call -> [Shard -> Live \cup {"none", "ended"}]]
  BY DEF IInv, TypeOK
<1> HIDE DEF launchable
<1>4. /\ task' \in [Call -> [Shard -> Live \cup {"none", "ended"}]]
      /\ \A c \in Call : c # call => task'[c] = task[c]
      /\ \A s \in Shard : task'[call][s] = IF s \in launchable THEN "acquire" ELSE task[call][s]
  BY <1>1, <1>3 DEF Live
<1>5. TypeOK'
  BY <1>1, <1>4 DEF IInv, TypeOK
<1>6. PlacesOK'
  <2>1. \A c \in Call : c > call => c # call
    BY <1>1, ShardAssumption DEF Call
  <2>2. QED
    BY <1>1, <1>4, <2>1 DEF IInv, PlacesOK
<1>7. EarnedOK' /\ FaultlessIsClean' /\ PassedIsEarned'
  BY <1>1 DEF IInv, EarnedOK, FaultlessIsClean, PassedIsEarned
<1>8. DueOK'
  <2>1. \A s \in Shard : dependencyIds[s] \subseteq Shard
    BY ShardAssumption
  <2>2. \A s \in launchable : \A d \in dependencyIds[s] : journal.memory.shards[d].state = "passed"
    BY <1>1, <1>2, <2>1 DEF IInv, EarnedOK
  <2>3. QED
    BY <1>1, <1>4, <2>2 DEF IInv, DueOK
<1>9. AttemptOK'
  BY <1>1, <1>4 DEF IInv, AttemptOK
<1>10. AgreeOK'
  BY <1>1, <1>2, <1>4 DEF IInv, AgreeOK
<1>11. QED
  BY <1>5, <1>6, <1>7, <1>8, <1>9, <1>10 DEF IInv

LEMMA LoopKeepsInvariant ==
  ASSUME IInv, Loop
  PROVE  IInv'
<1>1. CASE Launch
  BY <1>1, LaunchKeepsInvariant
<1>2. CASE WaitTurn \/ LeaveLoop
  <2>1. /\ pc = "loop" /\ pc' \in {"wait", "join"}
        /\ UNCHANGED <<journal, call, rearm, remaining, projections, task, aborted, leaked, verdict,
                       crashes, starter, earned>>
    BY <1>2 DEF Loop, WaitTurn, LeaveLoop
  <2>2. TypeOK'
    BY <2>1 DEF IInv, TypeOK
  <2>3. PlacesOK'
    BY <2>1 DEF IInv, PlacesOK
  <2>4. EarnedOK' /\ DueOK' /\ AttemptOK' /\ FaultlessIsClean' /\ PassedIsEarned'
    BY <2>1 DEF IInv, EarnedOK, DueOK, AttemptOK, FaultlessIsClean, PassedIsEarned
  <2>5. AgreeOK'
    BY <2>1 DEF IInv, AgreeOK
  <2>6. QED
    BY <2>2, <2>3, <2>4, <2>5 DEF IInv
<1>3. QED
  BY <1>1, <1>2 DEF Loop

LEMMA JoinKeepsInvariant ==
  ASSUME IInv, Join
  PROVE  IInv'
<1>1. /\ pc = "join" /\ pc' = "idle" /\ verdict' = aggregateVerdict /\ Running = {} /\ call \in Call
      /\ UNCHANGED <<journal, call, rearm, remaining, projections, task, aborted, leaked, crashes,
                     starter, earned>>
  BY DEF Join, Return, IInv, PlacesOK
<1>2. aggregateVerdict \in {"passed", "aborted", "failed"}
  BY DEF aggregateVerdict
<1>3. TypeOK'
  BY <1>1, <1>2 DEF IInv, TypeOK
<1>4. PlacesOK'
  BY <1>1 DEF IInv, PlacesOK
<1>5. EarnedOK' /\ DueOK' /\ AttemptOK'
  BY <1>1 DEF IInv, EarnedOK, DueOK, AttemptOK
<1>6. FaultlessIsClean'
  BY <1>1, <1>2 DEF IInv, FaultlessIsClean
<1>7. AgreeOK'
  BY <1>1 DEF IInv, AgreeOK, Running
<1>8. PassedIsEarned'
  <2> SUFFICES ASSUME aggregateVerdict = "passed"
               PROVE  earned = Shard
    BY <1>1 DEF PassedIsEarned
  <2>1. {projections[call][s].state : s \in Shard} = {"passed"}
    BY DEF aggregateVerdict
  <2>2. \A s \in Shard : projections[call][s].state = "passed"
    BY <2>1
  <2>3. \A s \in Shard : s \in earned
    BY <1>1, <2>2 DEF IInv, EarnedOK
  <2>4. QED
    BY <2>3 DEF IInv, TypeOK
<1>9. QED
  BY <1>3, <1>4, <1>5, <1>6, <1>7, <1>8 DEF IInv

LEMMA AbortKeepsInvariant ==
  ASSUME IInv, Abort
  PROVE  IInv'
<1>1. /\ aborted' = [aborted EXCEPT ![call] = TRUE]
      /\ UNCHANGED <<journal, pc, call, rearm, remaining, projections, task, leaked, verdict, crashes,
                     starter, earned>>
  BY DEF Abort
<1>2. TypeOK'
  BY <1>1 DEF IInv, TypeOK
<1>3. PlacesOK'
  BY <1>1 DEF IInv, PlacesOK
<1>4. EarnedOK' /\ DueOK' /\ AttemptOK' /\ FaultlessIsClean' /\ PassedIsEarned'
  BY <1>1 DEF IInv, EarnedOK, DueOK, AttemptOK, FaultlessIsClean, PassedIsEarned
<1>5. AgreeOK'
  BY <1>1 DEF IInv, AgreeOK
<1>6. QED
  BY <1>2, <1>3, <1>4, <1>5 DEF IInv

LEMMA CrashKeepsInvariant ==
  ASSUME IInv, Crash
  PROVE  IInv'
<1>1. PICK torn \in IF journal.faults < MaxFaults /\ (pc # "idle" \/ AnyLive) THEN BOOLEAN ELSE {FALSE} :
        journal' = [file   |-> IF torn THEN Damaged ELSE journal.file,
                    memory |-> Unloaded,
                    faults |-> journal.faults + (IF torn THEN 1 ELSE 0)]
  BY DEF Crash
<1>2. /\ Sane(journal) /\ journal.faults \in Nat /\ journal.faults \in 0..MaxFaults
      /\ crashes \in 0..MaxCrashes /\ crashes < MaxCrashes /\ crashes' = crashes + 1
      /\ pc' = "idle" /\ verdict' = "none" /\ call' = call /\ earned' = earned
      /\ task' = [c \in Call |-> [s \in Shard |-> "none"]]
      /\ projections' = [c \in Call |-> Untouched]
      /\ aborted' = [c \in Call |-> FALSE]
      /\ starter' = [s \in Shard |-> 0]
      /\ leaked' = 0 /\ rearm' = {} /\ remaining' = {}
  BY ShardAssumption DEF Crash, IInv, TypeOK, PlacesOK, Sane
<1>3. /\ torn \in BOOLEAN /\ (torn => journal.faults < MaxFaults)
      /\ journal'.memory = Unloaded
      /\ journal'.file = IF torn THEN Damaged ELSE journal.file
      /\ journal'.faults = journal.faults + (IF torn THEN 1 ELSE 0)
  BY <1>1
<1>4. journal'.faults \in 0..MaxFaults /\ (journal'.faults = 0 => ~ torn /\ journal.faults = 0)
  <2>1. CASE torn
    BY <1>2, <1>3, <2>1, ShardAssumption
  <2>2. CASE ~ torn
    BY <1>2, <1>3, <2>2
  <2>3. QED
    BY <2>1, <2>2
<1>5. Sane(journal') /\ journal'.memory.shards = Untouched /\ journal'.memory.kind = "unloaded"
  <2>1. journal'.file \in Content /\ journal'.file.kind # "unloaded"
          /\ (journal'.file.kind = "absent" => journal'.file.shards = Untouched)
    BY <1>2, <1>3, ContentTypes DEF Sane
  <2>2. journal' \in [file : Content, memory : Content, faults : 0..MaxFaults]
    <3>1. journal' = [file |-> journal'.file, memory |-> journal'.memory, faults |-> journal'.faults]
      BY <1>1
    <3>2. journal'.memory \in Content
      BY <1>3, ContentTypes
    <3>3. QED
      BY <1>4, <2>1, <3>1, <3>2
  <2>3. QED
    BY <1>3, <2>1, <2>2, ContentTypes DEF Sane
<1>6. TypeOK'
  <2>1. /\ task' \in [Call -> [Shard -> Live \cup {"none", "ended"}]]
        /\ projections' \in [Call -> [Shard -> Entry]]
        /\ aborted' \in [Call -> BOOLEAN] /\ starter' \in [Shard -> 0..MaxCalls]
        /\ leaked' \in 0..Permits /\ crashes' \in 0..MaxCrashes
    BY <1>2, UntouchedType, ShardAssumption
  <2>2. QED
    BY <1>2, <1>5, <2>1 DEF IInv, TypeOK, Sane
<1>7. PlacesOK'
  BY <1>2, <1>5 DEF PlacesOK, Sane
<1>8. EarnedOK'
  BY <1>2, <1>3, <1>5, ContentTypes, UntouchedType DEF IInv, EarnedOK
<1>9. DueOK' /\ AttemptOK'
  BY <1>2 DEF DueOK, AttemptOK
<1>10. AgreeOK'
  BY <1>2, <1>5 DEF AgreeOK, Live
<1>11. FaultlessIsClean' /\ PassedIsEarned'
  BY <1>2, <1>3, <1>4 DEF IInv, FaultlessIsClean, PassedIsEarned
<1>12. QED
  BY <1>6, <1>7, <1>8, <1>9, <1>10, <1>11 DEF IInv

LEMMA InitInvariant == Init => IInv
<1> SUFFICES ASSUME Init
             PROVE  IInv
  OBVIOUS
<1>1. Sane(journal) /\ journal.memory = Unloaded /\ journal.file = NoPlan /\ journal.faults = 0
  BY ContentTypes, ShardAssumption DEF Init, Sane
<1>2. TypeOK
  BY <1>1, UntouchedType, ShardAssumption DEF Init, TypeOK, Sane
<1>3. PlacesOK
  BY <1>1, ContentTypes DEF Init, PlacesOK
<1>4. EarnedOK
  BY <1>1, ContentTypes, UntouchedType DEF Init, EarnedOK
<1>5. DueOK /\ AttemptOK
  BY DEF Init, DueOK, AttemptOK
<1>6. AgreeOK
  BY <1>1, ContentTypes DEF Init, AgreeOK, Live
<1>7. FaultlessIsClean /\ PassedIsEarned
  BY <1>1, ContentTypes DEF Init, FaultlessIsClean, PassedIsEarned
<1>8. QED
  BY <1>2, <1>3, <1>4, <1>5, <1>6, <1>7 DEF IInv

LEMMA NextInvariant == IInv /\ [Next]_vars => IInv'
<1> SUFFICES ASSUME IInv, [Next]_vars
             PROVE  IInv'
  OBVIOUS
<1>1. ASSUME NEW retryFailed \in BOOLEAN, NEW resumeAborted \in BOOLEAN,
             executeWorkloadShardPlan(retryFailed, resumeAborted)
      PROVE  IInv'
  BY <1>1, ExecuteIsStep, StartKeepsInvariant
<1>2. ASSUME NEW s \in Shard, RearmShard(s)
      PROVE  IInv'
  BY <1>2, RearmIsStep, RearmKeepsInvariant
<1>3. ASSUME NEW c \in Call, NEW s \in Shard, Task(c, s)
      PROVE  IInv'
  BY <1>3, TaskIsStep, TaskKeepsInvariant
<1>4. CASE UNCHANGED vars
  <2>1. TypeOK' /\ PlacesOK'
    BY <1>4 DEF vars, IInv, TypeOK, PlacesOK
  <2>2. EarnedOK' /\ DueOK' /\ AttemptOK' /\ AgreeOK'
    BY <1>4 DEF vars, IInv, EarnedOK, DueOK, AttemptOK, AgreeOK
  <2>3. FaultlessIsClean' /\ PassedIsEarned'
    BY <1>4 DEF vars, IInv, FaultlessIsClean, PassedIsEarned
  <2>4. QED
    BY <2>1, <2>2, <2>3 DEF IInv
<1>5. QED
  BY <1>1, <1>2, <1>3, <1>4, RearmedKeepsInvariant, LoopKeepsInvariant, JoinKeepsInvariant,
     AbortKeepsInvariant, CrashKeepsInvariant DEF Next, Executor

LEMMA Invariant == Spec => []IInv
  BY InitInvariant, NextInvariant, PTL DEF Spec

-------------------------------------------------------------------------------
(* The theorems. *)

\* The variables of the executor and its journal keep their types, over calls,
\* failing appends and crashes.
THEOREM ShardTypeCorrect == Spec => []TypeOK
  BY Invariant, PTL DEF IInv

\* A plan is reported passed only when the command of each of its shards has exited
\* with 0 since the journal was begun (aggregateVerdict).
THEOREM PassedHasPassed == Spec => []PassedIsEarned
  BY Invariant, PTL DEF IInv

\* Without a failing append the journal always loads, every transition is legal and
\* every permit is released, whatever crashes, aborts and resumptions come together.
THEOREM FaultlessStaysClean == Spec => []FaultlessIsClean
  BY Invariant, PTL DEF IInv

\* A step that does not run a task takes no outcome into the journal.
LEMMA NoOutcomeOtherwise ==
  ASSUME IInv, NEW s \in Shard, journal.memory.shards[s].state = "running",
         \/ \E retryFailed, resumeAborted \in BOOLEAN : executeWorkloadShardPlan(retryFailed, resumeAborted)
         \/ Executor \/ Abort \/ Crash \/ UNCHANGED vars
  PROVE  journal'.memory.shards[s].state \notin {"passed", "failed", "aborted"}
<1>1. CASE UNCHANGED journal
  BY <1>1
<1>2. ASSUME NEW retryFailed \in BOOLEAN, NEW resumeAborted \in BOOLEAN,
             executeWorkloadShardPlan(retryFailed, resumeAborted)
      PROVE  journal'.memory.shards[s].state \notin {"passed", "failed", "aborted"}
  <2>1. journal.memory.kind # "unloaded"
    BY UntouchedType DEF IInv, PlacesOK
  <2>2. journal'.memory.shards = journal.memory.shards
    BY <1>2, <2>1, ExecuteIsStep DEF StartStep
  <2>3. QED
    BY <2>2
<1>3. ASSUME NEW t \in Shard, RearmShard(t)
      PROVE  journal'.memory.shards[s].state \notin {"passed", "failed", "aborted"}
  <2>1. \/ journal'.memory.shards[s] = journal.memory.shards[s]
        \/ journal'.memory.shards[s].state \in {"interrupted", "pending"}
    BY <1>3, RearmIsStep DEF RearmStep, Worked
  <2>2. QED
    BY <2>1
<1>4. CASE Crash
  BY <1>4, ContentTypes, UntouchedType DEF Crash
<1>5. QED
  BY <1>1, <1>2, <1>3, <1>4 DEF Executor, Rearmed, Loop, Join, Abort, vars

\* The journal takes the outcome of an attempt from the task that started it, in the
\* step in which that task ends: no task that outlived its call, and no resumption,
\* records over a newer attempt.
THEOREM OutcomesAreOwn == Spec => OutcomeOfItsRun
<1> DEFINE Own == \A s \in Shard :
                    /\ journal.memory.shards[s].state = "running"
                    /\ journal'.memory.shards[s].state \in {"passed", "failed", "aborted"}
                    => task[starter[s]][s] = "running" /\ task'[starter[s]][s] = "ended"
<1>1. IInv /\ [Next]_vars => [Own]_vars
  <2> SUFFICES ASSUME IInv, [Next]_vars, NEW s \in Shard,
                      journal.memory.shards[s].state = "running",
                      journal'.memory.shards[s].state \in {"passed", "failed", "aborted"}
               PROVE  task[starter[s]][s] = "running" /\ task'[starter[s]][s] = "ended"
    BY DEF vars
  <2>1. PICK c \in Call, t \in Shard : Task(c, t)
    BY NoOutcomeOtherwise DEF Next
  <2>2. TaskStep(c, t)
    BY <2>1, TaskIsStep
  <2>3. t = s
    BY <2>2 DEF TaskStep, Worked
  <2>4. QED
    BY <2>2, <2>3 DEF TaskStep
<1> HIDE DEF Own
<1>2. IInv /\ [Next]_vars => [Own]_vars
  BY <1>1
<1>3. Spec => [][Own]_vars
  BY <1>2, Invariant, PTL DEF Spec
<1>4. QED
  BY <1>3 DEF OutcomeOfItsRun, Own

\* A command starts only when the journal has it running and its dependencies
\* passed; a shard that has passed never runs again (launchable, PermitGranted).
THEOREM DependenciesComeFirst == Spec => RunsOnlyDue
<1> DEFINE Due == \A c \in Call, s \in Shard :
                    task[c][s] # "running" /\ task'[c][s] = "running" =>
                      /\ journal.memory.shards[s].state # "passed"
                      /\ journal'.memory.shards[s].state = "running"
                      /\ \A d \in dependencyIds[s] : journal'.memory.shards[d].state = "passed"
<1>1. IInv /\ [Next]_vars => [Due]_vars
  <2> SUFFICES ASSUME IInv, [Next]_vars, NEW c \in Call, NEW s \in Shard,
                      task[c][s] # "running", task'[c][s] = "running"
               PROVE  /\ journal.memory.shards[s].state # "passed"
                      /\ journal'.memory.shards[s].state = "running"
                      /\ \A d \in dependencyIds[s] : journal'.memory.shards[d].state = "passed"
    BY DEF vars
  <2>1. PICK b \in Call, t \in Shard : Task(b, t)
    <3>1. ~ Launch \/ ~ Loop
      BY DEF Launch, Loop, IInv, PlacesOK, TypeOK
    <3>2. task' # task /\ ~ Crash
      BY DEF Crash
    <3>3. QED
      BY <3>1, <3>2 DEF Next, Executor, executeWorkloadShardPlan, Rearmed, Loop, WaitTurn, LeaveLoop,
                        Join, RearmShard, Abort, vars
  <2>2. TaskStep(b, t)
    BY <2>1, TaskIsStep
  <2>3. b = c /\ t = s
    BY <2>2, TaskEffects
  <2>4. /\ task[c][s] = "acquire" /\ projections'[c][s] = journal'.memory.shards[s]
        /\ projections'[c][s].state = "running"
    <3>1. \A ok : ~ End(c, s, ok)
      BY EndedTask DEF IInv
    <3>2. QED
      BY <2>2, <2>3, <3>1 DEF TaskStep
  <2>5. \A d \in dependencyIds[s] : journal'.memory.shards[d].state = "passed"
    <3>1. dependencyIds[s] \subseteq Shard
      BY ShardAssumption
    <3>2. \A d \in Shard : journal.memory.shards[d].state = "passed" =>
            journal'.memory.shards[d].state = "passed"
      BY <2>2 DEF TaskStep, Worked
    <3>3. QED
      BY <2>4, <3>1, <3>2 DEF IInv, DueOK
  <2>6. journal.memory.shards[s].state # "passed"
    BY <2>2, <2>3, <2>4 DEF TaskStep, Worked
  <2>7. QED
    BY <2>4, <2>5, <2>6
<1> HIDE DEF Due
<1>2. IInv /\ [Next]_vars => [Due]_vars
  BY <1>1
<1>3. Spec => [][Due]_vars
  BY <1>2, Invariant, PTL DEF Spec
<1>4. QED
  BY <1>3 DEF RunsOnlyDue, Due

-------------------------------------------------------------------------------
(* Limits, and the loop that waits. *)

\* No call has more shards under way than its width.
WidthKept == \A c \in Call : Cardinality({s \in Shard : task[c][s] \in Live}) <= Width

\* Permits that are out and permits that are lost are no more than there are.
PermitsKept == Free >= 0

\* A loop that waits has a task that will wake it.
WaitHasWaker == pc = "wait" => Running # {}

LimitsInv == WidthKept /\ PermitsKept /\ WaitHasWaker

\* What is counted is finite, and less of it is not more.
LEMMA ShardsAreFinite ==
  /\ IsFiniteSet(Shard) /\ IsFiniteSet(Call \X Shard)
  /\ \A S \in SUBSET Shard : IsFiniteSet(S) /\ Cardinality(S) \in Nat
  /\ \A S \in SUBSET (Call \X Shard) : IsFiniteSet(S) /\ Cardinality(S) \in Nat
<1>1. IsFiniteSet(Call) /\ IsFiniteSet(Shard)
  BY ShardAssumption, FS_Interval DEF Call, Shard
<1>2. IsFiniteSet(Call \X Shard)
  BY <1>1, FS_Product
<1>3. QED
  BY <1>1, <1>2, FS_Subset, FS_CardinalityType

\* Nothing is not counted.
LEMMA NoneAtAll == Cardinality({}) = 0
  BY FS_EmptySet

\* The ready shards launched in one go fit into what the width leaves.
LEMMA LaunchFits ==
  ASSUME NEW R \in SUBSET Shard, NEW room \in Nat \ {0}
  PROVE  Cardinality({s \in R : Cardinality({t \in R : t < s}) < room}) <= room
<1> DEFINE before(s) == {t \in R : t < s}
           T == {s \in R : Cardinality(before(s)) < room}
           rank == [s \in T |-> Cardinality(before(s))]
<1>1. /\ \A s \in R : s \in Int
      /\ \A s \in R : IsFiniteSet(before(s)) /\ Cardinality(before(s)) \in Nat
  <2>1. R \subseteq Shard /\ \A s \in R : before(s) \in SUBSET Shard
    OBVIOUS
  <2>2. QED
    BY <2>1, ShardsAreFinite DEF Shard
<1>2. ASSUME NEW s \in R, NEW t \in R, s < t
      PROVE  Cardinality(before(s)) < Cardinality(before(t))
  <2>1. before(s) \in SUBSET before(t)
    BY <1>1, <1>2
  <2>2. s \in before(t) /\ s \notin before(s)
    BY <1>1, <1>2
  <2>3. Cardinality(before(s)) <= Cardinality(before(t)) /\ Cardinality(before(s)) # Cardinality(before(t))
    <3> HIDE DEF before
    <3>1. QED
      BY <1>1, <2>1, <2>2, FS_Subset
  <2>4. QED
    BY <1>1, <2>3
<1>3. rank \in [T -> 0..(room - 1)]
  <2>1. \A s \in T : Cardinality(before(s)) \in 0..(room - 1)
    BY <1>1
  <2>2. QED
    BY <2>1
<1>4. \A s, t \in T : rank[s] = rank[t] => s = t
  <2> SUFFICES ASSUME NEW s \in T, NEW t \in T, Cardinality(before(s)) = Cardinality(before(t)) PROVE s = t
    OBVIOUS
  <2>1. s \in R /\ t \in R /\ s \in Int /\ t \in Int
    BY <1>1
  <2>2. Cardinality(before(s)) \in Nat /\ Cardinality(before(t)) \in Nat
    BY <1>1, <2>1
  <2>3. ~ (s < t) /\ ~ (t < s)
    BY <1>2, <2>1, <2>2
  <2>4. QED
    BY <2>1, <2>3
<1>5. IsFiniteSet(0..(room - 1)) /\ Cardinality(0..(room - 1)) = room
  <2>1. 0 \in Int /\ room - 1 \in Int /\ ~ (0 > room - 1) /\ (room - 1) - 0 + 1 = room
    OBVIOUS
  <2>2. QED
    BY <2>1, FS_Interval
<1>6. rank \in Injection(T, 0..(room - 1))
  <2> HIDE DEF rank, T
  <2>1. QED
    BY <1>3, <1>4 DEF Injection, IsInjective
<1>7. Cardinality(T) <= room
  <2> HIDE DEF rank, T
  <2>1. QED
    BY <1>5, <1>6, FS_Injection
<1>8. QED
  BY <1>7

\* So a call does not exceed its width by what it launches.
LEMMA LaunchKeepsLimits ==
  ASSUME IInv, LimitsInv, Loop, Launch
  PROVE  LimitsInv'
<1> DEFINE out == {x \in Call \X Shard : task[x[1]][x[2]] = "running"}
<1>1. /\ pc = "loop" /\ pc' = pc /\ call \in Call /\ UNCHANGED <<call, leaked>>
      /\ launchable # {} /\ launchable \subseteq ready
      /\ task' = [task EXCEPT ![call] = [s \in Shard |-> IF s \in launchable THEN "acquire"
                                                         ELSE task[call][s]]]
  BY DEF Loop, Launch, launchable, IInv, PlacesOK
<1>2. task \in [Call -> [Shard -> Live \cup {"none", "ended"}]]
  BY DEF IInv, TypeOK
<1>3. ready \in SUBSET Shard /\ Running \in SUBSET Shard
  BY DEF ready, Running, IInv, TypeOK
<1>4. Cardinality(launchable) <= Width - Cardinality(Running) /\ Cardinality(Running) \in Nat
  <2>1. /\ Width \in Nat /\ Cardinality(Running) \in Nat
        /\ \A s \in ready : Cardinality({t \in ready : t < s}) \in Nat
    <3>1. \A s \in ready : {t \in ready : t < s} \in SUBSET Shard
      BY <1>3
    <3>2. QED
      BY <1>3, <3>1, ShardsAreFinite, ShardAssumption
  <2> DEFINE room == Width - Cardinality(Running)
  <2>2. PICK s \in ready : Cardinality({t \in ready : t < s}) + Cardinality(Running) < Width
    BY <1>1 DEF launchable
  <2>3. room \in Nat \ {0}
    BY <2>1, <2>2
  <2>4. \A t \in ready : LET n == Cardinality({u \in ready : u < t}) IN
                         n + Cardinality(Running) < Width <=> n < room
    BY <2>1
  <2> HIDE DEF room
  <2>5. launchable = {t \in ready : Cardinality({u \in ready : u < t}) < room}
    BY <2>4 DEF launchable
  <2>6. Cardinality(launchable) <= room
    BY <1>3, <2>3, <2>5, LaunchFits
  <2>7. QED
    BY <2>1, <2>6 DEF room
<1> HIDE DEF launchable
<1>5. WidthKept'
  <2>1. \A c \in Call : c # call => task'[c] = task[c]
    BY <1>1, <1>2
  <2>2. {s \in Shard : task'[call][s] \in Live} = Running \cup launchable
    <3>1. \A s \in Shard : task'[call][s] = IF s \in launchable THEN "acquire" ELSE task[call][s]
      BY <1>1, <1>2
    <3>2. launchable \subseteq Shard
      BY <1>1, <1>3
    <3>3. QED
      BY <3>1, <3>2 DEF Running, Live
  <2>3. Cardinality(Running \cup launchable) <= Width
    <3>1. /\ IsFiniteSet(Running) /\ IsFiniteSet(launchable)
          /\ Cardinality(launchable) \in Nat
          /\ Cardinality(Running \cap launchable) \in Nat
      BY <1>1, <1>3, ShardsAreFinite
    <3>2. Cardinality(Running \cup launchable)
            = Cardinality(Running) + Cardinality(launchable) - Cardinality(Running \cap launchable)
      BY <3>1, FS_Union
    <3>3. QED
      BY <1>4, <3>1, <3>2, ShardAssumption
  <2>4. QED
    BY <2>1, <2>2, <2>3 DEF LimitsInv, WidthKept
<1>6. PermitsKept'
  <2>1. {x \in Call \X Shard : task'[x[1]][x[2]] = "running"} \in SUBSET out
    <3>1. \A x \in Call \X Shard : task'[x[1]][x[2]] = "running" => task[x[1]][x[2]] = "running"
      BY <1>1, <1>2
    <3>2. QED
      BY <3>1
  <2>2. IsFiniteSet(out) /\ Cardinality(out) \in Nat
    BY ShardsAreFinite
  <2>3. Permits - leaked - Cardinality(out) >= 0
    BY DEF LimitsInv, PermitsKept, Free
  <2> DEFINE out2 == {x \in Call \X Shard : task'[x[1]][x[2]] = "running"}
  <2>4. Cardinality(out2) <= Cardinality(out) /\ Cardinality(out2) \in Nat
    <3> HIDE DEF out, out2
    <3>1. QED
      BY <2>1, <2>2, FS_Subset, FS_CardinalityType DEF out2
  <2>5. Permits - leaked - Cardinality(out2) >= 0
    <3> HIDE DEF out, out2
    <3>1. QED
      BY <2>2, <2>3, <2>4, ShardAssumption DEF IInv, TypeOK
  <2>6. QED
    BY <1>1, <2>5 DEF PermitsKept, Free
<1>7. QED
  BY <1>1, <1>5, <1>6 DEF LimitsInv, WaitHasWaker

\* A task frees its place in the width, and what it does with a permit it had to get.
LEMMA TaskKeepsLimits ==
  ASSUME IInv, LimitsInv, NEW c \in Call, NEW s \in Shard, Task(c, s)
  PROVE  LimitsInv'
<1> DEFINE out == {x \in Call \X Shard : task[x[1]][x[2]] = "running"}
           out2 == {x \in Call \X Shard : task'[x[1]][x[2]] = "running"}
<1>1. /\ task[c][s] \in Live /\ call' = call
      /\ \A d \in Call, t \in Shard : <<d, t>> # <<c, s>> => task'[d][t] = task[d][t]
  <2>1. task[c][s] \in Live /\ call' = call
    BY DEF Task, PermitGranted, PermitUnavailable, PermitAborted, RunnerThrows, RunnerReturns,
           TaskFrame, Live
  <2>2. QED
    BY <2>1, TaskIsStep, TaskEffects
<1>2. \/ /\ task'[c][s] = "running" /\ Free > 0 /\ leaked' = leaked /\ pc' = pc
      \/ /\ task'[c][s] = "ended"
         /\ leaked' = leaked \/ (Free > 0 /\ leaked' = leaked + 1)
         /\ c = call => pc' # "wait"
  <2>1. ASSUME NEW ok, End(c, s, ok) PROVE task'[c][s] = "ended" /\ (c = call => pc' # "wait")
    <3>1. task'[c][s] = "ended"
      BY <2>1, EndedTask DEF IInv
    <3>2. CASE c = call /\ pc = "wait"
      BY <2>1, <3>1, <3>2 DEF End
    <3>3. CASE c = call /\ pc # "wait"
      BY <2>1, <3>1, <3>3 DEF End, Return
    <3>4. QED
      BY <3>1, <3>2, <3>3
  <2>2. CASE PermitGranted(c, s)
    <3>1. PICK o \in applyTransition(journal, projections[c][s], s, "running") :
            IF o.ok THEN /\ task' = [task EXCEPT ![c][s] = "running"]
                         /\ UNCHANGED <<pc, leaked>>
                    ELSE leaked' = leaked + 1 /\ End(c, s, FALSE)
      BY <2>2 DEF PermitGranted
    <3>2. Free > 0
      BY <2>2 DEF PermitGranted
    <3>3. CASE o.ok
      BY <3>1, <3>2, <3>3 DEF IInv, TypeOK
    <3>4. CASE ~ o.ok
      BY <2>1, <3>1, <3>2, <3>4
    <3>5. QED
      BY <3>3, <3>4
  <2>3. ASSUME PermitUnavailable(c, s) \/ PermitAborted(c, s) \/ RunnerThrows(c, s)
                 \/ \E exit \in {0, 1} : RunnerReturns(c, s, exit)
        PROVE  leaked' = leaked /\ \E ok : End(c, s, ok)
    BY <2>3 DEF PermitUnavailable, PermitAborted, RunnerThrows, RunnerReturns
  <2>4. QED
    BY <2>1, <2>2, <2>3 DEF Task
<1>3. WidthKept'
  <2> SUFFICES ASSUME NEW d \in Call
               PROVE  Cardinality({t \in Shard : task'[d][t] \in Live}) <= Width
    BY DEF WidthKept
  <2> DEFINE live == {t \in Shard : task[d][t] \in Live}
             live2 == {t \in Shard : task'[d][t] \in Live}
  <2>1. live2 \in SUBSET live
    BY <1>1
  <2>2. /\ IsFiniteSet(live) /\ Cardinality(live) \in Nat /\ Cardinality(live) <= Width
        /\ Cardinality(live2) \in Nat
    BY ShardsAreFinite DEF LimitsInv, WidthKept
  <2> HIDE DEF live, live2
  <2>3. Cardinality(live2) <= Cardinality(live)
    BY <2>1, <2>2, FS_Subset
  <2>4. Cardinality(live2) <= Width
    BY <2>2, <2>3, ShardAssumption
  <2>5. QED
    BY <2>4 DEF live2
<1>4. PermitsKept'
  <2>1. /\ IsFiniteSet(out) /\ Cardinality(out) \in Nat /\ Cardinality(out2) \in Nat
        /\ Permits - leaked - Cardinality(out) >= 0
        /\ Free = Permits - leaked - Cardinality(out)
        /\ Free' = Permits - leaked' - Cardinality(out2)
        /\ leaked \in Nat /\ Permits \in Nat
    BY ShardsAreFinite, ShardAssumption DEF LimitsInv, PermitsKept, Free, IInv, TypeOK
  <2>2. out2 \in SUBSET (out \cup {<<c, s>>})
    BY <1>1
  <2>3. task'[c][s] = "ended" => out2 \in SUBSET out
    BY <1>1
  <2> HIDE DEF out, out2
  <2>4. /\ Cardinality(out2) <= Cardinality(out) + 1
        /\ task'[c][s] = "ended" => Cardinality(out2) <= Cardinality(out)
    <3>1. /\ IsFiniteSet(out \cup {<<c, s>>})
          /\ Cardinality(out \cup {<<c, s>>}) \in {Cardinality(out), Cardinality(out) + 1}
      BY <2>1, FS_AddElement
    <3>2. Cardinality(out2) <= Cardinality(out \cup {<<c, s>>})
      BY <2>2, <3>1, FS_Subset
    <3>3. task'[c][s] = "ended" => Cardinality(out2) <= Cardinality(out)
      BY <2>1, <2>3, FS_Subset
    <3>4. QED
      BY <2>1, <3>1, <3>2, <3>3
  <2>5. Permits - leaked' - Cardinality(out2) >= 0
    BY <1>2, <2>1, <2>4
  <2>6. QED
    BY <2>1, <2>5 DEF PermitsKept
<1>5. WaitHasWaker'
  <2> SUFFICES ASSUME pc' = "wait" PROVE \E t \in Shard : task'[call][t] \in Live
    BY <1>1 DEF WaitHasWaker, Running
  <2>1. pc = "wait"
    BY TaskIsStep, TaskEffects
  <2>2. PICK t \in Shard : task[call][t] \in Live
    BY <2>1 DEF LimitsInv, WaitHasWaker, Running
  <2>3. call \in Call
    BY <2>1 DEF IInv, PlacesOK
  <2>4. CASE <<call, t>> # <<c, s>>
    BY <1>1, <2>2, <2>3, <2>4
  <2>5. CASE <<call, t>> = <<c, s>>
    BY <1>2, <2>5 DEF Live
  <2>6. QED
    BY <2>4, <2>5
<1>6. QED
  BY <1>3, <1>4, <1>5 DEF LimitsInv

\* Every step keeps the limits.
LEMMA NextKeepsLimits == IInv /\ LimitsInv /\ [Next]_vars => LimitsInv'
<1> SUFFICES ASSUME IInv, LimitsInv, [Next]_vars PROVE LimitsInv'
  OBVIOUS
<1>1. ASSUME UNCHANGED <<task, leaked>>, pc' = "wait" => Running' # {} PROVE LimitsInv'
  BY <1>1 DEF LimitsInv, WidthKept, PermitsKept, WaitHasWaker, Free
<1>2. CASE \E retryFailed, resumeAborted \in BOOLEAN : executeWorkloadShardPlan(retryFailed, resumeAborted)
  <2>1. UNCHANGED <<task, leaked>> /\ pc' # "wait"
    BY <1>2 DEF executeWorkloadShardPlan, Return
  <2>2. QED
    BY <1>1, <2>1
<1>3. CASE \E s \in Shard : RearmShard(s)
  <2>1. UNCHANGED <<task, leaked>> /\ pc' # "wait"
    BY <1>3 DEF RearmShard, Return
  <2>2. QED
    BY <1>1, <2>1
<1>4. CASE Rearmed \/ Join
  <2>1. UNCHANGED <<task, leaked>> /\ pc' # "wait"
    BY <1>4 DEF Rearmed, Join, Return
  <2>2. QED
    BY <1>1, <2>1
<1>5. CASE Loop
  <2>1. CASE Launch
    BY <1>5, <2>1, LaunchKeepsLimits
  <2>2. CASE WaitTurn
    <3>1. UNCHANGED <<task, leaked, call>> /\ Running # {}
      BY <1>5, <2>2 DEF Loop, WaitTurn
    <3>2. Running' = Running
      BY <3>1 DEF Running
    <3>3. QED
      BY <1>1, <3>1, <3>2
  <2>3. CASE LeaveLoop
    <3>1. UNCHANGED <<task, leaked>> /\ pc' # "wait"
      BY <1>5, <2>3 DEF Loop, LeaveLoop
    <3>2. QED
      BY <1>1, <3>1
  <2>4. QED
    BY <1>5, <2>1, <2>2, <2>3 DEF Loop
<1>6. CASE Abort \/ UNCHANGED vars
  <2>1. UNCHANGED <<task, leaked, call, pc>>
    BY <1>6 DEF Abort, vars
  <2>2. Running' = Running
    BY <2>1 DEF Running
  <2>3. QED
    BY <1>1, <2>1, <2>2 DEF LimitsInv, WaitHasWaker
<1>7. CASE Crash
  <2>1. /\ task' = [c \in Call |-> [s \in Shard |-> "none"]] /\ leaked' = 0 /\ pc' = "idle"
    BY <1>7 DEF Crash
  <2>2. \A c \in Call : {s \in Shard : task'[c][s] \in Live} = {}
    BY <2>1 DEF Live
  <2>3. {x \in Call \X Shard : task'[x[1]][x[2]] = "running"} = {}
    BY <2>1
  <2>4. WidthKept'
    <3> SUFFICES ASSUME NEW c \in Call
                 PROVE  Cardinality({s \in Shard : task'[c][s] \in Live}) <= Width
      BY DEF WidthKept
    <3>1. Cardinality({s \in Shard : task'[c][s] \in Live}) = 0
      BY <2>2, NoneAtAll
    <3>2. QED
      BY <3>1, ShardAssumption
  <2>5. Free' = Permits
    BY <2>1, <2>3, NoneAtAll, ShardAssumption DEF Free
  <2>6. QED
    BY <2>1, <2>4, <2>5, ShardAssumption DEF LimitsInv, PermitsKept, WaitHasWaker
<1>8. CASE \E c \in Call, s \in Shard : Task(c, s)
  BY <1>8, TaskKeepsLimits
<1>9. QED
  BY <1>2, <1>3, <1>4, <1>5, <1>6, <1>7, <1>8 DEF Next, Executor

\* Over all calls, also the tasks that outlive theirs and the permits that a failing
\* append loses, no call has more shards under way than its width and no more permits
\* are out than the pool has; and a call never waits for a task that nobody runs.
THEOREM LimitsAreKept == Spec => [](WidthKept /\ PermitsKept /\ WaitHasWaker)
<1>1. Init => LimitsInv
  <2> SUFFICES ASSUME Init PROVE LimitsInv
    OBVIOUS
  <2>1. task = [c \in Call |-> [s \in Shard |-> "none"]] /\ leaked = 0 /\ pc = "idle"
    BY DEF Init
  <2>2. \A c \in Call : {s \in Shard : task[c][s] \in Live} = {}
    BY <2>1 DEF Live
  <2>3. {x \in Call \X Shard : task[x[1]][x[2]] = "running"} = {}
    BY <2>1
  <2>4. Free = Permits
    BY <2>1, <2>3, NoneAtAll, ShardAssumption DEF Free
  <2>5. QED
    BY <2>1, <2>2, <2>4, NoneAtAll, ShardAssumption DEF LimitsInv, WidthKept, PermitsKept, WaitHasWaker
<1>2. LimitsInv => WidthKept /\ PermitsKept /\ WaitHasWaker
  BY DEF LimitsInv
<1>3. QED
  BY <1>1, <1>2, NextKeepsLimits, Invariant, PTL DEF Spec

===============================================================================
