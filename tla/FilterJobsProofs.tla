-------------------------- MODULE FilterJobsProofs ---------------------------
(***************************************************************************)
(* Theorems about FilterJobs, for any finite set of jobs and any number of *)
(* slots.  First what a step does to the slots and the line, which is all  *)
(* the refinement of SlotQueue needs; then the job list.                   *)
(***************************************************************************)
EXTENDS FilterJobs, FiniteSetTheorems, SequenceTheorems, TLAPS

(***************************************************************************)
(* The slots and the line.                                                 *)
(***************************************************************************)
\* A slot is free, on its way to a woken waiter, or held by a counted job; the
\* deque holds each waiting coroutine once; and value is left over beside a
\* waiter only while another one is on its way.
QueueInv ==
  /\ slots + wakened + runningCount = MaxParallel
  /\ runningCount = Cardinality(Holders)
  /\ wakened <= Len(waiters)
  /\ \A i \in 1..Len(waiters) : co[waiters[i]] = "waiting"
  /\ \A i, k \in 1..Len(waiters) : waiters[i] = waiters[k] => i = k
  /\ NoIdleSlot

\* What a step does to them: nothing, ...
Still ==
  /\ UNCHANGED <<slots, waiters, wakened, runningCount>>
  /\ \A k \in Jobs : co[k] = "waiting" <=> co'[k] = "waiting"
  /\ \A k \in Jobs : co[k] \in Executing <=> co'[k] \in Executing

\* ... a job walks in, ...
WalksIn(j) ==
  /\ co[j] \in {"accepted", "queueing"} /\ slots > 0 /\ waiters = <<>>
  /\ slots' = slots - 1 /\ runningCount' = runningCount + 1
  /\ UNCHANGED <<waiters, wakened>>
  /\ \E pc \in {"starting", "closing"} : co' = [co EXCEPT ![j] = pc]

\* ... gets in line, ...
LinesUp(j) ==
  /\ co[j] \in {"accepted", "queueing"} /\ Locked
  /\ waiters' = Append(waiters, j)
  /\ UNCHANGED <<slots, wakened, runningCount>>
  /\ co' = [co EXCEPT ![j] = "waiting"]

\* ... comes to the front, ...
IsCalled(j) ==
  /\ wakened > 0 /\ j = Head(waiters)
  /\ LeaveDeque
  /\ runningCount' = runningCount + 1
  /\ \E pc \in {"starting", "closing"} : co' = [co EXCEPT ![j] = pc]

\* ... or leaves.
GoesOut(j) ==
  /\ co[j] = "closing"
  /\ Release
  /\ runningCount' = runningCount - 1
  /\ co' = [co EXCEPT ![j] = "ended"]

AllGone ==
  /\ slots' = MaxParallel /\ waiters' = <<>> /\ wakened' = 0 /\ runningCount' = 0
  /\ \A k \in Jobs : co'[k] \in {"none", "dead"}

LEMMA HoldersFinite == IsFiniteSet(Holders) /\ Cardinality(Holders) \in Nat
BY JobsAssumption, FS_Subset, FS_CardinalityType DEF Holders

\* The first stretch of _execute_job is a step to where the pipeline begins, or to
\* the end of the "async with" at once.
LEMMA ExecuteGoes ==
  ASSUME NEW j \in Jobs, Execute(j)
  PROVE  /\ runningCount' = runningCount + 1
         /\ \E pc \in {"starting", "closing"} : co' = [co EXCEPT ![j] = pc]
BY DEF Execute, Leave, Goto

LEMMA StepEffect ==
  ASSUME TypeOK, [Next]_vars
  PROVE  \/ Still
         \/ \E j \in Jobs : WalksIn(j) \/ LinesUp(j) \/ IsCalled(j) \/ GoesOut(j)
         \/ AllGone
<1> USE DEF TypeOK, Goto, queueVars, coVars
<1>1. ASSUME NEW j \in Jobs, CreateJob(j) PROVE Still
  BY <1>1 DEF CreateJob, Still, Executing
<1>2. ASSUME NEW j \in Jobs, Created(j) PROVE Still
  BY <1>2 DEF Created, Leave, Still, Executing
<1>3. ASSUME NEW j \in Jobs, Queue(j) PROVE Still
  BY <1>3 DEF Queue, Leave, Still, Executing
<1>4. ASSUME NEW j \in Jobs, RunJob(j) PROVE WalksIn(j) \/ LinesUp(j)
  BY <1>4, ExecuteGoes DEF RunJob, Acquire, Locked, WalksIn, LinesUp
<1>5. ASSUME NEW j \in Jobs, Resume(j) PROVE IsCalled(j)
  BY <1>5, ExecuteGoes DEF Resume, IsCalled
<1>6. ASSUME NEW j \in Jobs, MakeDirs(j) \/ NoDirs(j) PROVE Still
  BY <1>6 DEF MakeDirs, NoDirs, Still, Executing
<1>7. ASSUME NEW j \in Jobs, StartCommand(j) \/ CommandDone(j) PROVE Still
  BY <1>7 DEF StartCommand, CommandDone, Still, Executing
<1>15. ASSUME NEW j \in Jobs, StartHelper(j) \/ HelperEnds(j) PROVE Still
  BY <1>15 DEF StartHelper, HelperEnds, HelperDone, HelperFails, Still, Executing
<1>8. ASSUME NEW j \in Jobs, Fail(j) \/ Finish(j) PROVE Still
  BY <1>8 DEF Fail, Finish, Still, Executing
<1>9. ASSUME NEW j \in Jobs, Close(j) PROVE GoesOut(j)
  BY <1>9 DEF Close, GoesOut
<1>10. ASSUME NEW j \in Jobs, ProcessEnds(j) PROVE Still
  BY <1>10 DEF ProcessEnds, Still
<1>11. ASSUME NEW j \in Jobs, CancelJob(j) PROVE Still
  BY <1>11 DEF CancelJob, Still
<1>12. CASE ClearBuild \/ ClearSwap \/ ClearPersist
  BY <1>12 DEF ClearBuild, ClearSwap, ClearPersist, Still
<1>13. CASE Restart
  BY <1>13 DEF Restart, AllGone
<1>14. CASE UNCHANGED vars
  BY <1>14 DEF vars, Still
<1> QED
  BY <1>1, <1>2, <1>3, <1>4, <1>5, <1>6, <1>7, <1>8, <1>9, <1>10, <1>11, <1>12, <1>13, <1>14,
     <1>15 DEF Next, Advance

LEMMA HoldersAfter ==
  ASSUME TypeOK, NEW j \in Jobs
  PROVE  /\ Still => Holders' = Holders
         /\ WalksIn(j) => j \notin Holders /\ Holders' = Holders \union {j}
         /\ LinesUp(j) => Holders' = Holders
         /\ GoesOut(j) => j \in Holders /\ Holders' = Holders \ {j}
         /\ AllGone => Holders' = {}
         /\ IsCalled(j) /\ co[j] = "waiting"
              => j \notin Holders /\ Holders' = Holders \union {j}
<1>1. Still => Holders' = Holders
  BY DEF Still, Holders
<1>2. WalksIn(j) => j \notin Holders /\ Holders' = Holders \union {j}
  BY DEF TypeOK, WalksIn, Holders, Executing
<1>3. LinesUp(j) => Holders' = Holders
  BY DEF TypeOK, LinesUp, Holders, Executing
<1>4. GoesOut(j) => j \in Holders /\ Holders' = Holders \ {j}
  BY DEF TypeOK, GoesOut, Holders, Executing
<1>5. AllGone => Holders' = {}
  BY DEF AllGone, Holders, Executing
<1>6. IsCalled(j) /\ co[j] = "waiting"
        => j \notin Holders /\ Holders' = Holders \union {j}
  BY DEF TypeOK, IsCalled, Holders, Executing
<1> QED
  BY <1>1, <1>2, <1>3, <1>4, <1>5, <1>6

\* Everything about the deque that the arithmetic of its places needs.
LEMMA FrontIsWaiting ==
  ASSUME TypeOK, QueueInv, NEW j \in Jobs, IsCalled(j)
  PROVE  /\ waiters # <<>> /\ j = waiters[1] /\ co[j] = "waiting"
         /\ Tail(waiters) \in Seq(Jobs) /\ Len(Tail(waiters)) = Len(waiters) - 1
         /\ \A i \in 1..Len(Tail(waiters)) : Tail(waiters)[i] = waiters[i+1]
<1>1. Len(waiters) > 0 /\ waiters # <<>>
  BY LenProperties DEF TypeOK, QueueInv, IsCalled
<1>2. Head(waiters) = waiters[1]
  BY <1>1
<1> QED
  BY <1>1, <1>2, HeadTailProperties DEF TypeOK, QueueInv, IsCalled

\* The new places, slots and counts after the front waiter has gone on.
LEMMA AfterCall ==
  ASSUME TypeOK, QueueInv, NEW j \in Jobs, IsCalled(j)
  PROVE  /\ slots' \in Nat /\ wakened' \in Nat /\ waiters' \in Seq(Jobs)
         /\ slots' + wakened' = slots + wakened - 1
         /\ wakened' <= Len(waiters')
         /\ slots' > 0 => wakened' = Len(waiters')
<1>1. Len(waiters) \in Nat /\ wakened <= Len(waiters) /\ wakened > 0
  BY LenProperties DEF TypeOK, QueueInv, IsCalled
<1>2. slots \in Nat /\ wakened \in Nat
  BY DEF TypeOK
<1>3. PICK more \in Nat :
        /\ more <= slots /\ more <= Len(waiters) - wakened
        /\ more = slots \/ more = Len(waiters) - wakened
        /\ wakened' = (wakened + more) - 1
        /\ slots' = slots - more
  <2>1. LeaveDeque
    BY DEF IsCalled
  <2>2. CASE slots < Len(waiters) - wakened
    <3>1. wakened' = (wakened + slots) - 1 /\ slots' = slots - slots
      BY <2>1, <2>2 DEF LeaveDeque
    <3> QED
      BY <1>1, <1>2, <2>2, <3>1
  <2>3. CASE ~ (slots < Len(waiters) - wakened)
    <3>1. /\ wakened' = (wakened + (Len(waiters) - wakened)) - 1
          /\ slots' = slots - (Len(waiters) - wakened)
      BY <2>1, <2>3 DEF LeaveDeque
    <3>2. Len(waiters) - wakened \in Nat /\ Len(waiters) - wakened <= slots
      BY <1>1, <1>2, <2>3
    <3> QED
      BY <3>1, <3>2
  <2> QED
    BY <2>2, <2>3
<1>4. waiters' = Tail(waiters)
  BY DEF IsCalled, LeaveDeque
<1>5. waiters' \in Seq(Jobs) /\ Len(waiters') = Len(waiters) - 1
  BY <1>4, FrontIsWaiting
<1> HIDE DEF LeaveDeque
<1> QED
  BY <1>1, <1>2, <1>3, <1>5

LEMMA QueueStep ==
  ASSUME TypeOK, QueueInv, [Next]_vars
  PROVE  /\ QueueInv'
         /\ slots' \in Nat /\ wakened' \in Nat /\ runningCount' \in Nat
         /\ waiters' \in Seq(Jobs)
<1> DEFINE Goal == /\ QueueInv'
                   /\ slots' \in Nat /\ wakened' \in Nat /\ runningCount' \in Nat
                   /\ waiters' \in Seq(Jobs)
<1> SUFFICES Goal
  OBVIOUS
<1>a. /\ slots \in Nat /\ wakened \in Nat /\ runningCount \in Nat
      /\ waiters \in Seq(Jobs) /\ Len(waiters) \in Nat
      /\ \A i \in 1..Len(waiters) : waiters[i] \in Jobs
  BY LenProperties, ElementOfSeq DEF TypeOK
<1>b. co \in [Jobs -> Alive \union Over \union {"none"}]
  BY DEF TypeOK
<1>1. CASE Still
  <2>1. Holders' = Holders
    BY <1>1 DEF Still, Holders
  <2> QED
    BY <1>a, <1>1, <2>1 DEF QueueInv, Still, NoIdleSlot
<1>2. ASSUME NEW j \in Jobs, WalksIn(j) PROVE Goal
  <2>1. runningCount' = Cardinality(Holders')
    BY <1>2, <1>a, HoldersAfter, HoldersFinite, FS_AddElement DEF QueueInv, WalksIn
  <2>2. \A k \in Jobs : co[k] = "waiting" => co'[k] = "waiting"
    BY <1>2, <1>b DEF WalksIn
  <2> QED
    BY <1>2, <1>a, <2>1, <2>2 DEF QueueInv, WalksIn, NoIdleSlot
<1>3. ASSUME NEW j \in Jobs, LinesUp(j) PROVE Goal
  <2>1. Holders' = Holders
    BY <1>3, HoldersAfter
  <2>2. /\ waiters' \in Seq(Jobs) /\ Len(waiters') = Len(waiters) + 1
        /\ \A i \in 1..Len(waiters) : waiters'[i] = waiters[i]
        /\ waiters'[Len(waiters) + 1] = j
    BY <1>3, <1>a, AppendProperties DEF LinesUp
  <2>3. \A i \in 1..Len(waiters) : waiters[i] # j
    BY <1>3 DEF LinesUp, QueueInv
  <2>4. \A k \in Jobs : co'[k] = IF k = j THEN "waiting" ELSE co[k]
    BY <1>3, <1>b DEF LinesUp
  <2>5. \A i \in 1..Len(waiters') : co'[waiters'[i]] = "waiting"
    BY <1>a, <2>2, <2>4 DEF QueueInv
  <2>6. \A i, k \in 1..Len(waiters') : waiters'[i] = waiters'[k] => i = k
    BY SMTT(30), <1>a, <2>2, <2>3 DEF QueueInv
  <2>7. NoIdleSlot'
    <3>1. slots = 0 \/ waiters # <<>>
      BY <1>3 DEF LinesUp, Locked
    <3> QED
      BY <1>3, <3>1, <1>a DEF LinesUp, QueueInv, NoIdleSlot
  <2>8. UNCHANGED <<slots, wakened, runningCount>>
    BY <1>3 DEF LinesUp
  <2> QED
    BY <1>a, <2>1, <2>2, <2>5, <2>6, <2>7, <2>8 DEF QueueInv
<1>4. ASSUME NEW j \in Jobs, IsCalled(j) PROVE Goal
  <2>1. /\ runningCount' = runningCount + 1
        /\ runningCount' = Cardinality(Holders')
    <3>1. co[j] = "waiting"
      BY <1>4, FrontIsWaiting
    <3>2. j \notin Holders /\ Holders' = Holders \union {j}
      BY <1>4, <3>1, HoldersAfter
    <3>3. Cardinality(Holders') = Cardinality(Holders) + 1
      BY <3>2, HoldersFinite, FS_AddElement
    <3>4. runningCount' = runningCount + 1
      BY <1>4 DEF IsCalled
    <3> QED
      BY <3>3, <3>4 DEF QueueInv
  <2>2. /\ slots' \in Nat /\ wakened' \in Nat /\ waiters' \in Seq(Jobs)
        /\ slots' + wakened' = slots + wakened - 1
        /\ wakened' <= Len(waiters')
        /\ slots' > 0 => wakened' = Len(waiters')
    BY <1>4, AfterCall
  <2>3. /\ Len(waiters') = Len(waiters) - 1
        /\ \A i \in 1..Len(waiters') : waiters'[i] = waiters[i+1]
        /\ j = waiters[1]
    BY <1>4, FrontIsWaiting DEF IsCalled, LeaveDeque
  <2>4. \A k \in Jobs : k # j => co'[k] = co[k]
    BY <1>4, <1>b DEF IsCalled
  <2>5. \A i \in 1..Len(waiters') : i + 1 \in 1..Len(waiters) /\ waiters[i+1] # j
    BY <1>a, <2>3 DEF QueueInv
  <2>6. \A i \in 1..Len(waiters') : co'[waiters'[i]] = "waiting"
    <3> SUFFICES ASSUME NEW i \in 1..Len(waiters') PROVE co'[waiters'[i]] = "waiting"
      OBVIOUS
    <3>1. i + 1 \in 1..Len(waiters) /\ waiters'[i] = waiters[i+1] /\ waiters[i+1] # j
      BY <2>3, <2>5
    <3>2. waiters[i+1] \in Jobs /\ co[waiters[i+1]] = "waiting"
      BY <1>a, <3>1 DEF QueueInv
    <3> QED
      BY <2>4, <3>1, <3>2
  <2>7. \A i, k \in 1..Len(waiters') : waiters'[i] = waiters'[k] => i = k
    <3> SUFFICES ASSUME NEW i \in 1..Len(waiters'), NEW k \in 1..Len(waiters'),
                        waiters'[i] = waiters'[k]
                 PROVE  i = k
      OBVIOUS
    <3>1. i + 1 \in 1..Len(waiters) /\ k + 1 \in 1..Len(waiters)
      BY <2>5
    <3>2. waiters[i+1] = waiters[k+1]
      BY <2>3
    <3>3. i + 1 = k + 1
      BY <3>1, <3>2 DEF QueueInv
    <3>4. Len(waiters') \in Nat
      BY <1>a, <2>2, LenProperties
    <3> QED
      BY <3>3, <3>4
  <2>8. NoIdleSlot'
    BY <2>2, LenProperties DEF NoIdleSlot
  <2>9. slots' + wakened' + runningCount' = MaxParallel
    <3>1. slots + wakened + runningCount = MaxParallel
      BY DEF QueueInv
    <3>2. runningCount' = runningCount + 1
      BY <2>1
    <3>3. slots' + wakened' = slots + wakened - 1 /\ slots' \in Nat /\ wakened' \in Nat
      BY <2>2
    <3>4. slots \in Nat /\ wakened \in Nat /\ runningCount \in Nat
      BY <1>a
    <3>5. slots' + wakened' + runningCount' = (slots + wakened - 1) + (runningCount + 1)
      BY <3>2, <3>3
    <3>6. (slots + wakened - 1) + (runningCount + 1) = slots + wakened + runningCount
      BY <3>4
    <3> QED
      BY <3>1, <3>5, <3>6
  <2> QED
    <3>1. QueueInv'
      BY <2>1, <2>2, <2>6, <2>7, <2>8, <2>9 DEF QueueInv
    <3>2. runningCount' \in Nat
      BY <1>a, <2>1
    <3> QED
      BY <2>2, <3>1, <3>2
<1>5. ASSUME NEW j \in Jobs, GoesOut(j) PROVE Goal
  <2>1. /\ runningCount' = Cardinality(Holders')
        /\ runningCount' = runningCount - 1 /\ runningCount' \in Nat
    <3>1. j \in Holders /\ Holders' = Holders \ {j}
      BY <1>5, HoldersAfter
    <3>2. Cardinality(Holders') = Cardinality(Holders) - 1 /\ IsFiniteSet(Holders')
      BY <3>1, HoldersFinite, FS_RemoveElement
    <3>3. Cardinality(Holders') \in Nat
      BY <3>2, FS_CardinalityType
    <3> QED
      BY <1>5, <3>2, <3>3 DEF QueueInv, GoesOut
  <2>2. \A k \in Jobs : co[k] = "waiting" => co'[k] = "waiting"
    BY <1>5, <1>b DEF GoesOut
  <2>3. CASE wakened < Len(waiters)
    <3>1. wakened' = wakened + 1 /\ UNCHANGED <<slots, waiters>>
      BY <1>5, <2>3 DEF GoesOut, Release
    <3> QED
      BY <1>a, <2>1, <2>2, <2>3, <3>1 DEF QueueInv, NoIdleSlot
  <2>4. CASE ~ (wakened < Len(waiters))
    <3>1. slots' = slots + 1 /\ UNCHANGED <<wakened, waiters>>
      BY <1>5, <2>4 DEF GoesOut, Release
    <3>2. NoIdleSlot'
      BY <1>a, <2>4, <3>1 DEF NoIdleSlot
    <3>3. slots' + wakened' + runningCount' = MaxParallel
      <4>1. slots + wakened + runningCount = MaxParallel
        BY DEF QueueInv
      <4> QED
        BY <1>a, <2>1, <3>1, <4>1
    <3>4. \A i \in 1..Len(waiters') : co'[waiters'[i]] = "waiting"
      <4>1. \A i \in 1..Len(waiters) : waiters[i] \in Jobs /\ co[waiters[i]] = "waiting"
        BY <1>a DEF QueueInv
      <4> QED
        BY <2>2, <3>1, <4>1
    <3>5. wakened' <= Len(waiters') /\ \A i, k \in 1..Len(waiters') : waiters'[i] = waiters'[k] => i = k
      BY <3>1 DEF QueueInv
    <3>6. QueueInv'
      BY <2>1, <3>2, <3>3, <3>4, <3>5 DEF QueueInv
    <3> QED
      BY <1>a, <2>1, <3>1, <3>6
  <2> QED
    BY <2>3, <2>4
<1>6. CASE AllGone
  <2>1. Holders' = {}
    BY <1>6 DEF AllGone, Holders, Executing
  <2>2. Cardinality({}) = 0
    BY FS_EmptySet
  <2> QED
    BY <1>6, <2>1, <2>2, SlotsAssumption DEF AllGone, QueueInv, NoIdleSlot
<1> QED
  BY <1>1, <1>2, <1>3, <1>4, <1>5, <1>6, StepEffect

(***************************************************************************)
(* The job list.                                                           *)
(***************************************************************************)
\* What the list, the coroutine, the process and the manifest of one job say
\* to each other.
JobInv(j) ==
  /\ proc[j] # "none" => co[j] = "command"
  /\ j \in listed /\ status[j] \in InFlight => co[j] \in Alive \/ j \in stranded
  /\ co[j] = "closing" => status[j] \notin InFlight \/ j \in stranded
  /\ status[j] \in Succeeded \/ manifest[j].status \in Succeeded
       => co[j] \in {"closing"} \union Over
  /\ j \in listed /\ co[j] \in Over /\ ~unsaved
       => manifest[j] = [status |-> status[j], cancelled |-> cancelled[j]]
  /\ j \in failedOnce
       => /\ co[j] \in {"closing"} \union Over \/ (co[j] = "command" /\ proc[j] = "failed")
          /\ status[j] \notin Succeeded
          /\ manifest[j].status \notin Succeeded

ListInv ==
  /\ \A j \in Jobs : JobInv(j)
  /\ clear.kept \subseteq listed

Inv == TypeOK /\ QueueInv /\ ListInv

\* What the file says of a job when a step has written it ...
Written(j) == manifest'[j] = IF j \in listed'
                               THEN [status |-> status'[j], cancelled |-> cancelled'[j]]
                               ELSE Absent

\* ... and what it says when it may not have.
Recorded(j) == Written(j) \/ (manifest'[j] = manifest[j] /\ (unsaved => unsaved'))

\* However a write goes, it takes place or it does not.
LEMMA WriteOutcomes ==
  ASSUME NEW S, faults \in Nat,
         Persist \/ PersistOrRaise \/ BreaksOff(S) \/ (Saved /\ Fault)
  PROVE  (Saved \/ NotSaved) /\ faults' \in Nat
BY DEF Persist, PersistOrRaise, BreaksOff, Fault

LEMMA WriteEffect ==
  ASSUME Saved \/ NotSaved, NEW j \in Jobs
  PROVE  Recorded(j)
<1>1. CASE Saved
  BY <1>1 DEF Saved, Recorded, Written
<1>2. CASE NotSaved
  BY <1>2 DEF NotSaved, Recorded
<1> QED
  BY <1>1, <1>2

LEMMA WriteType ==
  ASSUME Saved \/ NotSaved,
         manifest \in [Jobs -> [status : Statuses \union {"none"}, cancelled : BOOLEAN]],
         status' \in [Jobs -> Statuses \union {"none"}],
         cancelled' \in [Jobs -> BOOLEAN]
  PROVE  /\ manifest' \in [Jobs -> [status : Statuses \union {"none"}, cancelled : BOOLEAN]]
         /\ unsaved' \in BOOLEAN
<1>1. CASE Saved
  BY <1>1 DEF Saved, Absent
<1>2. CASE NotSaved
  BY <1>2 DEF NotSaved
<1> QED
  BY <1>1, <1>2

\* The parts of the steps that write.
LEMMA CreatedWrites ==
  ASSUME NEW j \in Jobs, Created(j), faults \in Nat
  PROVE  /\ (Saved \/ NotSaved) /\ faults' \in Nat
         /\ \/ co' = [co EXCEPT ![j] = "accepted"] /\ UNCHANGED stranded
            \/ co' = [co EXCEPT ![j] = "ended"] /\ stranded' = stranded \union {j}
                 /\ NotSaved
<1>1. (Saved \/ NotSaved) /\ faults' \in Nat
  BY WriteOutcomes DEF Created
<1> QED
  BY <1>1 DEF Created, Leave, Goto, BreaksOff

LEMMA QueueWrites ==
  ASSUME NEW j \in Jobs, Queue(j), faults \in Nat
  PROVE  /\ (Saved \/ NotSaved) /\ faults' \in Nat
         /\ \/ co' = [co EXCEPT ![j] = "queueing"] /\ UNCHANGED stranded
            \/ co' = [co EXCEPT ![j] = "ended"] /\ stranded' = stranded \union {j}
                 /\ NotSaved
<1>1. (Saved \/ NotSaved) /\ faults' \in Nat
  BY WriteOutcomes DEF Queue
<1> QED
  BY <1>1 DEF Queue, Leave, Goto, BreaksOff

LEMMA ExecuteWrites ==
  ASSUME NEW j \in Jobs, Execute(j), faults \in Nat
  PROVE  /\ (Saved \/ NotSaved) /\ faults' \in Nat
         /\ UNCHANGED <<listed, cancelled>>
         /\ status' = [status EXCEPT ![j] = "running"]
         /\ \/ co' = [co EXCEPT ![j] = "starting"] /\ UNCHANGED stranded
            \/ co' = [co EXCEPT ![j] = "closing"] /\ stranded' = stranded \union {j}
<1>1. (Saved \/ NotSaved) /\ faults' \in Nat
  BY WriteOutcomes DEF Execute
<1> QED
  BY <1>1 DEF Execute, Leave, Goto, SetStatus

LEMMA TypeStep ==
  ASSUME TypeOK, QueueInv, [Next]_vars
  PROVE  TypeOK'
<1>a. /\ slots' \in Nat /\ wakened' \in Nat /\ runningCount' \in Nat
      /\ waiters' \in Seq(Jobs)
  BY QueueStep
<1> DEFINE Rest ==
      /\ listed \subseteq Jobs
      /\ status \in [Jobs -> Statuses \union {"none"}]
      /\ cancelled \in [Jobs -> BOOLEAN]
      /\ co \in [Jobs -> Alive \union Over \union {"none"}]
      /\ proc \in [Jobs -> {"none", "running", "zero", "failed"}]
      /\ commands \in [Jobs -> Nat]
      /\ manifest \in [Jobs -> [status : Statuses \union {"none"}, cancelled : BOOLEAN]]
      /\ clear \in [at : {"idle", "built", "swapped"}, kept : SUBSET Jobs]
      /\ failedOnce \subseteq Jobs
      /\ stranded \subseteq Jobs
      /\ unsaved \in BOOLEAN
      /\ faults \in Nat
      /\ restarts \in Nat
<1>b. Rest
  BY DEF TypeOK
<1> SUFFICES Rest'
  BY <1>a DEF TypeOK
<1> USE <1>b DEF SetStatus, Goto, Alive, Executing, Over, Statuses, InFlight, Succeeded,
        coVars, queueVars, listVars, fileVars
<1>1. ASSUME NEW j \in Jobs, CreateJob(j) PROVE Rest'
  BY <1>1 DEF CreateJob
<1>2. ASSUME NEW j \in Jobs, Created(j) PROVE Rest'
  BY <1>2, CreatedWrites, WriteType DEF Created
<1>3. ASSUME NEW j \in Jobs, Queue(j) PROVE Rest'
  BY <1>3, QueueWrites, WriteType DEF Queue
<1>4. ASSUME NEW j \in Jobs, RunJob(j) PROVE Rest'
  <2>1. CASE Execute(j)
    BY <1>4, <2>1, ExecuteWrites, WriteType DEF RunJob
  <2>2. CASE ~ Execute(j)
    BY <1>4, <2>2 DEF RunJob, Acquire
  <2> QED
    BY <2>1, <2>2
<1>5. ASSUME NEW j \in Jobs, Resume(j) PROVE Rest'
  BY <1>5, ExecuteWrites, WriteType DEF Resume
<1>6. ASSUME NEW j \in Jobs, MakeDirs(j) \/ NoDirs(j) PROVE Rest'
  BY <1>6 DEF MakeDirs, NoDirs
<1>7. ASSUME NEW j \in Jobs, StartCommand(j) \/ CommandDone(j) PROVE Rest'
  <2>1. CASE StartCommand(j)
    BY <2>1 DEF StartCommand
  <2>2. CASE CommandDone(j)
    <3>1. commands' \in [Jobs -> Nat]
      BY <2>2 DEF CommandDone
    <3> QED
      BY <2>2, <3>1 DEF CommandDone
  <2> QED
    BY <1>7, <2>1, <2>2
<1>8. ASSUME NEW j \in Jobs, Fail(j) PROVE Rest'
  <2>1. (Saved \/ NotSaved) /\ faults' \in Nat
    BY <1>8, WriteOutcomes DEF Fail
  <2> QED
    BY <1>8, <2>1, WriteType DEF Fail
<1>9. ASSUME NEW j \in Jobs, Finish(j) PROVE Rest'
  <2>1. (Saved \/ NotSaved) /\ faults' \in Nat
    BY <1>9, WriteOutcomes DEF Finish
  <2> QED
    BY <1>9, <2>1, WriteType DEF Finish
<1>10. ASSUME NEW j \in Jobs, Close(j) PROVE Rest'
  <2>1. (Saved \/ NotSaved) /\ faults' \in Nat
    BY <1>10, WriteOutcomes DEF Close
  <2> QED
    BY <1>10, <2>1, WriteType DEF Close
<1>17. ASSUME NEW j \in Jobs, StartHelper(j) \/ HelperDone(j) PROVE Rest'
  <2>1. CASE StartHelper(j)
    BY <2>1 DEF StartHelper
  <2>2. CASE HelperDone(j)
    <3>1. commands' \in [Jobs -> Nat]
      BY <2>2 DEF HelperDone
    <3> QED
      BY <2>2, <3>1 DEF HelperDone
  <2> QED
    BY <1>17, <2>1, <2>2
<1>18. ASSUME NEW j \in Jobs, HelperFails(j) PROVE Rest'
  <2>1. (Saved \/ NotSaved) /\ faults' \in Nat
    BY <1>18, WriteOutcomes DEF HelperFails
  <2> QED
    BY <1>18, <2>1, WriteType DEF HelperFails
<1>11. ASSUME NEW j \in Jobs, ProcessEnds(j) PROVE Rest'
  BY <1>11 DEF ProcessEnds
<1>12. ASSUME NEW j \in Jobs, CancelJob(j) PROVE Rest'
  <2>1. /\ proc' \in [Jobs -> {"none", "running", "zero", "failed"}]
        /\ failedOnce' \subseteq Jobs
    BY <1>12 DEF CancelJob, Kill
  <2>2. CASE j \in listed /\ status[j] = "running"
    <3>1. /\ status' \in [Jobs -> Statuses \union {"none"}]
          /\ cancelled' \in [Jobs -> BOOLEAN]
          /\ (Saved \/ NotSaved) /\ faults' \in Nat
      <4>1. /\ status' = [status EXCEPT ![j] = "error"]
            /\ cancelled' = [cancelled EXCEPT ![j] = TRUE]
            /\ PersistOrRaise
        BY <1>12, <2>2 DEF CancelJob, MarkCancelled
      <4>2. cancelled' \in [Jobs -> BOOLEAN]
        BY <4>1, Zenon
      <4> QED
        BY <4>1, <4>2, WriteOutcomes
    <3>2. /\ manifest' \in [Jobs -> [status : Statuses \union {"none"}, cancelled : BOOLEAN]]
          /\ unsaved' \in BOOLEAN
      BY <3>1, WriteType
    <3> QED
      BY <1>12, <2>1, <2>2, <3>1, <3>2 DEF CancelJob, MarkCancelled
  <2>3. CASE ~ (j \in listed /\ status[j] = "running")
    BY <1>12, <2>1, <2>3 DEF CancelJob, MarkCancelled
  <2> QED
    BY <2>2, <2>3
<1>13. CASE ClearBuild \/ ClearSwap
  BY <1>13 DEF ClearBuild, ClearSwap
<1>14. CASE ClearPersist
  <2>1. (Saved \/ NotSaved) /\ faults' \in Nat
    BY <1>14, WriteOutcomes DEF ClearPersist
  <2> QED
    BY <1>14, <2>1, WriteType DEF ClearPersist, NotClearing
<1>15. CASE Restart
  <2>1. /\ status' \in [Jobs -> Statuses \union {"none"}]
        /\ cancelled' \in [Jobs -> BOOLEAN]
    BY <1>15 DEF Restart, Recovered
  <2>2. (Saved \/ NotSaved) /\ faults' \in Nat
    BY <1>15, WriteOutcomes DEF Restart
  <2> QED
    BY <1>15, <2>1, <2>2, WriteType DEF Restart, NotClearing
<1>16. CASE UNCHANGED vars
  BY <1>16 DEF vars
<1> QED
  BY <1>1, <1>2, <1>3, <1>4, <1>5, <1>6, <1>7, <1>8, <1>9, <1>10, <1>11, <1>12, <1>13,
     <1>14, <1>15, <1>16, <1>17, <1>18 DEF Next, Advance, HelperEnds

\* A job the step is not about keeps its invariant, recorded or not.
LEMMA OtherJob ==
  ASSUME TypeOK, NEW k \in Jobs, JobInv(k),
         status'[k] = status[k], cancelled'[k] = cancelled[k], co'[k] = co[k],
         proc'[k] = proc[k], k \in listed' <=> k \in listed,
         k \in failedOnce' <=> k \in failedOnce,
         k \in stranded' <=> k \in stranded,
         Recorded(k)
  PROVE  JobInv(k)'
<1>1. CASE Written(k)
  BY <1>1 DEF JobInv, Written, Absent, Succeeded
<1>2. CASE manifest'[k] = manifest[k] /\ (unsaved => unsaved')
  BY <1>2 DEF JobInv
<1> QED
  BY <1>1, <1>2 DEF Recorded

\* The step of run_job or _execute_job that a job takes itself.
LEMMA OwnStep ==
  ASSUME TypeOK, TypeOK', QueueInv, NEW j \in Jobs, JobInv(j), Advance(j) \/ HelperEnds(j)
  PROVE  JobInv(j)'
<1> USE DEF TypeOK, JobInv, Goto, SetStatus, coVars, listVars, fileVars, Succeeded,
        InFlight, Executing, Alive, Over, Absent
<1>1. CASE Created(j)
  <2>1. Recorded(j)
    BY <1>1, CreatedWrites, WriteEffect
  <2>2. CASE co' = [co EXCEPT ![j] = "accepted"] /\ UNCHANGED stranded
    BY <1>1, <2>1, <2>2 DEF Created, Recorded, Written
  <2>3. CASE co' = [co EXCEPT ![j] = "ended"] /\ stranded' = stranded \union {j} /\ NotSaved
    BY <1>1, <2>3 DEF Created, NotSaved
  <2> QED
    BY <1>1, <2>2, <2>3, CreatedWrites
<1>2. CASE Queue(j)
  <2>1. Recorded(j)
    BY <1>2, QueueWrites, WriteEffect
  <2>2. CASE co' = [co EXCEPT ![j] = "queueing"] /\ UNCHANGED stranded
    BY <1>2, <2>1, <2>2 DEF Queue, Recorded, Written
  <2>3. CASE co' = [co EXCEPT ![j] = "ended"] /\ stranded' = stranded \union {j} /\ NotSaved
    BY <1>2, <2>3 DEF Queue, NotSaved
  <2> QED
    BY <1>2, <2>2, <2>3, QueueWrites
<1>3. ASSUME Execute(j), UNCHANGED <<proc, failedOnce>>,
             co[j] \in {"accepted", "queueing", "waiting"}
      PROVE  JobInv(j)'
  <2>1. Recorded(j)
    BY <1>3, ExecuteWrites, WriteEffect
  <2>2. status'[j] = "running" /\ listed' = listed /\ co'[j] \in {"starting", "closing"}
        /\ (co'[j] = "closing" => j \in stranded')
    BY <1>3, ExecuteWrites
  <2>3. proc'[j] = proc[j] /\ failedOnce' = failedOnce
    BY <1>3
  <2> QED
    BY <1>3, <2>1, <2>2, <2>3 DEF Recorded, Written
<1>4. CASE RunJob(j)
  <2>1. CASE Execute(j)
    BY <1>3, <1>4, <2>1 DEF RunJob
  <2>2. CASE ~ Execute(j)
    BY <1>4, <2>2 DEF RunJob, Acquire
  <2> QED
    BY <2>1, <2>2
<1>5. CASE Resume(j)
  <2>1. IsCalled(j)
    BY <1>5, ExecuteGoes DEF Resume, IsCalled
  <2>2. co[j] = "waiting"
    BY <2>1, FrontIsWaiting
  <2> QED
    BY <1>3, <1>5, <2>2 DEF Resume
<1>6. CASE MakeDirs(j) \/ NoDirs(j)
  BY <1>6 DEF MakeDirs, NoDirs
<1>7. CASE StartCommand(j) \/ CommandDone(j) \/ StartHelper(j) \/ HelperDone(j)
  BY <1>7 DEF StartCommand, CommandDone, StartHelper, HelperDone
<1>8. ASSUME PersistOrRaise, co' = [co EXCEPT ![j] = "closing"],
             UNCHANGED <<listed, cancelled, failedOnce, stranded>>,
             proc'[j] = "none", status'[j] \in {"error"} \union Succeeded,
             j \in failedOnce => status'[j] = "error"
      PROVE  JobInv(j)'
  <2>1. Recorded(j)
    BY <1>8, WriteOutcomes, WriteEffect
  <2> QED
    BY <1>8, <2>1 DEF Recorded, Written
<1>9. CASE Fail(j) \/ HelperFails(j)
  BY <1>8, <1>9 DEF Fail, HelperFails
<1>10. CASE Finish(j)
  BY <1>8, <1>10 DEF Finish
<1>11. CASE Close(j)
  <2>1. Recorded(j)
    BY <1>11, WriteOutcomes, WriteEffect DEF Close
  <2>2. (Written(j) \/ NotSaved)
    <3>1. Saved \/ NotSaved
      BY <1>11, WriteOutcomes DEF Close
    <3> QED
      BY <3>1 DEF Saved, Written
  <2>3. CASE Written(j)
    BY <1>11, <2>3 DEF Close, Written
  <2>4. CASE NotSaved
    BY <1>11, <2>4 DEF Close, NotSaved
  <2> QED
    BY <2>2, <2>3, <2>4
<1> QED
  BY <1>1, <1>2, <1>4, <1>5, <1>6, <1>7, <1>9, <1>10, <1>11 DEF Advance, HelperEnds

\* ... and what it leaves alone: every other job, and the clearing thread.
LEMMA OwnStepElsewhere ==
  ASSUME TypeOK, NEW j \in Jobs, NEW k \in Jobs \ {j},
         Advance(j) \/ HelperEnds(j) \/ CreateJob(j)
  PROVE  /\ status'[k] = status[k] /\ cancelled'[k] = cancelled[k] /\ co'[k] = co[k]
         /\ proc'[k] = proc[k] /\ (k \in listed' <=> k \in listed)
         /\ (k \in failedOnce' <=> k \in failedOnce)
         /\ (k \in stranded' <=> k \in stranded)
         /\ Recorded(k)
<1> USE DEF TypeOK, Goto, SetStatus, coVars, listVars, fileVars
<1>0. ASSUME UNCHANGED <<manifest, unsaved>> PROVE Recorded(k)
  BY <1>0 DEF Recorded
<1>1. CASE Created(j)
  BY <1>1, CreatedWrites, WriteEffect DEF Created
<1>2. CASE Queue(j)
  BY <1>2, QueueWrites, WriteEffect DEF Queue
<1>3. CASE RunJob(j)
  <2>1. CASE Execute(j)
    BY <1>3, <2>1, ExecuteWrites, WriteEffect DEF RunJob
  <2>2. CASE ~ Execute(j)
    BY <1>0, <1>3, <2>2 DEF RunJob, Acquire
  <2> QED
    BY <2>1, <2>2
<1>4. CASE Resume(j)
  <2>1. Execute(j) /\ UNCHANGED <<proc, failedOnce>> /\ faults \in Nat
    BY <1>4 DEF Resume
  <2>2. Recorded(k)
    BY <2>1, ExecuteWrites, WriteEffect
  <2>3. /\ UNCHANGED <<listed, cancelled>>
        /\ status' = [status EXCEPT ![j] = "running"]
        /\ stranded' \in {stranded, stranded \union {j}}
        /\ \E pc \in {"starting", "closing"} : co' = [co EXCEPT ![j] = pc]
    BY <2>1, ExecuteWrites
  <2> QED
    BY <2>1, <2>2, <2>3
<1>5. CASE MakeDirs(j) \/ NoDirs(j)
  BY <1>0, <1>5 DEF MakeDirs, NoDirs
<1>6. CASE StartCommand(j) \/ CommandDone(j)
  BY <1>0, <1>6 DEF StartCommand, CommandDone
<1>7. CASE StartHelper(j) \/ HelperDone(j)
  BY <1>0, <1>7 DEF StartHelper, HelperDone
<1>8. CASE Fail(j)
  <2>1. Recorded(k)
    BY <1>8, WriteOutcomes, WriteEffect DEF Fail
  <2> QED
    BY <1>8, <2>1 DEF Fail
<1>9. CASE Finish(j)
  <2>1. Recorded(k)
    BY <1>9, WriteOutcomes, WriteEffect DEF Finish
  <2> QED
    BY <1>9, <2>1 DEF Finish
<1>10. CASE Close(j)
  <2>1. Recorded(k)
    BY <1>10, WriteOutcomes, WriteEffect DEF Close
  <2> QED
    BY <1>10, <2>1 DEF Close
<1>11. CASE HelperFails(j)
  <2>1. Recorded(k)
    BY <1>11, WriteOutcomes, WriteEffect DEF HelperFails
  <2> QED
    BY <1>11, <2>1 DEF HelperFails
<1>12. CASE CreateJob(j)
  BY <1>0, <1>12 DEF CreateJob
<1> QED
  BY <1>1, <1>2, <1>3, <1>4, <1>5, <1>6, <1>7, <1>8, <1>9, <1>10, <1>11, <1>12
  DEF Advance, HelperEnds

LEMMA OwnStepClear ==
  ASSUME TypeOK, NEW j \in Jobs, Advance(j) \/ HelperEnds(j) \/ CreateJob(j)
  PROVE  clear' = clear /\ listed \subseteq listed'
BY DEF Advance, HelperEnds, CreateJob, Created, Queue, RunJob, Acquire, Resume, MakeDirs,
  NoDirs, StartCommand, CommandDone, StartHelper, HelperDone, HelperFails, Fail, Finish,
  Close, Execute, listVars

\* A step of the environment, of a cancel, of a clear or of a restart, seen by
\* one job.
LEMMA ForeignStep ==
  ASSUME TypeOK, TypeOK', ListInv, NEW k \in Jobs,
         \/ \E j \in Jobs : CreateJob(j) \/ ProcessEnds(j) \/ CancelJob(j)
         \/ ClearBuild \/ ClearSwap \/ ClearPersist \/ Restart
  PROVE  JobInv(k)'
<1>a. JobInv(k) /\ clear.kept \subseteq listed
  BY DEF ListInv
<1> USE DEF TypeOK, Goto, SetStatus, coVars, listVars, fileVars
<1>1. ASSUME NEW j \in Jobs, CreateJob(j) PROVE JobInv(k)'
  <2>1. CASE k = j
    BY <1>1, <1>a, <2>1 DEF CreateJob, JobInv, Succeeded, Alive, Over, Executing
  <2>2. CASE k # j
    BY <1>1, <1>a, <2>2, OwnStepElsewhere, OtherJob
  <2> QED
    BY <2>1, <2>2
<1>2. ASSUME NEW j \in Jobs, ProcessEnds(j) PROVE JobInv(k)'
  <2>1. CASE k = j
    BY <1>2, <1>a, <2>1 DEF ProcessEnds, JobInv, Succeeded, Over
  <2>2. CASE k # j
    <3>1. /\ proc'[k] = proc[k] /\ (k \in failedOnce' <=> k \in failedOnce)
          /\ UNCHANGED <<co, listed, status, cancelled, manifest, unsaved, stranded>>
      BY <1>2, <2>2 DEF ProcessEnds
    <3>2. Recorded(k)
      BY <3>1 DEF Recorded
    <3> QED
      BY <1>a, <3>1, <3>2, OtherJob
  <2> QED
    BY <2>1, <2>2
<1>3. ASSUME NEW j \in Jobs, CancelJob(j) PROVE JobInv(k)'
  <2>1. MarkCancelled(j) /\ Kill(j) /\ co' = co
    BY <1>3 DEF CancelJob
  <2>2. CASE k # j
    <3>1. /\ proc'[k] = proc[k] /\ (k \in failedOnce' <=> k \in failedOnce)
          /\ status'[k] = status[k] /\ listed' = listed
      BY <2>1, <2>2 DEF Kill, MarkCancelled
    <3>2. cancelled'[k] = cancelled[k]
      BY <2>1, <2>2 DEF MarkCancelled
    <3>3. Recorded(k)
      <4>1. PersistOrRaise \/ UNCHANGED <<manifest, unsaved>>
        BY <2>1 DEF MarkCancelled
      <4> QED
        BY <4>1, WriteOutcomes, WriteEffect DEF Recorded
    <3>4. stranded' = stranded
      BY <1>3 DEF CancelJob
    <3> QED
      BY <1>a, <2>1, <3>1, <3>2, <3>3, <3>4, OtherJob
  <2>3. CASE k = j
    <3>1. /\ proc'[k] # "none" => co[k] = "command"
          /\ k \in failedOnce' /\ k \notin failedOnce => co[k] = "command" /\ proc'[k] = "failed"
          /\ proc[k] = "failed" => proc'[k] = "failed"
      BY <1>a, <2>1, <2>3 DEF Kill, JobInv
    <3>2. CASE k \in listed /\ status[k] = "running"
      <4>1. PersistOrRaise /\ status'[k] = "error" /\ listed' = listed
        BY <2>1, <2>3, <3>2 DEF MarkCancelled
      <4>2. (Saved \/ NotSaved) /\ stranded' = stranded
        BY <1>3, <4>1, WriteOutcomes DEF CancelJob
      <4>3. CASE Saved
        <5>1. Written(k)
          BY <4>3 DEF Saved, Written
        <5> QED
          BY <1>a, <2>1, <3>1, <3>2, <4>1, <4>2, <5>1
          DEF JobInv, Written, Absent, Succeeded, InFlight, Over
      <4>4. CASE NotSaved
        BY <1>a, <2>1, <3>1, <3>2, <4>1, <4>2, <4>4
        DEF JobInv, NotSaved, Succeeded, InFlight, Over
      <4> QED
        BY <4>2, <4>3, <4>4
    <3>3. CASE ~ (k \in listed /\ status[k] = "running")
      <4>1. UNCHANGED listVars
        BY <2>1, <2>3, <3>3 DEF MarkCancelled
      <4> QED
        BY <1>3, <1>a, <2>1, <3>1, <4>1 DEF CancelJob, JobInv, Succeeded, Over
    <3> QED
      BY <3>2, <3>3
  <2> QED
    BY <2>2, <2>3
<1>4. CASE ClearBuild
  BY <1>4, <1>a, OtherJob DEF ClearBuild, Recorded
<1>5. CASE ClearSwap
  BY <1>5, <1>a DEF ClearSwap, JobInv
<1>6. CASE ClearPersist
  <2>1. Recorded(k)
    BY <1>6, WriteOutcomes, WriteEffect DEF ClearPersist
  <2> QED
    BY <1>6, <1>a, <2>1, OtherJob DEF ClearPersist
<1>7. CASE Restart
  <2>1. /\ proc'[k] = "none" /\ failedOnce' = failedOnce
        /\ status'[k] = Recovered(k)
        /\ co'[k] = IF co[k] = "none" THEN "none" ELSE "dead"
    BY <1>7 DEF Restart
  <2>8. \/ Written(k) \/ (manifest'[k] = manifest[k] /\ unsaved')
    <3>1. Saved \/ NotSaved
      BY <1>7, WriteOutcomes DEF Restart
    <3> QED
      BY <3>1 DEF Saved, NotSaved, Written
  <2>2. /\ status'[k] \notin InFlight
        /\ status'[k] \in Succeeded => manifest[k].status \in Succeeded
    BY <2>1 DEF Recovered, InFlight, Succeeded
  <2>3. \/ manifest'[k].status \in Succeeded => status'[k] \in Succeeded
        \/ manifest'[k] = manifest[k]
    BY <2>8 DEF Written, Absent, Succeeded
  <2>4. k \in failedOnce => co[k] # "none"
    BY <1>a DEF JobInv, Over
  <2>5. manifest[k].status \in Succeeded => co[k] # "none"
    BY <1>a DEF JobInv, Over
  <2>6. k \in listed' /\ ~unsaved'
          => manifest'[k] = [status |-> status'[k], cancelled |-> cancelled'[k]]
    BY <2>8 DEF Written
  <2>7. k \in failedOnce => manifest[k].status \notin Succeeded
    BY <1>a DEF JobInv
  <2> QED
    BY <2>1, <2>2, <2>3, <2>4, <2>5, <2>6, <2>7 DEF JobInv, Over
<1> QED
  BY <1>1, <1>2, <1>3, <1>4, <1>5, <1>6, <1>7

LEMMA ListStep ==
  ASSUME TypeOK, TypeOK', QueueInv, ListInv, [Next]_vars
  PROVE  ListInv'
<1>1. ASSUME NEW k \in Jobs PROVE JobInv(k)'
  <2>1. ASSUME NEW j \in Jobs, Advance(j) \/ HelperEnds(j) PROVE JobInv(k)'
    <3>1. CASE k = j
      BY <2>1, <3>1, OwnStep DEF ListInv
    <3>2. CASE k # j
      BY <2>1, <3>2, OwnStepElsewhere, OtherJob DEF ListInv
    <3> QED
      BY <3>1, <3>2
  <2>2. CASE UNCHANGED vars
    BY <2>2 DEF ListInv, JobInv, vars, coVars, listVars, fileVars
  <2> QED
    BY <2>1, <2>2, ForeignStep DEF Next
<1>2. (clear.kept \subseteq listed)'
  <2>1. ASSUME NEW j \in Jobs, Advance(j) \/ HelperEnds(j) \/ CreateJob(j) PROVE (clear.kept \subseteq listed)'
    BY <2>1, OwnStepClear DEF ListInv
  <2>2. ASSUME NEW j \in Jobs, ProcessEnds(j) \/ CancelJob(j)
        PROVE  (clear.kept \subseteq listed)'
    BY <2>2 DEF ProcessEnds, CancelJob, MarkCancelled, ListInv, listVars
  <2>3. CASE ClearBuild \/ ClearSwap \/ ClearPersist
    BY <2>3 DEF ClearBuild, ClearSwap, ClearPersist, NotClearing, ListInv, listVars
  <2>4. CASE Restart
    BY <2>4 DEF Restart, NotClearing
  <2>5. CASE UNCHANGED vars
    BY <2>5 DEF vars, ListInv, listVars
  <2> QED
    BY <2>1, <2>2, <2>3, <2>4, <2>5 DEF Next
<1> QED
  BY <1>1, <1>2 DEF ListInv

LEMMA InvInit == Init => Inv
<1> SUFFICES ASSUME Init PROVE Inv
  OBVIOUS
<1>1. TypeOK
  <2>1. unsaved \in BOOLEAN /\ cancelled \in [Jobs -> BOOLEAN]
    BY DEF Init
  <2>2. /\ co \in [Jobs -> Alive \union Over \union {"none"}]
        /\ status \in [Jobs -> Statuses \union {"none"}]
        /\ proc \in [Jobs -> {"none", "running", "zero", "failed"}]
        /\ commands \in [Jobs -> Nat]
    BY DEF Init
  <2>3. /\ slots \in Nat /\ waiters \in Seq(Jobs) /\ wakened \in Nat
        /\ runningCount \in Nat /\ faults \in Nat /\ restarts \in Nat
    BY SlotsAssumption DEF Init
  <2>4. /\ manifest \in [Jobs -> [status : Statuses \union {"none"}, cancelled : BOOLEAN]]
        /\ clear \in [at : {"idle", "built", "swapped"}, kept : SUBSET Jobs]
    BY DEF Init, Absent, NotClearing
  <2>5. listed \subseteq Jobs /\ failedOnce \subseteq Jobs /\ stranded \subseteq Jobs
    BY DEF Init
  <2> QED
    BY <2>1, <2>2, <2>3, <2>4, <2>5 DEF TypeOK
<1>2. QueueInv
  <2>1. Holders = {}
    BY DEF Init, Holders, Executing
  <2> QED
    BY <2>1, FS_EmptySet, SlotsAssumption DEF Init, QueueInv, NoIdleSlot
<1>3. ListInv
  BY DEF Init, ListInv, JobInv, NotClearing, Absent, Succeeded, InFlight, Over
<1> QED
  BY <1>1, <1>2, <1>3 DEF Inv

LEMMA InvStep == Inv /\ [Next]_vars => Inv'
BY TypeStep, QueueStep, ListStep DEF Inv

LEMMA InvHolds == Spec => []Inv
BY InvInit, InvStep, PTL DEF Spec

(***************************************************************************)
(* The theorems.                                                           *)
(***************************************************************************)
\* Jobs, coroutines, slots and manifest only ever hold what the code can put
\* there; in particular neither the counter nor the semaphore goes negative.
THEOREM JobsTypeCorrect == Spec => []TypeOK
<1>1. Inv => TypeOK
  BY DEF Inv
<1> QED
  BY <1>1, InvHolds, PTL

\* No interleaving of run_job, releases and wake-ups lets more than MaxParallel
\* jobs execute, ...
THEOREM SlotsAreBounded == Spec => []SlotsBounded
<1>1. Inv => SlotsBounded
  BY SlotsAssumption DEF Inv, TypeOK, QueueInv, SlotsBounded
<1> QED
  BY <1>1, InvHolds, PTL

\* ... or leaves a slot free beside a job that waits and will not be woken.
THEOREM NoSlotIdles == Spec => []NoIdleSlot
<1>1. Inv => NoIdleSlot
  BY DEF Inv, QueueInv
<1> QED
  BY <1>1, InvHolds, PTL

\* A job shown as pending, queued or running has a coroutine that will end it,
\* unless an exception left create_job or run_job; a restart leaves no such job.
THEOREM InFlightJobsAlive == Spec => []InFlightIsAlive
<1>1. Inv => InFlightIsAlive
  BY DEF Inv, TypeOK, ListInv, JobInv, InFlightIsAlive
<1> QED
  BY <1>1, InvHolds, PTL

\* A job one of whose commands failed or was killed never ends as a success,
\* neither in memory nor after a restart.
THEOREM FailedCommandsFail == Spec => []FailedCommandFailsJob
<1>1. Inv => FailedCommandFailsJob
  BY DEF Inv, TypeOK, ListInv, JobInv, FailedCommandFailsJob
<1> QED
  BY <1>1, InvHolds, PTL

LEMMA EndedStaysEnded ==
  ASSUME Inv, [Next]_vars, NEW k \in Jobs, co[k] \in Over, status[k] \notin InFlight,
         k \in listed, k \in listed', unsaved => restarts' = restarts
  PROVE  status'[k] = status[k] /\ cancelled'[k] = cancelled[k]
<1>a. TypeOK /\ JobInv(k)
  BY DEF Inv, ListInv
<1> USE <1>a DEF TypeOK, Goto, SetStatus, coVars, listVars
<1>1. ASSUME NEW j \in Jobs, Advance(j) \/ HelperEnds(j) \/ CreateJob(j)
      PROVE  status'[k] = status[k] /\ cancelled'[k] = cancelled[k]
  <2>1. j # k
    <3>1. ~ Resume(k)
      <4> SUFFICES ASSUME Resume(k) PROVE FALSE
        OBVIOUS
      <4>1. IsCalled(k)
        BY ExecuteGoes DEF Resume, IsCalled
      <4>2. co[k] = "waiting"
        BY <4>1, FrontIsWaiting DEF Inv
      <4> QED
        BY <4>2 DEF Over
    <3> QED
      BY <1>1, <3>1 DEF Advance, HelperEnds, CreateJob, Created, Queue, RunJob, MakeDirs,
        NoDirs, StartCommand, CommandDone, StartHelper, HelperDone, HelperFails, Fail,
        Finish, Close, Over
  <2> QED
    BY <1>1, <2>1, OwnStepElsewhere
<1>2. ASSUME NEW j \in Jobs, ProcessEnds(j)
      PROVE  status'[k] = status[k] /\ cancelled'[k] = cancelled[k]
  BY <1>2 DEF ProcessEnds
<1>3. ASSUME NEW j \in Jobs, CancelJob(j)
      PROVE  status'[k] = status[k] /\ cancelled'[k] = cancelled[k]
  <2>1. MarkCancelled(j)
    BY <1>3 DEF CancelJob
  <2>2. CASE j = k
    <3>1. status[k] # "running"
      BY DEF InFlight
    <3> QED
      BY <2>1, <2>2, <3>1 DEF MarkCancelled
  <2>3. CASE j # k
    BY <2>1, <2>3 DEF MarkCancelled
  <2> QED
    BY <2>2, <2>3
<1>4. CASE ClearBuild \/ ClearSwap \/ ClearPersist
  BY <1>4 DEF ClearBuild, ClearSwap, ClearPersist
<1>5. CASE Restart
  <2>1. ~unsaved
    BY <1>5 DEF Restart
  <2>2. manifest[k] = [status |-> status[k], cancelled |-> cancelled[k]]
    BY <2>1 DEF JobInv
  <2> QED
    BY <1>5, <2>2 DEF Restart, Recovered
<1>6. CASE UNCHANGED vars
  BY <1>6 DEF vars
<1> QED
  BY <1>1, <1>2, <1>3, <1>4, <1>5, <1>6 DEF Next

\* No step, a late cancel or a restart included, changes what a job has come to,
\* where the last write of the manifest took place.
THEOREM EndedJobsAreFinal == Spec => EndedIsFinal
<1>1. Inv /\ [Next]_vars
        => [\A j \in Jobs :
              /\ co[j] \in Over /\ status[j] \notin InFlight
              /\ j \in listed /\ j \in listed'
              /\ unsaved => restarts' = restarts
              => status'[j] = status[j] /\ cancelled'[j] = cancelled[j]]_vars
  BY EndedStaysEnded
<1> QED
  BY <1>1, InvHolds, PTL DEF Spec, EndedIsFinal

(***************************************************************************)
(* The refinement.                                                         *)
(***************************************************************************)
LEMMA QueueRefined ==
  ASSUME TypeOK, QueueInv, [Next]_vars
  PROVE  [Slots!Next]_(Slots!vars)
<1> USE DEF Slots!vars
<1>a. /\ slots \in Nat /\ wakened \in Nat /\ runningCount \in Nat /\ MaxParallel \in Nat
      /\ waiters \in Seq(Jobs) /\ Len(waiters) \in Nat
      /\ slots + wakened + runningCount = MaxParallel
      /\ runningCount = Cardinality(Holders)
  BY LenProperties, SlotsAssumption DEF TypeOK, QueueInv
<1>b. slots > 0 \/ wakened > 0 => Slots!Room
  <2>1. slots > 0 \/ wakened > 0 => runningCount < MaxParallel
    BY <1>a
  <2>2. slots > 0 \/ wakened > 0 => Cardinality(Holders) < MaxParallel
    BY <1>a, <2>1
  <2>3. Slots!Cardinality(Holders) = Cardinality(Holders)
    BY DEF Slots!Cardinality, Cardinality
  <2> QED
    BY <2>2, <2>3 DEF Slots!Room
<1>1. CASE Still
  <2>1. Holders' = Holders
    BY <1>1 DEF Still, Holders
  <2> QED
    BY <1>1, <2>1 DEF Still
<1>2. ASSUME NEW j \in Jobs, WalksIn(j) PROVE Slots!Next
  <2>1. j \notin Holders /\ Holders' = Holders \union {j}
    BY <1>2, HoldersAfter
  <2>2. waiters = <<>> /\ waiters' = waiters /\ slots > 0
    BY <1>2 DEF WalksIn
  <2>3. Slots!Enter(j)
    BY <1>b, <2>1, <2>2 DEF Slots!Enter
  <2> QED
    BY <2>3 DEF Slots!Next
<1>3. ASSUME NEW j \in Jobs, LinesUp(j) PROVE Slots!Next
  <2>1. Holders' = Holders /\ waiters' = Append(waiters, j)
    BY <1>3, HoldersAfter DEF LinesUp
  <2>2. j \notin Holders /\ \A i \in 1..Len(waiters) : waiters[i] # j
    BY <1>3 DEF LinesUp, QueueInv, Holders, Executing
  <2>3. waiters = <<>> => ~ Slots!Room
    <3> SUFFICES ASSUME waiters = <<>> PROVE ~ Slots!Room
      OBVIOUS
    <3>1. slots = 0 /\ wakened = 0
      BY <1>3, <1>a DEF LinesUp, Locked, QueueInv
    <3>2. Cardinality(Holders) = MaxParallel
      BY <1>a, <3>1
    <3>3. Slots!Cardinality(Holders) = Cardinality(Holders)
      BY DEF Slots!Cardinality, Cardinality
    <3> QED
      BY <1>a, <3>2, <3>3 DEF Slots!Room
  <2>4. Slots!Wait(j)
    BY <2>1, <2>2, <2>3 DEF Slots!Wait
  <2> QED
    BY <2>4 DEF Slots!Next
<1>4. ASSUME NEW j \in Jobs, IsCalled(j) PROVE Slots!Next
  <2>1. waiters # <<>> /\ co[j] = "waiting"
    BY <1>4, FrontIsWaiting
  <2>2. Holders' = Holders \union {j}
    BY <1>4, <2>1, HoldersAfter
  <2>3. j = Head(waiters) /\ waiters' = Tail(waiters) /\ wakened > 0
    BY <1>4 DEF IsCalled, LeaveDeque
  <2>4. Slots!Admit
    BY <1>b, <2>1, <2>2, <2>3 DEF Slots!Admit
  <2> QED
    BY <2>4 DEF Slots!Next
<1>5. ASSUME NEW j \in Jobs, GoesOut(j) PROVE Slots!Next
  <2>1. j \in Holders /\ Holders' = Holders \ {j}
    BY <1>5, HoldersAfter
  <2>2. waiters' = waiters
    BY <1>5 DEF GoesOut, Release
  <2>3. Slots!Leave(j)
    BY <2>1, <2>2 DEF Slots!Leave
  <2> QED
    BY <2>3 DEF Slots!Next
<1>6. CASE AllGone
  <2>1. Holders' = {} /\ waiters' = <<>>
    BY <1>6 DEF AllGone, Holders, Executing
  <2> QED
    BY <2>1 DEF Slots!Next, Slots!Forget
<1> QED
  BY <1>1, <1>2, <1>3, <1>4, <1>5, <1>6, StepEffect

\* run_job and the semaphore it waits on are a first come, first served queue
\* of bounded width: nobody overtakes and nobody is let in beyond the bound.
THEOREM SlotsRefineQueue == Spec => SlotsImplementQueue
<1>1. Init => Slots!Init
  <2> SUFFICES ASSUME Init PROVE Slots!Init
    OBVIOUS
  <2> QED
    BY DEF Init, Slots!Init, Holders, Executing
<1>2. Inv /\ [Next]_vars => [Slots!Next]_(Slots!vars)
  BY QueueRefined DEF Inv
<1> QED
  BY <1>1, <1>2, InvHolds, PTL DEF Spec, SlotsImplementQueue, Slots!Spec

(***************************************************************************)
(* Nobody waits for nothing, and every job comes to its end.               *)
(***************************************************************************)
InDeque == \A j \in Jobs : co[j] = "waiting" => \E i \in 1..Len(waiters) : waiters[i] = j
Counted ==
  \A j \in Jobs : /\ co[j] = "command" => proc[j] # "none" /\ commands[j] < Commands
                  /\ co[j] = "helper" => commands[j] < Commands
                  /\ commands[j] <= Commands
WaitInv == InDeque /\ Counted

LEMMA InDequeStep ==
  ASSUME Inv, Inv', InDeque, [Next]_vars
  PROVE  InDeque'
<1>1. TypeOK /\ TypeOK' /\ QueueInv
  BY DEF Inv
<1>2. CASE Still
  BY <1>2 DEF Still, InDeque
<1>3. ASSUME NEW j \in Jobs, WalksIn(j) PROVE InDeque'
  BY <1>1, <1>3 DEF WalksIn, InDeque, TypeOK
<1>4. ASSUME NEW j \in Jobs, LinesUp(j) PROVE InDeque'
  <2>1. /\ waiters' = Append(waiters, j) /\ waiters \in Seq(Jobs)
        /\ \A k \in Jobs : k # j => co'[k] = co[k]
    BY <1>1, <1>4 DEF LinesUp, TypeOK
  <2>2. /\ Len(waiters') = Len(waiters) + 1 /\ Len(waiters) \in Nat
        /\ \A i \in 1..Len(waiters) : waiters'[i] = waiters[i]
        /\ waiters'[Len(waiters) + 1] = j
    BY <2>1
  <2>3. ASSUME NEW k \in Jobs, co'[k] = "waiting"
        PROVE  \E i \in 1..Len(waiters') : waiters'[i] = k
    <3>1. CASE k = j
      <4>1. Len(waiters) + 1 \in 1..Len(waiters')
        BY <2>2
      <4> QED
        BY <2>2, <3>1, <4>1
    <3>2. CASE k # j
      <4>1. PICK i \in 1..Len(waiters) : waiters[i] = k
        BY <2>1, <2>3, <3>2 DEF InDeque
      <4>2. i \in 1..Len(waiters')
        BY <2>2
      <4> QED
        BY <2>2, <4>1, <4>2
    <3> QED
      BY <3>1, <3>2
  <2> QED
    BY <2>3 DEF InDeque
<1>5. ASSUME NEW j \in Jobs, IsCalled(j) PROVE InDeque'
  <2>1. /\ waiters' = Tail(waiters) /\ waiters \in Seq(Jobs) /\ waiters # <<>>
        /\ j = waiters[1]
        /\ \E pc \in {"starting", "closing"} : co' = [co EXCEPT ![j] = pc]
    BY <1>1, <1>5, FrontIsWaiting DEF IsCalled, LeaveDeque, TypeOK
  <2>2. /\ Len(waiters') = Len(waiters) - 1 /\ Len(waiters) \in Nat \ {0}
        /\ \A i \in 1..Len(waiters) - 1 : waiters'[i] = waiters[i + 1]
    BY <2>1
  <2>3. ASSUME NEW k \in Jobs, co'[k] = "waiting"
        PROVE  \E i \in 1..Len(waiters') : waiters'[i] = k
    <3>1. k # j /\ co[k] = "waiting"
      BY <1>1, <2>1, <2>3 DEF TypeOK
    <3>2. PICK i \in 1..Len(waiters) : waiters[i] = k
      BY <3>1 DEF InDeque
    <3>3. i # 1
      BY <2>1, <3>1, <3>2
    <3>4. i - 1 \in 1..Len(waiters) - 1 /\ (i - 1) + 1 = i
      BY <2>2, <3>3
    <3>5. waiters'[i - 1] = k
      BY <2>2, <3>2, <3>4
    <3> QED
      BY <2>2, <3>4, <3>5
  <2> QED
    BY <2>3 DEF InDeque
<1>6. ASSUME NEW j \in Jobs, GoesOut(j) PROVE InDeque'
  <2>1. waiters' = waiters /\ co' = [co EXCEPT ![j] = "ended"]
    BY <1>6 DEF GoesOut, Release
  <2>2. \A k \in Jobs : co'[k] = "waiting" => co[k] = "waiting"
    BY <1>1, <2>1 DEF TypeOK
  <2> QED
    BY <2>1, <2>2 DEF InDeque
<1>7. CASE AllGone
  BY <1>7 DEF AllGone, InDeque
<1> QED
  BY <1>1, <1>2, <1>3, <1>4, <1>5, <1>6, <1>7, StepEffect

\* What a step does to the place, the process and the commands of a job.
StaysAt(k) == co'[k] = co[k] /\ commands'[k] = commands[k]
                /\ (proc[k] # "none" => proc'[k] # "none")
MovesOn(j) ==
  /\ \/ /\ commands'[j] = commands[j]
        /\ \/ co[j] = "none" /\ co'[j] = "created"
           \/ co[j] = "created" /\ co'[j] \in {"accepted", "ended"}
           \/ co[j] = "accepted"
                /\ co'[j] \in {"queueing", "waiting", "starting", "closing", "ended"}
           \/ co[j] = "queueing" /\ co'[j] \in {"waiting", "starting", "closing"}
           \/ co[j] = "waiting" /\ co'[j] \in {"starting", "closing"}
           \/ co[j] = "starting" /\ co'[j] \in {"between", "closing"}
           \/ co[j] = "between" /\ co'[j] = "closing"
           \/ co[j] = "between" /\ co'[j] = "command" /\ commands[j] < Commands
                /\ proc'[j] # "none"
           \/ co[j] = "between" /\ co'[j] = "helper" /\ commands[j] < Commands
           \/ co[j] \in {"command", "helper"} /\ co'[j] = "closing"
           \/ co[j] = "closing" /\ co'[j] = "ended"
     \/ /\ commands'[j] = commands[j] + 1
        /\ co[j] \in {"command", "helper"} /\ co'[j] = "between"
GoneDown(k) == /\ commands'[k] = commands[k]
               /\ co'[k] = IF co[k] = "none" THEN "none" ELSE "dead"

LEMMA MoveEffect ==
  ASSUME Inv, [Next]_vars, NEW k \in Jobs
  PROVE  StaysAt(k) \/ MovesOn(k) \/ GoneDown(k)
<1>1. TypeOK /\ QueueInv
  BY DEF Inv
<1> USE DEF TypeOK, Goto, StaysAt, queueVars, coVars
<1>2. ASSUME NEW j \in Jobs, CreateJob(j) \/ Created(j) \/ Queue(j)
      PROVE  StaysAt(k) \/ MovesOn(k)
  <2>1. CASE CreateJob(j)
    BY <1>1, <2>1 DEF CreateJob, MovesOn
  <2>2. CASE Created(j)
    BY <1>1, <2>2 DEF Created, Leave, MovesOn
  <2>3. CASE Queue(j)
    BY <1>1, <2>3 DEF Queue, Leave, MovesOn
  <2> QED
    BY <1>2, <2>1, <2>2, <2>3
<1>3. ASSUME NEW j \in Jobs, RunJob(j) PROVE StaysAt(k) \/ MovesOn(k)
  BY <1>1, <1>3, ExecuteGoes DEF RunJob, Acquire, MovesOn
<1>4. ASSUME NEW j \in Jobs, Resume(j) PROVE StaysAt(k) \/ MovesOn(k)
  <2>1. co[j] = "waiting"
    <3>1. IsCalled(j)
      BY <1>1, <1>4, ExecuteGoes DEF Resume, IsCalled
    <3> QED
      BY <1>1, <3>1, FrontIsWaiting
  <2> QED
    BY <1>1, <1>4, <2>1, ExecuteGoes DEF Resume, MovesOn
<1>5. ASSUME NEW j \in Jobs, MakeDirs(j) \/ NoDirs(j) PROVE StaysAt(k) \/ MovesOn(k)
  BY <1>1, <1>5 DEF MakeDirs, NoDirs, MovesOn
<1>6. ASSUME NEW j \in Jobs, StartCommand(j) \/ CommandDone(j)
      PROVE  StaysAt(k) \/ MovesOn(k)
  BY <1>1, <1>6 DEF StartCommand, CommandDone, MovesOn
<1>7. ASSUME NEW j \in Jobs, Fail(j) \/ Finish(j) \/ Close(j)
      PROVE  StaysAt(k) \/ MovesOn(k)
  BY <1>1, <1>7 DEF Fail, Finish, Close, MovesOn
<1>11. ASSUME NEW j \in Jobs, StartHelper(j) \/ HelperEnds(j)
       PROVE  StaysAt(k) \/ MovesOn(k)
  BY <1>1, <1>11 DEF StartHelper, HelperEnds, HelperDone, HelperFails, MovesOn
<1>8. ASSUME NEW j \in Jobs, ProcessEnds(j) \/ CancelJob(j) PROVE StaysAt(k)
  BY <1>1, <1>8 DEF ProcessEnds, CancelJob, Kill
<1>9. CASE ClearBuild \/ ClearSwap \/ ClearPersist \/ UNCHANGED vars
  BY <1>9 DEF ClearBuild, ClearSwap, ClearPersist, vars
<1>10. CASE Restart
  BY <1>10 DEF Restart, GoneDown
<1> QED
  BY <1>2, <1>3, <1>4, <1>5, <1>6, <1>7, <1>8, <1>9, <1>10, <1>11 DEF Next, Advance

LEMMA CountedStep ==
  ASSUME Inv, Counted, [Next]_vars
  PROVE  Counted'
<1> SUFFICES ASSUME NEW k \in Jobs
             PROVE  /\ co'[k] = "command" => proc'[k] # "none" /\ commands'[k] < Commands
                    /\ co'[k] = "helper" => commands'[k] < Commands
                    /\ commands'[k] <= Commands
  BY DEF Counted
<1>1. /\ commands[k] \in Nat /\ Commands \in Nat /\ commands[k] <= Commands
      /\ co[k] = "command" => proc[k] # "none" /\ commands[k] < Commands
      /\ co[k] = "helper" => commands[k] < Commands
  BY CommandsAssumption DEF Inv, TypeOK, Counted
<1>2. StaysAt(k) \/ MovesOn(k) \/ GoneDown(k)
  BY MoveEffect
<1> QED
  BY <1>1, <1>2 DEF StaysAt, MovesOn, GoneDown

LEMMA WaitInvHolds == Spec => [](Inv /\ WaitInv)
<1>1. Init => WaitInv
  BY CommandsAssumption DEF Init, WaitInv, InDeque, Counted
<1>2. Inv /\ WaitInv /\ [Next]_vars => WaitInv'
  BY InvStep, InDequeStep, CountedStep DEF WaitInv
<1> QED
  BY <1>1, <1>2, InvHolds, PTL DEF Spec

\* No job waits for nothing: a coroutine that waits for a slot is in the deque of
\* the semaphore and a slot is held or on its way, and one that waits for a
\* command has a process, over any releases, cancels and restarts.
THEOREM NobodyWaitsForNothing == Spec => []NobodyWaitsInVain
<1>1. Inv /\ WaitInv => NobodyWaitsInVain
  <2> SUFFICES ASSUME Inv, WaitInv, NEW j \in Jobs
               PROVE  /\ co[j] = "waiting" =>
                           /\ \E i \in 1..Len(waiters) : waiters[i] = j
                           /\ wakened > 0 \/ Holders # {}
                      /\ co[j] = "command" => proc[j] # "none"
    BY DEF NobodyWaitsInVain
  <2>1. ASSUME co[j] = "waiting", ~ wakened > 0 PROVE Holders # {}
    <3>1. \E i \in 1..Len(waiters) : waiters[i] = j
      BY <2>1 DEF WaitInv, InDeque
    <3>2. waiters # <<>>
      BY <3>1
    <3>3. slots = 0 /\ wakened = 0
      BY <2>1, <3>2 DEF Inv, TypeOK, QueueInv, NoIdleSlot
    <3>4. Cardinality(Holders) = MaxParallel /\ MaxParallel # 0
      BY <3>3, HoldersFinite, SlotsAssumption DEF Inv, TypeOK, QueueInv
    <3> QED
      BY <3>4, FS_EmptySet
  <2> QED
    BY <2>1 DEF WaitInv, InDeque, Counted
<1> QED
  BY <1>1, WaitInvHolds, PTL

LEMMA PlacesToGo ==
  /\ ToDo["none"] = 9 /\ ToDo["created"] = 8 /\ ToDo["accepted"] = 7
  /\ ToDo["queueing"] = 6 /\ ToDo["waiting"] = 5 /\ ToDo["starting"] = 4
  /\ ToDo["between"] = 3 /\ ToDo["command"] = 2 /\ ToDo["helper"] = 2
BY DEF ToDo

LEMMA StepsLeftIs ==
  ASSUME NEW j \in Jobs
  PROVE  LET left(place, done, steps) ==
               /\ place = "dead" => steps = 0
               /\ place = "ended" => steps = 1
               /\ place = "closing" => steps = 2
               /\ place \notin {"dead", "ended", "closing"} =>
                    steps = 2 * (Commands - done) + ToDo[place]
         IN  /\ left(co[j], commands[j], StepsLeft(j))
             /\ left(co'[j], commands'[j], StepsLeft(j)')
BY DEF StepsLeft

LEMMA LessIsLeft ==
  ASSUME Inv, Counted, [Next]_vars, NEW j \in Jobs
  PROVE  /\ StepsLeft(j)' <= StepsLeft(j) /\ StepsLeft(j) \in Nat
         /\ co'[j] # co[j] => StepsLeft(j)' < StepsLeft(j)
<1>1. /\ commands[j] \in Nat /\ Commands \in Nat /\ commands[j] <= Commands
      /\ co[j] \in {"command", "helper"} => commands[j] < Commands
      /\ co[j] \in Alive \union Over \union {"none"}
  BY CommandsAssumption DEF Inv, TypeOK, Counted
<1>2. /\ co[j] = "dead" => StepsLeft(j) = 0
      /\ co[j] = "ended" => StepsLeft(j) = 1
      /\ co[j] = "closing" => StepsLeft(j) = 2
      /\ co[j] \notin {"dead", "ended", "closing"} =>
           StepsLeft(j) = 2 * (Commands - commands[j]) + ToDo[co[j]]
      /\ co'[j] = "dead" => StepsLeft(j)' = 0
      /\ co'[j] = "ended" => StepsLeft(j)' = 1
      /\ co'[j] = "closing" => StepsLeft(j)' = 2
      /\ co'[j] \notin {"dead", "ended", "closing"} =>
           StepsLeft(j)' = 2 * (Commands - commands'[j]) + ToDo[co'[j]]
  BY StepsLeftIs
<1>3. co[j] \notin {"dead", "ended", "closing"} => ToDo[co[j]] \in 2..9
  <2>1. co[j] \notin {"dead", "ended", "closing"} =>
          co[j] \in {"none", "created", "accepted", "queueing", "waiting", "starting",
                     "between", "command", "helper"}
    BY <1>1 DEF Alive, Executing, Over
  <2> QED
    BY <2>1, PlacesToGo
<1>4. StepsLeft(j) \in Nat
  <2> DEFINE n == Commands - commands[j]
  <2>1. n \in Nat
    BY <1>1
  <2>2. co[j] \notin {"dead", "ended", "closing"} => StepsLeft(j) = 2 * n + ToDo[co[j]]
    BY <1>2
  <2> HIDE DEF n
  <2> QED
    BY <1>2, <1>3, <2>1, <2>2
<1>5. CASE StaysAt(j)
  <2>1. StepsLeft(j)' = StepsLeft(j)
    BY <1>5 DEF StaysAt, StepsLeft
  <2> QED
    BY <1>4, <1>5, <2>1 DEF StaysAt
<1>6. CASE MovesOn(j)
  <2> DEFINE n == Commands - commands[j]
             m == Commands - commands'[j]
  <2>1. /\ n \in Nat /\ (co[j] \in {"command", "helper"} => n > 0)
        /\ commands'[j] = commands[j] => m = n
        /\ commands'[j] = commands[j] + 1 => m = n - 1
    BY <1>1
  <2>2. /\ co[j] \notin {"dead", "ended", "closing"} => StepsLeft(j) = 2 * n + ToDo[co[j]]
        /\ co'[j] \notin {"dead", "ended", "closing"} =>
             StepsLeft(j)' = 2 * m + ToDo[co'[j]]
    BY <1>2
  <2> HIDE DEF n, m
  <2>3. CASE commands'[j] = commands[j]
    <3>1. /\ StepsLeft(j)' \in Int /\ StepsLeft(j)' < StepsLeft(j)
      BY <1>1, <1>2, <1>6, <2>1, <2>2, <2>3, PlacesToGo DEF MovesOn
    <3> QED
      BY <1>4, <3>1
  <2>4. CASE commands'[j] = commands[j] + 1
    <3>1. co[j] \in {"command", "helper"} /\ co'[j] = "between"
      BY <1>1, <1>6, <2>4 DEF MovesOn
    <3>2. StepsLeft(j) = 2 * n + 2 /\ StepsLeft(j)' = 2 * (n - 1) + 3
      BY <2>1, <2>2, <2>4, <3>1, PlacesToGo
    <3> QED
      BY <2>1, <3>1, <3>2
  <2> QED
    BY <1>6, <2>3, <2>4 DEF MovesOn
<1>7. CASE GoneDown(j)
  <2>1. CASE co[j] = "none"
    <3>1. StepsLeft(j)' = StepsLeft(j) /\ co'[j] = co[j]
      BY <1>7, <2>1 DEF GoneDown, StepsLeft
    <3> QED
      BY <1>4, <3>1
  <2>2. CASE co[j] # "none"
    <3>1. co'[j] = "dead" /\ StepsLeft(j)' = 0
      BY <1>2, <1>7, <2>2 DEF GoneDown
    <3>2. co[j] # "dead" => StepsLeft(j) > 0
      <4> DEFINE n == Commands - commands[j]
      <4>1. n \in Nat
        BY <1>1
      <4>2. co[j] \notin {"dead", "ended", "closing"} => StepsLeft(j) = 2 * n + ToDo[co[j]]
        BY <1>2
      <4> HIDE DEF n
      <4> QED
        BY <1>2, <1>3, <4>1, <4>2
    <3> QED
      BY <1>4, <3>1, <3>2
  <2> QED
    BY <2>1, <2>2
<1> QED
  BY <1>4, <1>5, <1>6, <1>7, MoveEffect

\* A job only moves on: each step of its coroutine leaves less to do, nothing
\* leaves more, and what is left is a number from the start (run_job,
\* _execute_job). With NobodyWaitsForNothing this is what JobsEnd needs besides
\* the fairness of the event loop.
THEOREM JobsRunOutOfSteps == Spec => JobsRunOut /\ [](\A j \in Jobs : StepsLeft(j) \in Nat)
<1>1. Inv /\ WaitInv /\ [Next]_vars =>
        [\A j \in Jobs : /\ StepsLeft(j)' <= StepsLeft(j)
                         /\ co'[j] # co[j] => StepsLeft(j)' < StepsLeft(j)]_vars
  BY LessIsLeft DEF WaitInv
<1>2. Inv /\ WaitInv => \A j \in Jobs : StepsLeft(j) \in Nat
  <2> SUFFICES ASSUME Inv, WaitInv, NEW j \in Jobs PROVE StepsLeft(j) \in Nat
    OBVIOUS
  <2> DEFINE n == Commands - commands[j]
  <2>1. n \in Nat /\ co[j] \in Alive \union Over \union {"none"}
    BY CommandsAssumption DEF Inv, TypeOK, WaitInv, Counted
  <2>2. co[j] \notin {"dead", "ended", "closing"} => ToDo[co[j]] \in 2..9
    <3>1. co[j] \notin {"dead", "ended", "closing"} =>
            co[j] \in {"none", "created", "accepted", "queueing", "waiting", "starting",
                       "between", "command", "helper"}
      BY <2>1 DEF Alive, Executing, Over
    <3> QED
      BY <3>1, PlacesToGo
  <2>3. /\ co[j] = "dead" => StepsLeft(j) = 0
        /\ co[j] = "ended" => StepsLeft(j) = 1
        /\ co[j] = "closing" => StepsLeft(j) = 2
        /\ co[j] \notin {"dead", "ended", "closing"} => StepsLeft(j) = 2 * n + ToDo[co[j]]
    BY DEF StepsLeft
  <2> HIDE DEF n
  <2> QED
    BY <2>1, <2>2, <2>3
<1> QED
  BY <1>1, <1>2, WaitInvHolds, PTL DEF Spec, JobsRunOut

=============================================================================
