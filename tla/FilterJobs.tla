----------------------------- MODULE FilterJobs ------------------------------
(***************************************************************************)
(* The filter jobs of backend/filter_manager.py: the job list, the slots   *)
(* run_job waits for, the coroutine that executes a job, the subprocess it *)
(* waits on, and the manifest a restarted backend recovers from.           *)
(*                                                                         *)
(* Three kinds of actor meet here.  The event loop runs the coroutines     *)
(* (run_job, cancel_job): a step of theirs lasts from one await to the     *)
(* next.  The routes POST /run and DELETE /jobs are plain functions and so *)
(* run on threads of their own: create_job and clear_completed_jobs        *)
(* interleave with the loop between any two reads or writes of the shared  *)
(* dictionary.  And a subprocess ends when it ends.                        *)
(*                                                                         *)
(* Every _persist_jobs is one step here, which may fail in two ways: the   *)
(* disk refuses the write, which is logged, or the dictionary grows while  *)
(* it is read, which raises.  What becomes of the manifest when two writes *)
(* overlap is another question than the ones asked here.                   *)
(* Formats, phases, logs and what the commands write are left out.         *)
(*                                                                         *)
(* An operator named ..._<fault> is the definition after it with a fault   *)
(* seeded; no behaviour of the specification uses it.                      *)
(***************************************************************************)
EXTENDS Naturals, Sequences, FiniteSets

CONSTANTS
  Jobs,         \* job identifiers; each is submitted at most once
  MaxParallel,  \* _max_parallel: the size of the semaphore
  Commands,     \* bound: how many subprocesses one job may run
  Requests,     \* bound: which of "cancel" and "clear" are asked for
  MaxRestarts,  \* bound: how often the backend goes down
  MaxFaults     \* bound: how often a write of the manifest is refused, or a
                \* setting of the configuration is no number

ASSUME JobsAssumption == IsFiniteSet(Jobs)
ASSUME SlotsAssumption == MaxParallel \in Nat \ {0}
ASSUME CommandsAssumption == Commands \in Nat

VARIABLES
  listed,        \* the keys of _jobs
  status,        \* FilterJob.status
  cancelled,     \* FilterJob.cancelled
  co,            \* where the coroutine run_job of the job stands
  proc,          \* the process registered in _procs, if any
  commands,      \* how many of the job's commands have ended with code 0
  slots,         \* Semaphore._value
  waiters,       \* Semaphore._waiters, in the order in which they came
  wakened,       \* how many of them, from the front, were handed a slot
  runningCount,  \* _running_count
  manifest,      \* what manifest.json says of each job
  clear,         \* the thread in clear_completed_jobs: where it stands, and
                 \* the dictionary it has built
  failedOnce,    \* the jobs one of whose commands ended with another code
  stranded,      \* the jobs whose create_job or run_job was left by an exception
  unsaved,       \* whether the last write of the manifest did not take place
  faults,        \* how often the environment failed so far
  restarts       \* how often the backend went down so far

coVars    == <<co, proc, commands, failedOnce, stranded>>
queueVars == <<slots, waiters, wakened, runningCount>>
fileVars  == <<manifest, unsaved, faults>>
listVars  == <<listed, status, cancelled, fileVars>>
vars      == <<coVars, queueVars, listVars, clear, restarts>>

InFlight  == {"running", "pending", "queued"}
Succeeded == {"done", "no_matches"}
Statuses  == InFlight \union Succeeded \union {"error"}

Executing == {"starting", "between", "command", "helper", "closing"}
Alive     == {"created", "accepted", "queueing", "waiting"} \union Executing
Over      == {"ended", "dead"}

\* The jobs inside the "async with" of run_job.
Holders == {j \in Jobs : co[j] \in Executing}

Absent == [status |-> "none", cancelled |-> FALSE]
NotClearing == [at |-> "idle", kept |-> {}]

(***************************************************************************)
(* Types.                                                                  *)
(***************************************************************************)
\* Every variable holds what the code can put there.
TypeOK ==
  /\ listed \subseteq Jobs
  /\ status \in [Jobs -> Statuses \union {"none"}]
  /\ cancelled \in [Jobs -> BOOLEAN]
  /\ co \in [Jobs -> Alive \union Over \union {"none"}]
  /\ proc \in [Jobs -> {"none", "running", "zero", "failed"}]
  /\ commands \in [Jobs -> Nat]
  /\ slots \in Nat
  /\ waiters \in Seq(Jobs)
  /\ wakened \in Nat
  /\ runningCount \in Nat
  /\ manifest \in [Jobs -> [status : Statuses \union {"none"}, cancelled : BOOLEAN]]
  /\ clear \in [at : {"idle", "built", "swapped"}, kept : SUBSET Jobs]
  /\ failedOnce \subseteq Jobs
  /\ stranded \subseteq Jobs
  /\ unsaved \in BOOLEAN
  /\ faults \in Nat
  /\ restarts \in Nat

Init ==
  /\ listed = {} /\ failedOnce = {} /\ stranded = {}
  /\ status = [j \in Jobs |-> "none"]
  /\ cancelled = [j \in Jobs |-> FALSE]
  /\ co = [j \in Jobs |-> "none"]
  /\ proc = [j \in Jobs |-> "none"]
  /\ commands = [j \in Jobs |-> 0]
  /\ slots = MaxParallel /\ waiters = <<>> /\ wakened = 0
  /\ runningCount = 0
  /\ manifest = [j \in Jobs |-> Absent]
  /\ clear = NotClearing
  /\ unsaved = FALSE /\ faults = 0
  /\ restarts = 0

(***************************************************************************)
(* _persist_jobs and asyncio.Semaphore.                                    *)
(***************************************************************************)
\* The whole dictionary is read, written beside the manifest and put in place.
Saved ==
  /\ manifest' = [j \in Jobs |->
                    IF j \in listed'
                      THEN [status |-> status'[j], cancelled |-> cancelled'[j]]
                      ELSE Absent]
  /\ unsaved' = FALSE

NotSaved == unsaved' = TRUE /\ UNCHANGED manifest

Fault == faults < MaxFaults /\ faults' = faults + 1

\* An OSError is logged and forgotten.
Persist == (Saved /\ UNCHANGED faults) \/ (NotSaved /\ Fault)

\* A job entered while the dictionary is being read: the RuntimeError is not
\* one that _persist_jobs catches.
Creating == {j \in Jobs : co[j] = "created"}
BreaksOff(creating) == creating # {} /\ NotSaved /\ UNCHANGED faults

\* _persist_jobs where the caller's state is the same whether it raises or not.
PersistOrRaise == Persist \/ BreaksOff(Creating)

SetStatus(j, s) == status' = [status EXCEPT ![j] = s]
Goto(j, pc) == co' = [co EXCEPT ![j] = pc]

\* The exception that is nobody's: the job stays as the list shows it.
Leave(j, pc) == Goto(j, pc) /\ stranded' = stranded \union {j}

Locked_ByValue == slots = 0

\* Semaphore.locked(): no value left, or somebody is in the deque.
Locked == slots = 0 \/ waiters # <<>>

\* Semaphore.release(): the slot goes to the first waiter not yet woken.
Release ==
  IF wakened < Len(waiters)
    THEN wakened' = wakened + 1 /\ UNCHANGED <<slots, waiters>>
    ELSE slots' = slots + 1 /\ UNCHANGED <<wakened, waiters>>

LeaveDeque_WakesNobody ==
  waiters' = Tail(waiters) /\ wakened' = wakened - 1 /\ UNCHANGED slots

\* A woken waiter leaves the deque and hands what value there is to the next
\* ones: they came while it had not yet run, and queued behind it.
LeaveDeque ==
  LET behind == Len(waiters) - wakened
      more   == IF slots < behind THEN slots ELSE behind
  IN /\ waiters' = Tail(waiters)
     /\ wakened' = (wakened + more) - 1
     /\ slots' = slots - more

(***************************************************************************)
(* POST /run: create_job on a thread, then run_job on the loop.            *)
(***************************************************************************)
CreateJob(j) ==
  /\ co[j] = "none"
  /\ listed' = listed \union {j}
  /\ SetStatus(j, "pending")
  /\ Goto(j, "created")
  /\ UNCHANGED <<cancelled, fileVars, proc, commands, failedOnce, stranded,
                 queueVars, clear, restarts>>

\* create_job records the job and the route starts its coroutine; where the
\* write raises, the route does not come to that.
Created(j) ==
  /\ co[j] = "created"
  /\ UNCHANGED <<listed, status, cancelled>>
  /\ \/ Persist /\ Goto(j, "accepted") /\ UNCHANGED stranded
     \/ BreaksOff(Creating \ {j}) /\ Leave(j, "ended")
  /\ UNCHANGED <<proc, commands, failedOnce, queueVars, clear, restarts>>

\* The first stretch of _execute_job, up to its first broadcast.  None of it is
\* inside a try: the write may raise, and after it _resource_limits, where the
\* configuration has something else than a number.
Execute(j) ==
  /\ runningCount' = runningCount + 1
  /\ SetStatus(j, "running")
  /\ UNCHANGED <<listed, cancelled>>
  /\ \/ Persist /\ Goto(j, "starting") /\ UNCHANGED stranded
     \/ BreaksOff(Creating) /\ Leave(j, "closing")
     \/ Saved /\ Fault /\ Leave(j, "closing")

\* Semaphore.acquire(): straight through, or to the end of the deque.
Acquire(j) ==
  \/ /\ ~Locked
     /\ slots' = slots - 1
     /\ Execute(j)
     /\ UNCHANGED <<waiters, wakened>>
  \/ /\ Locked
     /\ waiters' = Append(waiters, j)
     /\ Goto(j, "waiting")
     /\ UNCHANGED <<slots, wakened, runningCount, listVars, stranded>>

\* run_job: every slot seems taken, so the job is shown as queued first.
Queue(j) ==
  /\ co[j] = "accepted" /\ runningCount >= MaxParallel
  /\ SetStatus(j, "queued")
  /\ UNCHANGED <<listed, cancelled>>
  /\ \/ Persist /\ Goto(j, "queueing") /\ UNCHANGED stranded
     \/ BreaksOff(Creating) /\ Leave(j, "ended")
  /\ UNCHANGED <<proc, commands, failedOnce, queueVars, clear, restarts>>

RunJob(j) ==
  /\ \/ co[j] = "accepted" /\ runningCount < MaxParallel
     \/ co[j] = "queueing"
  /\ Acquire(j)
  /\ UNCHANGED <<proc, commands, failedOnce, clear, restarts>>

\* The future of the first waiter has its result: the coroutine goes on.
Resume(j) ==
  /\ wakened > 0 /\ j = Head(waiters)
  /\ LeaveDeque
  /\ Execute(j)
  /\ UNCHANGED <<proc, commands, failedOnce, clear, restarts>>

(***************************************************************************)
(* _execute_job, _run_cmd, _get_fields and _reduce_pbf_tags.               *)
(***************************************************************************)
\* The output directories are there: the pipeline begins.
MakeDirs(j) ==
  /\ co[j] = "starting"
  /\ Goto(j, "between")
  /\ UNCHANGED <<proc, commands, failedOnce, stranded, queueVars, listVars,
                 clear, restarts>>

\* They cannot be made.  This return records nothing itself: the finally
\* clause of run_job does.
NoDirs(j) ==
  /\ co[j] = "starting"
  /\ SetStatus(j, "error")
  /\ Goto(j, "closing")
  /\ UNCHANGED <<listed, cancelled, fileVars, proc, commands, failedOnce,
                 stranded, queueVars, clear, restarts>>

\* The process is spawned and entered in _procs.
StartCommand(j) ==
  /\ co[j] = "between" /\ commands[j] < Commands
  /\ proc' = [proc EXCEPT ![j] = "running"]
  /\ Goto(j, "command")
  /\ UNCHANGED <<commands, failedOnce, stranded, queueVars, listVars, clear,
                 restarts>>

\* The process ends by itself: with code 0 or another one, the absolute time
\* limit and its kill among the others.
ProcessEnds(j) ==
  /\ proc[j] = "running"
  /\ \/ proc' = [proc EXCEPT ![j] = "zero"] /\ UNCHANGED failedOnce
     \/ /\ proc' = [proc EXCEPT ![j] = "failed"]
        /\ failedOnce' = failedOnce \union {j}
  /\ UNCHANGED <<co, commands, stranded, queueVars, listVars, clear, restarts>>

CommandDone_IgnoresCode(j) ==
  /\ co[j] = "command" /\ proc[j] \in {"zero", "failed"}
  /\ proc' = [proc EXCEPT ![j] = "none"]
  /\ commands' = [commands EXCEPT ![j] = @ + 1]
  /\ Goto(j, "between")
  /\ UNCHANGED <<failedOnce, stranded, queueVars, listVars, clear, restarts>>

\* _run_cmd returns 0 and the pipeline goes on.
CommandDone(j) ==
  /\ co[j] = "command" /\ proc[j] = "zero"
  /\ proc' = [proc EXCEPT ![j] = "none"]
  /\ commands' = [commands EXCEPT ![j] = @ + 1]
  /\ Goto(j, "between")
  /\ UNCHANGED <<failedOnce, stranded, queueVars, listVars, clear, restarts>>

\* _get_fields and _reduce_pbf_tags wait for a process and for a thread of their
\* own: neither is entered in _procs, where a cancel would find it, and neither
\* has a time limit.
StartHelper(j) ==
  /\ co[j] = "between" /\ commands[j] < Commands
  /\ Goto(j, "helper")
  /\ UNCHANGED <<proc, commands, failedOnce, stranded, queueVars, listVars,
                 clear, restarts>>

\* It ends, ogrinfo with whatever code: nobody asks for it.
HelperDone(j) ==
  /\ co[j] = "helper"
  /\ commands' = [commands EXCEPT ![j] = @ + 1]
  /\ Goto(j, "between")
  /\ UNCHANGED <<proc, failedOnce, stranded, queueVars, listVars, clear,
                 restarts>>

\* The reduction raised, and its caller took the 1 it returned for a failure.
HelperFails(j) ==
  /\ co[j] = "helper"
  /\ SetStatus(j, "error")
  /\ Goto(j, "closing")
  /\ UNCHANGED <<listed, cancelled>>
  /\ PersistOrRaise
  /\ UNCHANGED <<proc, commands, failedOnce, stranded, queueVars, clear,
                 restarts>>

\* The except clause of _execute_job: a command failed or ran out of time, or
\* the stretch between two of them raised (a source that is gone, a filter
\* without expressions, a file that could not be moved, ...).
Fail(j) ==
  /\ co[j] = "between" \/ (co[j] = "command" /\ proc[j] = "failed")
  /\ proc' = [proc EXCEPT ![j] = "none"]
  /\ SetStatus(j, "error")
  /\ Goto(j, "closing")
  /\ UNCHANGED <<listed, cancelled>>
  /\ PersistOrRaise
  /\ UNCHANGED <<commands, failedOnce, stranded, queueVars, clear, restarts>>

\* The end of the try block.  How many commands the job needed (none, where no
\* source was named), and whether anything matched, is the pipeline's business.
Finish(j) ==
  /\ co[j] = "between"
  /\ \E s \in Succeeded : SetStatus(j, s)
  /\ Goto(j, "closing")
  /\ UNCHANGED <<listed, cancelled>>
  /\ PersistOrRaise
  /\ UNCHANGED <<proc, commands, failedOnce, stranded, queueVars, clear,
                 restarts>>

Close_KeepsSlot(j) ==
  /\ co[j] = "closing"
  /\ runningCount' = runningCount - 1
  /\ Goto(j, "ended")
  /\ UNCHANGED <<listed, status, cancelled>>
  /\ PersistOrRaise
  /\ UNCHANGED <<slots, waiters, wakened, proc, commands, failedOnce, stranded,
                 clear, restarts>>

\* The finally clause of run_job, and the end of its "async with".
Close(j) ==
  /\ co[j] = "closing"
  /\ runningCount' = runningCount - 1
  /\ Goto(j, "ended")
  /\ UNCHANGED <<listed, status, cancelled>>
  /\ PersistOrRaise
  /\ Release
  /\ UNCHANGED <<proc, commands, failedOnce, stranded, clear, restarts>>

(***************************************************************************)
(* cancel_job, clear_completed_jobs, _recover_orphan_jobs.                 *)
(***************************************************************************)
\* The process is killed where one is registered; the status is set where the
\* list has the job as running.  Neither asks for the other.
Kill(j) ==
  IF proc[j] = "running"
    THEN /\ proc' = [proc EXCEPT ![j] = "failed"]
         /\ failedOnce' = failedOnce \union {j}
    ELSE UNCHANGED <<proc, failedOnce>>

MarkCancelled_AnyStatus(j) ==
  IF j \in listed
    THEN /\ SetStatus(j, "error")
         /\ cancelled' = [cancelled EXCEPT ![j] = TRUE]
         /\ UNCHANGED listed
         /\ PersistOrRaise
    ELSE UNCHANGED listVars

MarkCancelled(j) ==
  IF j \in listed /\ status[j] = "running"
    THEN /\ SetStatus(j, "error")
         /\ cancelled' = [cancelled EXCEPT ![j] = TRUE]
         /\ UNCHANGED listed
         /\ PersistOrRaise
    ELSE UNCHANGED listVars

CancelJob(j) ==
  /\ "cancel" \in Requests /\ co[j] # "none"
  /\ Kill(j)
  /\ MarkCancelled(j)
  /\ UNCHANGED <<co, commands, stranded, queueVars, clear, restarts>>

\* The new dictionary is built, then put in place of the old one, then
\* recorded; a job created or changed in between is not seen again.  (Where the
\* dictionary grows while it is read, nothing comes of the request.)
Keep == {"running", "pending"}

ClearBuild ==
  /\ "clear" \in Requests /\ clear.at = "idle"
  /\ clear' = [at |-> "built", kept |-> {j \in listed : status[j] \in Keep}]
  /\ UNCHANGED <<coVars, queueVars, listVars, restarts>>

ClearSwap ==
  /\ clear.at = "built"
  /\ listed' = clear.kept
  /\ clear' = [at |-> "swapped", kept |-> {}]
  /\ UNCHANGED <<coVars, queueVars, status, cancelled, fileVars, restarts>>

ClearPersist ==
  /\ clear.at = "swapped"
  /\ clear' = NotClearing
  /\ UNCHANGED <<listed, status, cancelled>>
  /\ PersistOrRaise
  /\ UNCHANGED <<coVars, queueVars, restarts>>

Recovered_ForgetsQueued(j) ==
  IF manifest[j].status \in {"running", "pending"} THEN "error" ELSE manifest[j].status

\* What the manifest's entry of a job becomes on the next start.
Recovered(j) == IF manifest[j].status \in InFlight THEN "error" ELSE manifest[j].status

\* The container stops at any point; the next one reads the manifest.
Restart ==
  /\ restarts < MaxRestarts
  /\ restarts' = restarts + 1
  /\ listed' = {j \in Jobs : manifest[j].status # "none"}
  /\ status' = [j \in Jobs |-> Recovered(j)]
  /\ cancelled' = [j \in Jobs |-> manifest[j].cancelled]
  /\ Persist
  /\ co' = [j \in Jobs |-> IF co[j] = "none" THEN "none" ELSE "dead"]
  /\ proc' = [j \in Jobs |-> "none"]
  /\ slots' = MaxParallel /\ waiters' = <<>> /\ wakened' = 0
  /\ runningCount' = 0
  /\ clear' = NotClearing
  /\ stranded' = {}
  /\ UNCHANGED <<commands, failedOnce>>

(***************************************************************************)
(* The specification.                                                      *)
(***************************************************************************)
\* What the loop does for one job.
Advance(j) ==
  \/ Created(j) \/ Queue(j) \/ RunJob(j) \/ Resume(j)
  \/ MakeDirs(j) \/ NoDirs(j) \/ StartCommand(j) \/ CommandDone(j)
  \/ StartHelper(j) \/ Fail(j) \/ Finish(j) \/ Close(j)

HelperEnds(j) == HelperDone(j) \/ HelperFails(j)

Next ==
  \/ \E j \in Jobs : \/ CreateJob(j) \/ Advance(j) \/ ProcessEnds(j)
                     \/ HelperEnds(j) \/ CancelJob(j)
  \/ ClearBuild \/ ClearSwap \/ ClearPersist
  \/ Restart

Spec == Init /\ [][Next]_vars

\* The loop gets to every coroutine that can go on, and every process that
\* _run_cmd waits for ends: by itself, or at the absolute limit that wait_for
\* puts on _consume_and_wait.  Nothing makes a helper end.
Fairness ==
  \A j \in Jobs : WF_vars(Advance(j)) /\ WF_vars(ProcessEnds(j))

FairSpec == Spec /\ Fairness

(***************************************************************************)
(* Properties.                                                             *)
(***************************************************************************)
\* No more than MaxParallel jobs execute at a time, whatever the counter said
\* when they asked and however releases and new jobs interleave.
SlotsBounded == Cardinality(Holders) <= MaxParallel

\* A free slot and a waiting job mean that a waiter has been woken and is about
\* to run: run_job never leaves a slot unused while somebody waits.
NoIdleSlot == slots > 0 /\ waiters # <<>> => wakened > 0

\* A coroutine that waits for a slot is in the deque, and somebody has a slot to
\* give or was just given one; one that waits for a command has a process to wait
\* for. No release, cancel or restart leaves a job waiting for nothing.
NobodyWaitsInVain ==
  \A j \in Jobs :
    /\ co[j] = "waiting" =>
         /\ \E i \in 1..Len(waiters) : waiters[i] = j
         /\ wakened > 0 \/ Holders # {}
    /\ co[j] = "command" => proc[j] # "none"

\* What is left to do of a job: its commands, and the places before and after.
ToDo ==
  [none |-> 9, created |-> 8, accepted |-> 7, queueing |-> 6, waiting |-> 5,
   starting |-> 4, between |-> 3, command |-> 2, helper |-> 2]
StepsLeft(j) ==
  CASE co[j] = "dead" -> 0
    [] co[j] = "ended" -> 1
    [] co[j] = "closing" -> 2
    [] OTHER -> 2 * (Commands - commands[j]) + ToDo[co[j]]

\* run_job and _execute_job only move on: each step of a job leaves less of it to
\* do, and no step of another job, a cancel, a clear or a restart leaves more.
JobsRunOut ==
  [][\A j \in Jobs : /\ StepsLeft(j)' <= StepsLeft(j)
                     /\ co'[j] # co[j] => StepsLeft(j)' < StepsLeft(j)]_vars

\* A job the list shows as pending, queued or running has a coroutine that will
\* end it, after any error path, any clear and any restart, manifest written or
\* not: only an exception that left create_job or run_job makes an orphan, and
\* none outlives the process.
InFlightIsAlive ==
  \A j \in listed : status[j] \in InFlight => co[j] \in Alive \/ j \in stranded

\* What a job came to stays for as long as the list has it: a late cancel does
\* not touch it, and a restart brings it back unless the last write of the
\* manifest did not take place.
EndedIsFinal ==
  [][\A j \in Jobs :
       /\ co[j] \in Over /\ status[j] \notin InFlight
       /\ j \in listed /\ j \in listed'
       /\ unsaved => restarts' = restarts
       => status'[j] = status[j] /\ cancelled'[j] = cancelled[j]]_vars

\* A job one of whose commands was killed, ran out of time or failed never ends
\* as done or as having matched nothing.  (The commands are those _run_cmd runs:
\* what code ogrinfo ends with, nobody looks at.)
FailedCommandFailsJob ==
  \A j \in failedOnce : status[j] \notin Succeeded

\* Every job that was accepted comes to its end (or the backend goes down),
\* provided that no ogrinfo and no tag reduction of any job goes on for ever.
HelpersEnd == \A j \in Jobs : []<>(co[j] # "helper")
JobsEnd == HelpersEnd => \A j \in Jobs : co[j] = "accepted" ~> co[j] \in Over

\* No job is left in flight without a coroutine (one is, where a job is created
\* while the list is written).
NoJobIsStranded ==
  \A j \in listed : status[j] \in InFlight => co[j] \in Alive

\* Every accepted job comes to its end, whatever its helpers do (it does not:
\* the absolute limit is on the commands of _run_cmd only).
JobsAlwaysEnd == \A j \in Jobs : co[j] = "accepted" ~> co[j] \in Over

\* Clearing the completed jobs drops no job that has yet to run (it does: to
\* clear_completed_jobs a queued job is one of the completed).
ClearKeepsTheUnfinished ==
  [][clear.at = "idle" /\ clear'.at = "built"
       => \A j \in listed : status[j] \in InFlight => j \in clear'.kept]_vars

\* Clearing the completed jobs never drops a running one (it does: a job that
\* is created while the list is cleared runs without being in it).
RunningIsListed == \A j \in Holders : status[j] = "running" => j \in listed

\* A job the user cancelled ends in error (it does not always).
CancelledEndsInError ==
  \A j \in Jobs : cancelled[j] /\ co[j] \in Over /\ j \in listed => status[j] = "error"

\* The slots and the line behind them implement SlotQueue.
Slots == INSTANCE SlotQueue WITH line <- waiters, executing <- Holders
SlotsImplementQueue == Slots!Spec
==============================================================================
