------------------------------ MODULE SlotQueue ------------------------------
(***************************************************************************)
(* What a queue of bounded width promises, without saying how: at most     *)
(* MaxParallel jobs execute, the ones that must wait do so in the order in *)
(* which they came, nobody overtakes a waiting job, and a restart of the   *)
(* backend forgets both.  FilterJobs implements it with a semaphore.       *)
(***************************************************************************)
EXTENDS Naturals, Sequences, FiniteSets

CONSTANTS Jobs,        \* the jobs that may be submitted
          MaxParallel  \* how many of them may execute at a time

VARIABLES line,        \* the jobs waiting for a slot, first come first
          executing    \* the jobs that hold one

vars == <<line, executing>>

Room == Cardinality(executing) < MaxParallel

Init == line = <<>> /\ executing = {}

\* A job that finds room and nobody waiting starts at once.
Enter(j) ==
  /\ j \notin executing /\ line = <<>> /\ Room
  /\ executing' = executing \union {j}
  /\ UNCHANGED line

\* A job stands in line only where it has to.
Wait(j) ==
  /\ line # <<>> \/ ~ Room
  /\ j \notin executing /\ \A i \in 1..Len(line) : line[i] # j
  /\ line' = Append(line, j)
  /\ UNCHANGED executing

\* Only the first in line is let in.
Admit ==
  /\ line # <<>> /\ Room
  /\ executing' = executing \union {Head(line)}
  /\ line' = Tail(line)

Leave(j) ==
  /\ j \in executing
  /\ executing' = executing \ {j}
  /\ UNCHANGED line

Forget == line' = <<>> /\ executing' = {}

Next ==
  \/ \E j \in Jobs : Enter(j) \/ Wait(j) \/ Leave(j)
  \/ Admit
  \/ Forget

Spec == Init /\ [][Next]_vars
==============================================================================
