-------------------------------- MODULE Limits --------------------------------
(***************************************************************************)
(* How much of the machine filter jobs may use: the number of job slots    *)
(* (_detect_memory_limit_bytes and _compute_max_parallel in                *)
(* backend/filter_manager.py), and the threads and niceness of one job,    *)
(* computed once for the page (_effective_limits in                        *)
(* backend/routes/settings.py) and once more for the job                   *)
(* (FilterManager._resource_limits).                                       *)
(*                                                                         *)
(* Memory is counted in Unit-ths of a gigabyte. A figure that cannot be    *)
(* read, or says there is no limit, is None.                               *)
(***************************************************************************)
EXTENDS Integers, FiniteSetsExt

CONSTANT Unit       \* steps of memory to the gigabyte

ASSUME UnitAssumption == Unit \in Nat \ {0}

None == -1

AtLeast(low, x) == IF x < low THEN low ELSE x
AtMost(high, x) == IF x > high THEN high ELSE x

(***************************************************************************)
(* Job slots.                                                              *)
(***************************************************************************)

\* The smallest of the cgroup limits and of MemTotal that can be read; v1's
\* "no limit" is a sentinel the code takes for none.
MemoryLimit(figures) ==
    LET known == {f \in figures : f > 0}
    IN  IF known = {} THEN None ELSE Min(known)

\* cpu.max holds a quota and a period; without a quota every processor counts.
Processors(count, quota, period) ==
    IF quota = None THEN count ELSE AtLeast(1, quota \div period)

MaxParallel(cpu, memory) ==
    LET byCpu == AtLeast(1, cpu \div 4)
        gigabytes == IF memory = None THEN 0 ELSE memory \div Unit
    IN  AtLeast(1, IF gigabytes = 0 THEN byCpu ELSE AtMost(byCpu, gigabytes \div 8))

\* A slot for every four processors and eight gigabytes. Memory below one
\* gigabyte is taken for unknown.
Fits(slots, cpu, memory) ==
    /\ 4 * slots <= cpu
    /\ memory >= Unit => 8 * Unit * slots <= memory

(***************************************************************************)
(* Threads and niceness. An override of 0 threads is no override (the code *)
(* tests it for truth), one of niceness 0 is (it is compared with None).   *)
(***************************************************************************)
Modes == {"full", "background"}

PresetThreads(mode, cpu) == IF mode = "background" THEN AtLeast(1, cpu \div 2) ELSE cpu
PresetNice(mode) == IF mode = "background" THEN 10 ELSE 0

\* post_resource_limits refuses the rest.
Valid(limits, cpu) ==
    /\ limits.mode \in Modes
    /\ limits.threads = None \/ limits.threads \in 1 .. cpu
    /\ limits.nice = None \/ limits.nice \in 0 .. 19

\* routes/settings.py: a preset is taken as it is, an override is clamped.
EffectiveLimits(limits, cpu) ==
    [threads |-> IF limits.threads \in {None, 0}
                 THEN PresetThreads(limits.mode, cpu)
                 ELSE AtLeast(1, AtMost(cpu, limits.threads)),
     nice |-> IF limits.nice = None
              THEN PresetNice(limits.mode)
              ELSE AtLeast(0, AtMost(19, limits.nice))]

ResourceLimits_ZeroIsNone(limits, cpu) ==
    LET threads == IF limits.threads \in {None, 0} THEN PresetThreads(limits.mode, cpu) ELSE limits.threads
        nice == IF limits.nice \in {None, 0} THEN PresetNice(limits.mode) ELSE limits.nice
    IN  [threads |-> AtLeast(1, AtMost(cpu, threads)), nice |-> AtLeast(0, AtMost(19, nice))]

\* filter_manager.py: whatever it is, it is clamped.
ResourceLimits(limits, cpu) ==
    LET threads == IF limits.threads \in {None, 0} THEN PresetThreads(limits.mode, cpu) ELSE limits.threads
        nice == IF limits.nice = None THEN PresetNice(limits.mode) ELSE limits.nice
    IN  [threads |-> AtLeast(1, AtMost(cpu, threads)), nice |-> AtLeast(0, AtMost(19, nice))]

(***************************************************************************)
(* Properties, for any figures.                                            *)
(***************************************************************************)

\* The slots are as many as fit, and one where none does.
SlotsFit(cpu, memory) ==
    /\ MaxParallel(cpu, memory) >= 1
    /\ MaxParallel(cpu, memory) > 1 => Fits(MaxParallel(cpu, memory), cpu, memory)
    /\ ~ Fits(MaxParallel(cpu, memory) + 1, cpu, memory)

=============================================================================
