----------------------------- MODULE MCUserConfig -----------------------------
(***************************************************************************)
(* UserConfig on small instances, whose threads and directories are        *)
(* interchangeable. The slots are computed for machines of up to 40        *)
(* processors and 40 gigabytes.                                            *)
(***************************************************************************)
EXTENDS UserConfig, TLC

ASSUME SlotsFitAssumption ==
    \A count \in 1 .. 40, memory \in -1 .. 40 * Unit : SlotsFit(count, memory)

Symmetry == Permutations(Threads) \cup Permutations(Dirs)

=============================================================================
