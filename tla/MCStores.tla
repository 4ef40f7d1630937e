------------------------------- MODULE MCStores -------------------------------
(***************************************************************************)
(* Stores on small instances, with interchangeable threads.                *)
(***************************************************************************)
EXTENDS Stores, TLC

Symmetry == Permutations(Threads)

=============================================================================
