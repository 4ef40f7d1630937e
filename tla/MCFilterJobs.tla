---------------------------- MODULE MCFilterJobs -----------------------------
(***************************************************************************)
(* FilterJobs on a few jobs, which are interchangeable.                    *)
(***************************************************************************)
EXTENDS FilterJobs, TLC

Symmetry == Permutations(Jobs)
==============================================================================
