-------------------------- MODULE MCFilterPipeline ---------------------------
(***************************************************************************)
(* FilterPipeline for every request over two extracts, which are           *)
(* interchangeable.                                                        *)
(***************************************************************************)
EXTENDS FilterPipeline, TLC

Symmetry == Permutations(Sources)
==============================================================================
