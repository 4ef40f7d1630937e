--------------------------- MODULE MCDownloadRows ---------------------------
(***************************************************************************)
(* DownloadRows on small instances.                                        *)
(***************************************************************************)
EXTENDS DownloadRows, TLC

OneChunk == [b \in Builds |-> 1]

Symmetry ==
    Permutations(Threads) \cup Permutations(Workers) \cup Permutations(Events)

=============================================================================
