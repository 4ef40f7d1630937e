-------------------------------- MODULE MCPool --------------------------------
(***************************************************************************)
(* Pool on small instances: files of one chunk, and a disk that does not   *)
(* hold all of them.                                                       *)
(***************************************************************************)
EXTENDS Pool

OneChunk == [f \in Files |-> 1]

=============================================================================
