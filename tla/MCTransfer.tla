------------------------------ MODULE MCTransfer ------------------------------
(***************************************************************************)
(* Transfer on small instances.                                            *)
(***************************************************************************)
EXTENDS Transfer

\* Builds that grow, and shrink again.
Lengths == [b \in Builds |-> IF b = 2 THEN 3 ELSE 2]

=============================================================================
