-------------------------------- MODULE Mirror --------------------------------
(***************************************************************************)
(* What a finished file promises to those who filter it: it is absent or   *)
(* one whole build of the host, it may lag behind the newest build, and it *)
(* is only ever replaced by a build that is not older.                     *)
(***************************************************************************)
EXTENDS Naturals

VARIABLES
    copy,       \* the build on disk, 0 for none
    latest      \* the newest build the host has made

vars == <<copy, latest>>

Init == copy \in {0, 1} /\ latest = 1

Make == latest' = latest + 1 /\ UNCHANGED copy

Replace ==
    /\ copy' \in 1 .. latest
    /\ copy' >= copy
    /\ UNCHANGED latest

Next == Make \/ Replace

Spec == Init /\ [][Next]_vars

=============================================================================
