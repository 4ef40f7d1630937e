----------------------------- MODULE RowLifecycle -----------------------------
(***************************************************************************)
(* What the download tab may rely on about one row, whatever the threads   *)
(* and workers behind it do (the comments on _ACTIVE_STATUSES,             *)
(* _survives_deletion, start_download and check_file):                     *)
(*                                                                         *)
(*   - a transfer belongs to one worker, and no second one starts before   *)
(*     that one has let go;                                                *)
(*   - a row under transfer, or under a check, does not go away;           *)
(*   - a check never paints over a transfer;                               *)
(*   - a transfer ends in a result, or with the process.                   *)
(***************************************************************************)

EXTENDS Naturals

VARIABLES
    phase,      \* what the row shows
    owned,      \* a worker has the row, or has not let go of it yet
    epoch       \* how often the process has been restarted

vars == <<phase, owned, epoch>>

Phases == {"absent", "idle", "checking", "transfer", "error"}
Results == {"idle", "error"}

TypeOK == phase \in Phases /\ owned \in BOOLEAN /\ epoch \in Nat

Init == phase \in {"absent", "idle"} /\ owned = FALSE /\ epoch = 0

\* The row appears, or goes while neither a worker nor a check has it.
Appear == phase = "absent" /\ phase' = "idle" /\ UNCHANGED <<owned, epoch>>
Vanish == phase \in Results /\ phase' = "absent" /\ UNCHANGED <<owned, epoch>>

Check == phase \in Results /\ phase' = "checking" /\ UNCHANGED <<owned, epoch>>

\* A check ends, or the row is judged anew.
Verdict ==
    /\ phase \in Results \cup {"checking"} /\ phase' \in Results
    /\ UNCHANGED <<owned, epoch>>

Start ==
    /\ ~ owned /\ phase # "transfer"
    /\ phase' = "transfer" /\ owned' = TRUE
    /\ UNCHANGED epoch

Finish == phase = "transfer" /\ owned /\ phase' \in Results /\ UNCHANGED <<owned, epoch>>

LetGo == owned /\ phase # "transfer" /\ owned' = FALSE /\ UNCHANGED <<phase, epoch>>

\* Only a new process may forget what the row showed and who had it; the epoch
\* tells its step from any other.
Restart ==
    /\ epoch' = epoch + 1
    /\ phase' \in {"absent", "idle"}
    /\ owned' = FALSE

Next ==
    \/ Appear \/ Vanish \/ Check \/ Verdict
    \/ Start \/ Finish \/ LetGo \/ Restart

Spec == Init /\ [][Next]_vars

\* A row never shows a transfer that no worker is carrying out: the progress
\* bar and the cancel button are rendered from it.
TransferIsOwned == phase = "transfer" => owned

=============================================================================
