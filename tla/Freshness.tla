------------------------------ MODULE Freshness ------------------------------
(***************************************************************************)
(* What backend/download_manager.py concludes from the figures it has of a *)
(* file: its size and date on disk, the size and date of its .part file,   *)
(* and the size and date the host publishes (_is_superseded, _freshness,   *)
(* _scanned_status, and the two reads of the .part file that apply them,   *)
(* _resume_offset and _settle_cancelled_row).                              *)
(*                                                                         *)
(* A date is the number of the host's build that was current at that       *)
(* moment: builds are numbered 1, 2, ..., the published date of build b    *)
(* is b, and bytes written while b is being served are dated b, so that    *)
(* "published after the last write" is b' > b as it is in the code.        *)
(* Date 0 stands for None (a host that sends no Last-Modified).            *)
(***************************************************************************)
EXTENDS Integers

\* A pair of figures, and the pair of a file that is not there (stat() failed)
\* or of a host that was never asked (server_size is None).
Figures(sizes, dates) == [size : sizes \cup {-1}, date : dates \cup {0}]
Nothing == [size |-> -1, date |-> 0]

ActiveStatuses == {"downloading", "verifying", "waiting_retry"}
PreservedStatuses == ActiveStatuses \cup {"checking", "error"}
Verdicts == {"not_downloaded", "update_available", "up_to_date", "paused"}

\* A date one side does not know never supersedes anything.
IsSuperseded(published, written) ==
    /\ published # 0
    /\ written # 0
    /\ published > written

CompleteVerdict(local, server) ==
    IF local = Nothing
    THEN "not_downloaded"
    ELSE IF IsSuperseded(server.date, local.date) \/ local.size < server.size
         THEN "update_available"
         ELSE "up_to_date"

\* A partial of no bytes is no partial: the code tests partial_bytes for truth.
Resumable(part, server) ==
    /\ part.size > 0
    /\ ~ IsSuperseded(server.date, part.date)

Freshness(local, part, server) ==
    LET verdict == CompleteVerdict(local, server)
    IN  IF verdict # "up_to_date" /\ Resumable(part, server)
        THEN "paused"
        ELSE verdict

\* A scan re-derives the verdict; a row never checked only has its .part file
\* to go by, and here an empty one counts (the stat result is tested).
ScannedStatus(local, part, server) ==
    IF server = Nothing
    THEN IF part = Nothing THEN "unknown" ELSE "paused"
    ELSE Freshness(local, part, server)

\* Bytes a resume builds on. The second operator is the .part file afterwards:
\* a superseded one is unlinked.
ResumeOffset(part, published) ==
    IF part = Nothing \/ IsSuperseded(published, part.date) THEN 0 ELSE part.size

PartAfterOffset(part, published) ==
    IF IsSuperseded(published, part.date) THEN Nothing ELSE part

=============================================================================
