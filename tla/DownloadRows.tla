----------------------------- MODULE DownloadRows -----------------------------
(***************************************************************************)
(* One file of the download tab (backend/download_manager.py): its row in  *)
(* DownloadManager._files, its bytes under DATA_DIR, and everybody who     *)
(* works on them at the same time:                                         *)
(*                                                                         *)
(*   - threads that serve requests and checks: a directory scan            *)
(*     (list_files), a check (check_file) or a discard (discard_partial);  *)
(*   - download workers in the pool (_download_worker), at most one of     *)
(*     which may own the row;                                              *)
(*   - requests that start or stop a transfer: start_download and          *)
(*     register_and_start take the lock once, cancel_download looks the    *)
(*     event up under the lock and sets it after letting go of the lock;   *)
(*   - the host, which publishes new builds; the user, who moves files in  *)
(*     and out of the data directory; and a restart of the process.        *)
(*                                                                         *)
(* One action is one critical section of DownloadManager._lock, one call   *)
(* to the file system, or one answer from the network, because between any *)
(* two of those another thread can run. The rows of different files share  *)
(* nothing but the lock and the pool, so one row is enough to see every    *)
(* interleaving that concerns a row. What a transfer receives (which build *)
(* the bytes come from) is not told apart here.                            *)
(***************************************************************************)
EXTENDS Freshness

CONSTANTS
    Threads,        \* threads of the request pool and of the check pool
    Workers,        \* tasks of the download executor
    Cancellers,     \* threads that serve cancel requests
    Events,         \* threading.Event objects
    MaxBuild,       \* bound: builds the host publishes
    BuildSize,      \* bytes of each build, in chunks
    Dated,          \* whether the host sends Last-Modified
    MaxRetries,     \* config.MAX_RETRIES
    Operations,     \* what the threads are asked to do
    MaxFileOps,     \* bound: moves in and out of the directory by the user
    MaxRestarts,    \* bound: restarts of the process
    NoEvent         \* no entry in _cancel_flags, no event in hand

Builds == 1 .. MaxBuild

ASSUME BoundsAssumption ==
    /\ MaxBuild \in Nat \ {0}
    /\ MaxRetries \in Nat \ {0}
    /\ MaxFileOps \in Nat
    /\ MaxRestarts \in Nat
ASSUME BuildSizeAssumption == BuildSize \in [Builds -> Nat]
ASSUME DatedAssumption == Dated \in BOOLEAN
ASSUME OperationsAssumption == Operations \subseteq {"scan", "check", "discard"}
ASSUME NoEventAssumption == NoEvent \notin Events

VARIABLES
    host,       \* the build the host serves
    disk,       \* <name>.osm.pbf and <name>.osm.pbf.part
    row,        \* the FileState in _files; status "absent" when there is none
    mapped,     \* whether the URL mapping resolves the file name
    flag,       \* the event in _cancel_flags
    event,      \* the event each worker was submitted with
    raised,     \* the events that are set and that a worker may still ask
    hand,       \* the event each cancel request has looked up and not set yet
    asked,      \* history: workers for whose transfer a cancel has come
    wpc, work,  \* where each worker stands, and what it holds
    tpc, task,  \* where each thread stands, and what it holds
    budget      \* what is left of the bounds

vars == <<host, disk, row, mapped, flag, event, raised, hand, asked,
          wpc, work, tpc, task, budget>>

(***************************************************************************)
(* Seeded faults: an operator named ..._<fault> is the definition after it *)
(* with one mistake a change to the code could make. No behaviour of the   *)
(* specification uses one; each shows what a property would notice.        *)
(***************************************************************************)

(***************************************************************************)
(* States of the parts.                                                    *)
(***************************************************************************)
Published(b) == [size |-> BuildSize[b], date |-> IF Dated THEN b ELSE 0]
NewRow == [status |-> "unknown", local |-> Nothing, part |-> Nothing,
           server |-> Nothing, error |-> "none", discarded |-> FALSE]
NoRow == [NewRow EXCEPT !.status = "absent"]

\* What a worker carries: the figures it was last given, the offset it resumes
\* from, the chunks still to come, whether its open file is the .part file the
\* directory shows, the retries used, which loop it is in, and whether the
\* FileState it writes to is the one in _files.
IdleWork == [figures |-> Nothing, start |-> 0, left |-> 0, linked |-> FALSE,
             attempt |-> 0, loop |-> "first", own |-> FALSE]
\* What a thread carries: the two stat results, the HEAD answer, and whether
\* the FileState it looked up is the one in _files.
IdleTask == [op |-> "none", full |-> Nothing, part |-> Nothing,
             answer |-> Nothing, own |-> FALSE]

Active == row.status \in ActiveStatuses
Tracked == row.status # "absent"

Survives_ForgetsCheck == Active \/ (row.status = "error" /\ row.discarded)
Survives_ForgetsReport == Active \/ row.status = "checking"

\* _survives_deletion
Survives ==
    \/ Active
    \/ row.status = "checking"
    \/ row.status = "error" /\ row.discarded

ScannedRow_TakesTransfers(r, full, part) ==
    [r EXCEPT !.local = full, !.part = part,
              !.status = IF @ \in {"checking", "error"} THEN @
                         ELSE ScannedStatus(full, part, r.server)]
ScannedRow_KeepsVerdict(r, full, part) ==
    [r EXCEPT !.local = full, !.part = part,
              !.status = IF @ \in PreservedStatuses \cup Verdicts THEN @
                         ELSE ScannedStatus(full, part, r.server)]

\* The row a scan of one file leaves, given what it read of the directory.
ScannedRow(r, full, part) ==
    [r EXCEPT !.local = full, !.part = part,
              !.status = IF @ \in PreservedStatuses
                         THEN @
                         ELSE ScannedStatus(full, part, r.server)]

\* A new process has no rows but those its first scan makes.
RestartRow(d) ==
    IF d.full = Nothing /\ d.part = Nothing THEN NoRow
    ELSE ScannedRow(NewRow, d.full, d.part)

Unlink(d) == [d EXCEPT !.part = Nothing]
Unlinked == [w \in Workers |-> [work[w] EXCEPT !.linked = FALSE]]

Init ==
    /\ host = 1
    /\ disk \in [full : {Nothing, [size |-> BuildSize[1], date |-> 1]},
                 part : {Nothing, [size |-> 1, date |-> 1]}]
    /\ row = RestartRow(disk)
    /\ mapped \in BOOLEAN
    /\ flag = NoEvent
    /\ event = [w \in Workers |-> NoEvent]
    /\ raised = {}
    /\ hand = [c \in Cancellers |-> NoEvent]
    /\ asked = {}
    /\ wpc = [w \in Workers |-> "idle"]
    /\ work = [w \in Workers |-> IdleWork]
    /\ tpc = [t \in Threads |-> "idle"]
    /\ task = [t \in Threads |-> IdleTask]
    /\ budget = [files |-> MaxFileOps, restarts |-> MaxRestarts]

(***************************************************************************)
(* Requests that start or stop a transfer.                                 *)
(***************************************************************************)
\* A new threading.Event: nobody holds it, and it is not set.
Unused(e) ==
    /\ e # flag
    /\ \A w \in Workers : event[w] # e
    /\ \A c \in Cancellers : hand[c] # e

\* The row is handed to w, which is submitted to the executor with a new event.
Handed(w, r) ==
    /\ wpc[w] = "idle"
    /\ row' = [r EXCEPT !.status = "downloading", !.error = "none", !.discarded = FALSE]
    /\ \E e \in Events :
         /\ Unused(e)
         /\ flag' = e
         /\ event' = [event EXCEPT ![w] = e]
    /\ asked' = asked \ {w}
    /\ wpc' = [wpc EXCEPT ![w] = "queued"]
    /\ work' = [work EXCEPT ![w] = [IdleWork EXCEPT !.own = TRUE]]
    /\ UNCHANGED <<raised, hand>>

Launch_TrustsStatus(w, r) ==
    /\ r.status # "downloading"
    /\ Handed(w, r)

\* The part start_download and register_and_start share: refuse a row that is
\* being downloaded or whose worker has not let go yet, else hand it to w.
Launch(w, r) ==
    /\ r.status # "downloading"
    /\ flag = NoEvent
    /\ Handed(w, r)

StartDownload(w) ==
    /\ Tracked
    /\ mapped
    /\ Launch(w, row)
    /\ UNCHANGED <<host, disk, mapped, tpc, task, budget>>

\* The row is created, and the URL registered, even when the start is refused.
RegisteredRow ==
    IF Tracked THEN row
    ELSE [NewRow EXCEPT !.local = disk.full,
                        !.status = IF disk.full = Nothing THEN "not_downloaded" ELSE @]

RegisterAndStart(w) ==
    /\ mapped' = TRUE
    /\ \/ Launch(w, RegisteredRow)
       \/ /\ RegisteredRow.status = "downloading" \/ flag # NoEvent
          /\ row' = RegisteredRow
          /\ UNCHANGED <<flag, event, raised, hand, asked, wpc, work>>
    /\ UNCHANGED <<host, disk, tpc, task, budget>>

\* cancel_download: the event is looked up under the lock, and set after it.
CancelDownload(c) ==
    /\ hand[c] = NoEvent /\ flag # NoEvent
    /\ hand' = [hand EXCEPT ![c] = flag]
    /\ asked' = asked \cup {w \in Workers : wpc[w] # "idle"}
    /\ UNCHANGED <<host, disk, row, mapped, flag, event, raised, wpc, work, tpc, task, budget>>

\* The events somebody was submitted with: no other is ever asked.
Awaited == {event[w] : w \in Workers} \ {NoEvent}

CancelSet_ByName(c) ==
    /\ hand[c] # NoEvent
    /\ hand' = [hand EXCEPT ![c] = NoEvent]
    /\ raised' = raised \cup ({flag} \cap Awaited)
    /\ UNCHANGED <<host, disk, row, mapped, flag, event, asked, wpc, work, tpc, task, budget>>

\* By now the transfer may be over, and another of the same file under way.
CancelSet(c) ==
    /\ hand[c] # NoEvent
    /\ hand' = [hand EXCEPT ![c] = NoEvent]
    /\ raised' = raised \cup ({hand[c]} \cap Awaited)
    /\ UNCHANGED <<host, disk, row, mapped, flag, event, asked, wpc, work, tpc, task, budget>>

(***************************************************************************)
(* Threads: scan, check, discard. All three re-read the directory through  *)
(* _sync_local_state, whose two stat calls come before its lock.           *)
(***************************************************************************)
Goto(t, from, to) ==
    /\ tpc[t] = from
    /\ tpc' = [tpc EXCEPT ![t] = to]

Leave(t, from) ==
    /\ Goto(t, from, "idle")
    /\ task' = [task EXCEPT ![t] = IdleTask]

OutsideThreads == UNCHANGED <<host, mapped, flag, event, raised, hand, asked, wpc, budget>>

\* list_files and check_file begin with the first stat call.
Begin(t, op) ==
    /\ op \in Operations \ {"discard"}
    /\ Goto(t, "idle", "stat_part")
    /\ task' = [task EXCEPT ![t] = [@ EXCEPT !.op = op, !.full = disk.full]]
    /\ OutsideThreads
    /\ UNCHANGED <<disk, row, work>>

\* discard_partial: refused while a worker owns the row.
BeginDiscard(t) ==
    /\ "discard" \in Operations
    /\ Tracked /\ ~ Active
    /\ Goto(t, "idle", "unlink")
    /\ task' = [task EXCEPT ![t] = [@ EXCEPT !.op = "discard", !.own = TRUE]]
    /\ OutsideThreads
    /\ UNCHANGED <<disk, row, work>>

DiscardUnlink(t) ==
    /\ Goto(t, "unlink", "reset")
    /\ disk' = Unlink(disk)
    /\ work' = Unlinked
    /\ OutsideThreads
    /\ UNCHANGED <<row, task>>

\* An unlink error goes to the caller, and nothing else is done.
DiscardFails(t) ==
    /\ disk.part # Nothing
    /\ Leave(t, "unlink")
    /\ OutsideThreads
    /\ UNCHANGED <<disk, row, work>>

DiscardReset(t) ==
    /\ Goto(t, "reset", "stat_full")
    /\ row' = IF task[t].own
              THEN [row EXCEPT !.error = "none", !.discarded = FALSE,
                               !.status = IF @ = "error" THEN "unknown" ELSE @]
              ELSE row
    /\ OutsideThreads
    /\ UNCHANGED <<disk, work, task>>

StatFull(t) ==
    /\ Goto(t, "stat_full", "stat_part")
    /\ task' = [task EXCEPT ![t].full = disk.full]
    /\ OutsideThreads
    /\ UNCHANGED <<disk, row, work>>

StatPart(t) ==
    /\ Goto(t, "stat_part", "sync")
    /\ task' = [task EXCEPT ![t].part = disk.part]
    /\ OutsideThreads
    /\ UNCHANGED <<disk, row, work>>

SawNothing(t) == task[t].full = Nothing /\ task[t].part = Nothing

\* What is left to do once the row is in step with the directory.
AfterSync(op) ==
    CASE op = "scan" -> "idle"
      [] op = "check" -> "lookup"
      [] OTHER -> "report"

Synced(t) ==
    /\ Goto(t, "sync", AfterSync(task[t].op))
    /\ task' = [task EXCEPT ![t] = IF @.op = "scan" THEN IdleTask
                                   ELSE [@ EXCEPT !.full = Nothing, !.part = Nothing]]

SyncPresent(t) ==
    /\ Synced(t)
    /\ ~ SawNothing(t)
    /\ row' = ScannedRow(IF Tracked THEN row ELSE NewRow, task[t].full, task[t].part)
    /\ OutsideThreads
    /\ UNCHANGED <<disk, work>>

\* Nothing on disk, and a row that stays: its size and date go, unless a worker
\* owns them. An unknown file is left unknown.
SyncKeep(t) ==
    /\ Synced(t)
    /\ SawNothing(t)
    /\ ~ Tracked \/ Survives
    /\ row' = IF Tracked /\ ~ Active
              THEN [row EXCEPT !.local = Nothing, !.part.size = -1]
              ELSE row
    /\ OutsideThreads
    /\ UNCHANGED <<disk, work>>

\* Nothing on disk, and the row goes. Whoever holds its FileState now writes to
\* an object no one will ever read.
SyncDrop(t) ==
    /\ tpc[t] = "sync"
    /\ SawNothing(t)
    /\ Tracked /\ ~ Survives
    /\ row' = NoRow
    /\ tpc' = [tpc EXCEPT ![t] = "idle"]
    /\ task' = [u \in Threads |-> IF u = t THEN IdleTask ELSE [task[u] EXCEPT !.own = FALSE]]
    /\ work' = [w \in Workers |-> [work[w] EXCEPT !.own = FALSE]]
    /\ OutsideThreads
    /\ UNCHANGED disk

\* check_file, after the sync: find the row or make one.
CheckLookup(t) ==
    /\ row' = IF Tracked THEN row ELSE NewRow
    /\ \/ ~ mapped /\ Leave(t, "lookup")
       \/ /\ mapped
          /\ Goto(t, "lookup", "mark")
          /\ task' = [task EXCEPT ![t].own = TRUE]
    /\ OutsideThreads
    /\ UNCHANGED <<disk, work>>

\* A write to a FileState that is not in _files any more changes no row.
CheckMark(t) ==
    /\ Goto(t, "mark", "head")
    /\ row' = IF task[t].own /\ ~ Active THEN [row EXCEPT !.status = "checking"] ELSE row
    /\ OutsideThreads
    /\ UNCHANGED <<disk, work, task>>

CheckAnswered(t) ==
    /\ Goto(t, "head", "answer")
    /\ task' = [task EXCEPT ![t].answer = Published(host)]
    /\ OutsideThreads
    /\ UNCHANGED <<disk, row, work>>

\* The server figures are recorded around a transfer, the verdict never over it.
Judged(r, answer) ==
    IF r.status \in ActiveStatuses
    THEN [r EXCEPT !.server = answer]
    ELSE [r EXCEPT !.server = answer, !.error = "none",
                   !.status = Freshness(r.local, r.part, answer)]

CheckVerdict(t) ==
    /\ Leave(t, "answer")
    /\ row' = IF task[t].own THEN Judged(row, task[t].answer) ELSE row
    /\ OutsideThreads
    /\ UNCHANGED <<disk, work>>

CheckFailed_OnlyLogs(t) ==
    /\ Leave(t, "head")
    /\ OutsideThreads
    /\ UNCHANGED <<disk, row, work>>

\* No answer within the timeout, or an error status.
CheckFailed(t) ==
    /\ Leave(t, "head")
    /\ row' = IF task[t].own /\ ~ Active
              THEN [row EXCEPT !.status = "error", !.error = "check"]
              ELSE row
    /\ OutsideThreads
    /\ UNCHANGED <<disk, work>>

\* discard_partial looks the row up by name again to broadcast it, and raises a
\* KeyError when it is gone: the thread ends either way.
DiscardReport(t) ==
    /\ Leave(t, "report")
    /\ OutsideThreads
    /\ UNCHANGED <<disk, row, work>>

Thread(t) ==
    \/ \E op \in Operations : Begin(t, op)
    \/ BeginDiscard(t) \/ DiscardUnlink(t) \/ DiscardFails(t) \/ DiscardReset(t)
    \/ StatFull(t) \/ StatPart(t)
    \/ SyncPresent(t) \/ SyncKeep(t) \/ SyncDrop(t)
    \/ CheckLookup(t) \/ CheckMark(t) \/ CheckAnswered(t)
    \/ CheckVerdict(t) \/ CheckFailed(t)
    \/ DiscardReport(t)

(***************************************************************************)
(* The download worker.                                                    *)
(***************************************************************************)
\* The worker goes from one place to the next and holds h afterwards.
Advance(w, from, to, h) ==
    /\ wpc[w] = from
    /\ wpc' = [wpc EXCEPT ![w] = to]
    /\ work' = [work EXCEPT ![w] = h]

\* Nothing a worker held matters once its transfer is over, but the figures it
\* stamps the file with, and whose FileState it writes to.
Closed(h) == [IdleWork EXCEPT !.figures = h.figures, !.own = h.own]
Over(h) == [IdleWork EXCEPT !.own = h.own]

\* The worker writes its FileState, which is a row only while it is in _files.
Write(w, r) == row' = IF work[w].own THEN r ELSE row
WriteStatus(w, status) == Write(w, [row EXCEPT !.status = status])

OutsideWorkers == UNCHANGED <<host, mapped, tpc, task, budget>>
InTransfer == OutsideWorkers /\ UNCHANGED <<flag, event, raised, hand, asked>>

Cancelled(w) == event[w] \in raised

\* A thread of the pool takes the submission up, if the pool has one to spare.
TakeUp(w) ==
    /\ Advance(w, "queued", "head", work[w])
    /\ InTransfer /\ UNCHANGED <<disk, row>>

\* _head_waiting_for_the_host: a host that does not answer is waited for.
HeadAnswered(w) ==
    /\ Advance(w, "head", "record", [work[w] EXCEPT !.figures = Published(host)])
    /\ InTransfer /\ UNCHANGED <<disk, row>>

HeadTransient(w) ==
    /\ IF Cancelled(w)
       THEN Advance(w, "head", "settle", Over(work[w])) /\ UNCHANGED row
       ELSE Advance(w, "head", "headwait", work[w]) /\ WriteStatus(w, "waiting_retry")
    /\ InTransfer /\ UNCHANGED disk

HeadRefused(w) ==
    /\ Advance(w, "head", "fail", Over(work[w]))
    /\ InTransfer /\ UNCHANGED <<disk, row>>

HeadWaitOver(w) ==
    /\ IF Cancelled(w)
       THEN Advance(w, "headwait", "settle", Over(work[w])) /\ UNCHANGED row
       ELSE Advance(w, "headwait", "head", work[w]) /\ WriteStatus(w, "downloading")
    /\ InTransfer /\ UNCHANGED disk

\* The size cap is looked at once, before the first request.
RecordFigures(w) ==
    /\ \/ Advance(w, "record", "offset", work[w])
       \/ work[w].loop = "first" /\ Advance(w, "record", "fail", Over(work[w]))
    /\ Write(w, [row EXCEPT !.server = work[w].figures])
    /\ InTransfer /\ UNCHANGED disk

\* _resume_offset, the free-space check (before the first request only), and
\* in the slow loop the return to "downloading". A superseded .part goes.
WithOffset(h) == [h EXCEPT !.start = ResumeOffset(disk.part, h.figures.date)]
TakeOffset(w) ==
    /\ \/ Advance(w, "offset", "request", WithOffset(work[w]))
       \/ work[w].loop = "first" /\ Advance(w, "offset", "fail", Over(work[w]))
    /\ disk' = [disk EXCEPT !.part = PartAfterOffset(@, work[w].figures.date)]
    /\ IF work[w].loop = "slow" THEN WriteStatus(w, "downloading") ELSE UNCHANGED row
    /\ InTransfer

\* The fast loop looks at the cancel event before each request, the slow loop
\* has looked at it when its wait was over.
MayRequest(w) == work[w].loop = "slow" \/ ~ Cancelled(w)

RequestCancelled(w) ==
    /\ ~ MayRequest(w)
    /\ Advance(w, "request", "settle", Over(work[w]))
    /\ InTransfer /\ UNCHANGED <<disk, row>>

\* A 416: the host has nothing after the offset.
RequestSatisfied(w) ==
    /\ MayRequest(w)
    /\ work[w].start > 0 /\ work[w].start >= BuildSize[host]
    /\ Advance(w, "request", "received", Closed(work[w]))
    /\ InTransfer /\ UNCHANGED <<disk, row>>

\* A 206 appends to the .part, a 200 writes it from the beginning.
RequestOpened(w) ==
    /\ MayRequest(w)
    /\ \/ /\ work[w].start > 0 /\ work[w].start < BuildSize[host]
          /\ Advance(w, "request", "stream",
                     [work[w] EXCEPT !.start = 0, !.left = BuildSize[host] - work[w].start, !.linked = TRUE])
          /\ disk' = [disk EXCEPT !.part = IF @ = Nothing THEN [size |-> 0, date |-> host] ELSE @]
       \/ /\ Advance(w, "request", "stream",
                     [work[w] EXCEPT !.start = 0, !.left = BuildSize[host], !.linked = TRUE])
          /\ disk' = [disk EXCEPT !.part = [size |-> 0, date |-> host]]
    /\ InTransfer /\ UNCHANGED row

\* An HTTP status worth another try: in the fast loop only, and not for ever.
RequestRetried(w) ==
    /\ MayRequest(w)
    /\ work[w].loop # "slow"
    /\ work[w].attempt + 1 < MaxRetries
    /\ Advance(w, "request", "refresh", [work[w] EXCEPT !.attempt = @ + 1, !.loop = "fast"])
    /\ InTransfer /\ UNCHANGED <<disk, row>>

\* Any other error status, an SSL error, the last retry.
RequestRefused(w) ==
    /\ MayRequest(w)
    /\ Advance(w, "request", "fail", Over(work[w]))
    /\ InTransfer /\ UNCHANGED <<disk, row>>

\* The connection fails, before the answer or within it: wait for the network.
ConnectionLost(w) ==
    \E from \in {"request", "stream"} :
        LET h == [Closed(work[w]) EXCEPT !.loop = "slow"]
        IN  /\ from = "request" => MayRequest(w)
            /\ IF Cancelled(w)
               THEN Advance(w, from, "settle", Over(h)) /\ UNCHANGED row
               ELSE Advance(w, from, "wait", h) /\ WriteStatus(w, "waiting_retry")
            /\ InTransfer /\ UNCHANGED disk

WaitOver(w) ==
    /\ (IF Cancelled(w)
        THEN Advance(w, "wait", "settle", Over(work[w]))
        ELSE Advance(w, "wait", "refresh", work[w]))
    /\ InTransfer /\ UNCHANGED <<disk, row>>

\* _refresh_server_state: what the worker knew stands when the host is silent.
Refreshed(w) ==
    /\ \/ Advance(w, "refresh", "record", [work[w] EXCEPT !.figures = Published(host)])
       \/ Advance(w, "refresh", "offset", work[w])
    /\ InTransfer /\ UNCHANGED <<disk, row>>

\* _do_download: a chunk goes to the file the worker opened, wherever that is.
Chunk(w) ==
    /\ ~ Cancelled(w)
    /\ work[w].left > 0
    /\ Advance(w, "stream", "stream", [work[w] EXCEPT !.left = @ - 1])
    /\ disk' = IF work[w].linked
               THEN [disk EXCEPT !.part = [size |-> @.size + 1, date |-> host]]
               ELSE disk
    /\ InTransfer /\ UNCHANGED row

\* The cancel event is looked at when a chunk arrives.
StreamOver(w) ==
    /\ work[w].left = 0 \/ Cancelled(w)
    /\ Advance(w, "stream", "received", Closed(work[w]))
    /\ InTransfer /\ UNCHANGED <<disk, row>>

StreamFailed(w) ==
    /\ Advance(w, "stream", "fail", Over(work[w]))
    /\ InTransfer /\ UNCHANGED <<disk, row>>

Received(w) ==
    /\ \/ /\ Cancelled(w)
          /\ Advance(w, "received", "settle", Over(work[w])) /\ UNCHANGED row
       \/ /\ ~ Cancelled(w) /\ disk.part = Nothing
          /\ Advance(w, "received", "fail", Over(work[w])) /\ UNCHANGED row
       \/ /\ ~ Cancelled(w) /\ disk.part # Nothing
          /\ Advance(w, "received", "verify", work[w]) /\ WriteStatus(w, "verifying")
    /\ InTransfer /\ UNCHANGED disk

\* _verify_checksum: the digest matches; or the sidecar cannot be had or names
\* another build, and the bytes stay; or they are proved bad, and go.
VerifyMatch(w) ==
    /\ disk.part # Nothing
    /\ Advance(w, "verify", "publish", work[w])
    /\ InTransfer /\ UNCHANGED <<disk, row>>

VerifyKeep(w) ==
    /\ Advance(w, "verify", "fail", Over(work[w]))
    /\ InTransfer /\ UNCHANGED <<disk, row>>

VerifyMismatch(w) ==
    /\ disk.part # Nothing
    /\ Advance(w, "verify", "discarded", Over(work[w]))
    /\ disk' = Unlink(disk)
    /\ InTransfer /\ UNCHANGED row

Publish(w) ==
    /\ IF disk.part = Nothing
       THEN Advance(w, "publish", "fail", Over(work[w])) /\ UNCHANGED disk
       ELSE /\ Advance(w, "publish", "stamp", work[w])
            /\ disk' = [full |-> disk.part, part |-> Nothing]
    /\ InTransfer /\ UNCHANGED row

Stamp(w) ==
    LET date == work[w].figures.date
    IN  /\ IF date # 0 /\ disk.full = Nothing
           THEN Advance(w, "stamp", "fail", Over(work[w])) /\ UNCHANGED disk
           ELSE /\ Advance(w, "stamp", "finish", work[w])
                /\ disk' = IF date = 0 THEN disk ELSE [disk EXCEPT !.full.date = date]
        /\ InTransfer /\ UNCHANGED row

\* The status is set before the size is read: a file that is gone by then
\* leaves "up_to_date" behind until the error is reported.
Finish(w) ==
    /\ IF disk.full = Nothing
       THEN Advance(w, "finish", "late", Over(work[w])) /\ WriteStatus(w, "up_to_date")
       ELSE /\ Advance(w, "finish", "release", Over(work[w]))
            /\ Write(w, [row EXCEPT !.status = "up_to_date",
                                    !.local = [size |-> disk.full.size, date |-> work[w].figures.date],
                                    !.part.size = -1])
    /\ InTransfer /\ UNCHANGED disk

FailedRow(from) ==
    [row EXCEPT !.status = "error",
                !.error = IF from = "discarded" THEN "discarded" ELSE "transfer",
                !.discarded = from = "discarded"]

Fail_ByName(w) ==
    \E from \in {"fail", "discarded", "late"} :
        /\ Advance(w, from, "release", Over(work[w]))
        /\ row' = FailedRow(from)
        /\ InTransfer /\ UNCHANGED disk

\* The error goes to the FileState the worker began with. When a scan has
\* dropped that from _files, it goes nowhere.
Fail(w) ==
    \E from \in {"fail", "discarded", "late"} :
        /\ Advance(w, from, "release", Over(work[w]))
        /\ Write(w, FailedRow(from))
        /\ InTransfer /\ UNCHANGED disk

Settle_WithoutRelease(w) ==
    /\ Advance(w, "settle", "idle", IdleWork)
    /\ Write(w, [row EXCEPT !.status = IF disk.part = Nothing THEN "unknown" ELSE "paused",
                            !.part.size = disk.part.size])
    /\ InTransfer /\ UNCHANGED disk

\* _settle_cancelled_row: the .part stays, as the base for the next attempt.
Settle(w) ==
    /\ Advance(w, "settle", "release", Over(work[w]))
    /\ Write(w, [row EXCEPT !.status = IF disk.part = Nothing THEN "unknown" ELSE "paused",
                            !.part.size = disk.part.size])
    /\ InTransfer /\ UNCHANGED disk

\* The finally block. The event itself lives on in the hand of a cancel request
\* that is late, but nobody asks it any more.
Release(w) ==
    /\ Advance(w, "release", "idle", IdleWork)
    /\ flag' = NoEvent
    /\ event' = [event EXCEPT ![w] = NoEvent]
    /\ raised' = raised \ {event[w]}
    /\ asked' = asked \ {w}
    /\ OutsideWorkers /\ UNCHANGED <<disk, row, hand>>

Worker(w) ==
    \/ HeadAnswered(w) \/ HeadTransient(w) \/ HeadRefused(w) \/ HeadWaitOver(w)
    \/ RecordFigures(w) \/ TakeOffset(w)
    \/ RequestCancelled(w) \/ RequestSatisfied(w) \/ RequestOpened(w)
    \/ RequestRetried(w) \/ RequestRefused(w)
    \/ ConnectionLost(w) \/ WaitOver(w) \/ Refreshed(w)
    \/ Chunk(w) \/ StreamOver(w) \/ StreamFailed(w) \/ Received(w)
    \/ VerifyMatch(w) \/ VerifyKeep(w) \/ VerifyMismatch(w)
    \/ Publish(w) \/ Stamp(w) \/ Finish(w) \/ Fail(w) \/ Settle(w) \/ Release(w)

(***************************************************************************)
(* The host, the user's hands on the directory, and the process.           *)
(***************************************************************************)
PublishBuild ==
    /\ host < MaxBuild
    /\ host' = host + 1
    /\ UNCHANGED <<disk, row, mapped, flag, event, raised, hand, asked, wpc, work, tpc, task, budget>>

MoveFiles ==
    /\ budget.files > 0
    /\ budget' = [budget EXCEPT !.files = @ - 1]
    /\ \/ /\ \E b \in 1 .. host : disk' = [disk EXCEPT !.full = [size |-> BuildSize[b], date |-> host]]
          /\ UNCHANGED work
       \/ /\ disk.full # Nothing
          /\ disk' = [disk EXCEPT !.full = Nothing]
          /\ UNCHANGED work
       \/ /\ disk.part # Nothing
          /\ disk' = Unlink(disk)
          /\ work' = Unlinked
    /\ UNCHANGED <<host, row, mapped, flag, event, raised, hand, asked, wpc, tpc, task>>

\* A restart keeps the directory, and the URL mapping if it was saved in time.
Restart ==
    /\ budget.restarts > 0
    /\ budget' = [budget EXCEPT !.restarts = @ - 1]
    /\ row' = RestartRow(disk)
    /\ mapped' \in {mapped, FALSE}
    /\ flag' = NoEvent
    /\ event' = [w \in Workers |-> NoEvent]
    /\ raised' = {}
    /\ hand' = [c \in Cancellers |-> NoEvent]
    /\ asked' = {}
    /\ wpc' = [w \in Workers |-> "idle"]
    /\ work' = [w \in Workers |-> IdleWork]
    /\ tpc' = [t \in Threads |-> "idle"]
    /\ task' = [t \in Threads |-> IdleTask]
    /\ UNCHANGED <<host, disk>>

Next ==
    \/ \E w \in Workers : StartDownload(w) \/ RegisterAndStart(w) \/ TakeUp(w) \/ Worker(w)
    \/ \E c \in Cancellers : CancelDownload(c) \/ CancelSet(c)
    \/ \E t \in Threads : Thread(t)
    \/ PublishBuild \/ MoveFiles \/ Restart

Spec == Init /\ [][Next]_vars

\* A thread that has begun goes on, and so do a worker and a cancel: every
\* request has a timeout, every wait an end. Nobody has to begin anything, and a
\* submission may wait in the executor for ever: others may hold its threads.
Progress(t) == tpc[t] # "idle" /\ Thread(t)
FairSpec ==
    /\ Spec
    /\ \A t \in Threads : WF_vars(Progress(t))
    /\ \A w \in Workers : WF_vars(Worker(w))
    /\ \A c \in Cancellers : WF_vars(CancelSet(c))

(***************************************************************************)
(* Properties.                                                             *)
(***************************************************************************)
\* Where a worker owns the row: from the click to the result it reports.
Owning == {"queued", "head", "headwait", "record", "offset", "request", "stream", "wait",
           "refresh", "received", "verify", "publish", "stamp", "finish",
           "settle", "fail", "discarded"}
WorkerPlaces == Owning \cup {"idle", "late", "release"}
\* Where a thread has a check under way, and everywhere it can be.
Checking == {"head", "answer"}
ThreadPlaces == Checking \cup {"idle", "unlink", "reset", "stat_full", "stat_part",
                               "sync", "lookup", "mark", "report"}

Statuses == PreservedStatuses \cup Verdicts \cup {"unknown", "absent"}
Faults == {"none", "check", "transfer", "discarded"}
AnyFigures == Figures(Nat, Nat)
FileFigures == [size : Nat, date : Nat] \cup {Nothing}

RowType == [status : Statuses, local : AnyFigures, part : AnyFigures,
            server : AnyFigures, error : Faults, discarded : BOOLEAN]
WorkType == [figures : AnyFigures, start : Nat, left : Nat, linked : BOOLEAN,
             attempt : Nat, loop : {"first", "fast", "slow"}, own : BOOLEAN]
TaskType == [op : {"none", "scan", "check", "discard"}, full : AnyFigures,
             part : AnyFigures, answer : AnyFigures, own : BOOLEAN]

\* Every variable holds what the code can put there: a row has a status that
\* FileState lists, figures are sizes and dates or nothing, and no chunk is
\* expected after the last.
TypeOK ==
    /\ host \in Builds
    /\ disk \in [full : FileFigures, part : FileFigures]
    /\ row \in RowType
    /\ mapped \in BOOLEAN
    /\ flag \in Events \cup {NoEvent}
    /\ event \in [Workers -> Events \cup {NoEvent}]
    /\ raised \in SUBSET Events
    /\ hand \in [Cancellers -> Events \cup {NoEvent}]
    /\ asked \in SUBSET Workers
    /\ wpc \in [Workers -> WorkerPlaces]
    /\ work \in [Workers -> WorkType]
    /\ tpc \in [Threads -> ThreadPlaces]
    /\ task \in [Threads -> TaskType]
    /\ budget \in [files : Nat, restarts : Nat]

\* "A second worker must never append to the same .part file": no two workers
\* have the file at once, from the click to the end of the finally block.
SingleWorker == \A v, w \in Workers : wpc[v] # "idle" /\ wpc[w] # "idle" => v = w

\* A row shows a transfer exactly while a worker carries it out, and that
\* worker writes to the row everyone reads: no scan, check or discard, however
\* late, takes the row from it, and no row is left with a progress bar that
\* nothing will ever move or clear.
TransferHasItsWorker ==
    /\ \A w \in Workers : wpc[w] \in Owning => Active /\ work[w].own
    /\ Active => \E w \in Workers : wpc[w] \in Owning

\* A cancel stops the transfer it was meant for and no later one: a worker finds
\* its event set only if a cancel has come since the click that started it,
\* however late an earlier cancel sets the event it has looked up.
CancelIsForThisTransfer ==
    \A w \in Workers : wpc[w] # "idle" /\ Cancelled(w) => w \in asked

\* A row that says "checking" has a check under way that will write its answer
\* to this very row, so that the status is cleared, whichever of several checks
\* answers first and whatever the directory looks like by then.
CheckingHasItsCheck ==
    row.status = "checking" => \E t \in Threads : tpc[t] \in Checking /\ task[t].own

\* Whoever may write to the row found it in _files, and it is still there.
HoldersHaveTheRow ==
    /\ \A t \in Threads : task[t].own => Tracked
    /\ \A w \in Workers : work[w].own => Tracked

\* The event in _cancel_flags is the event of the worker that has the file, there
\* is one exactly while there is such a worker, and no other is set for anybody.
FlagIsHeld ==
    /\ \A w \in Workers : event[w] = IF wpc[w] = "idle" THEN NoEvent ELSE flag
    /\ \A w \in Workers : wpc[w] # "idle" => flag # NoEvent
    /\ flag # NoEvent => \E w \in Workers : wpc[w] # "idle"
    /\ raised \subseteq {flag}

\* The event of a transfer is in nobody's hand before a cancel has come for it.
HandsHoldAsked ==
    \A w \in Workers, c \in Cancellers :
        wpc[w] # "idle" /\ hand[c] = event[w] => w \in asked

\* The message that the bytes were discarded and the mark that keeps the row
\* for it go together.
ReportIsFlagged == row.error = "discarded" => row.discarded

\* Who owns the row: the properties above, and the four facts they rest on. No
\* scan, check, discard, start or transfer leads out of their conjunction.
Ownership ==
    /\ SingleWorker
    /\ FlagIsHeld
    /\ TransferHasItsWorker
    /\ CancelIsForThisTransfer
    /\ HandsHoldAsked
    /\ CheckingHasItsCheck
    /\ HoldersHaveTheRow
    /\ ReportIsFlagged

\* The two verdicts that offer a download agree with the figures in the same
\* row, after any interleaving of scans, checks, transfers and registrations.
OffersFollowFigures ==
    row.status \in {"not_downloaded", "update_available"} =>
        row.status = Freshness(row.local, row.part, row.server)

\* The only report of a download whose bytes the tool removed itself outlives
\* the file: no scan takes it away, only a restart does.
DiscardedReportStays ==
    [][row.status = "error" /\ row.error = "discarded" /\ row'.status = "absent"
       => budget'.restarts < budget.restarts]_vars

\* What the download tab sees of the row.
Phase ==
    CASE row.status = "absent" -> "absent"
      [] row.status \in ActiveStatuses -> "transfer"
      [] row.status = "checking" -> "checking"
      [] row.status = "error" -> "error"
      [] OTHER -> "idle"

Lifecycle == INSTANCE RowLifecycle WITH
    phase <- Phase,
    owned <- flag # NoEvent,
    epoch <- MaxRestarts - budget.restarts

\* The row keeps the promises of RowLifecycle.
LifecycleKept == Lifecycle!Spec

\* A check that was begun does not leave the row "checking" for ever.
CheckEnds == row.status = "checking" ~> row.status # "checking"

\* A transfer that a thread of the pool has taken up and that a cancel has come
\* for ends and frees the row, wherever the cancel caught it: waiting for the
\* host, retrying, receiving, verifying.
CancelSettles ==
    \A w \in Workers : wpc[w] \notin {"idle", "queued"} /\ w \in asked ~> flag = NoEvent

(***************************************************************************)
(* What the comments of the code say, and the code does not keep.          *)
(***************************************************************************)
\* _sync_local_state drops a row only when nothing is left of it on disk.
DroppedOnlyWhenGone ==
    [][Tracked /\ row'.status = "absent" => disk.full = Nothing /\ disk.part = Nothing]_vars

\* discard_partial does not remove the .part of a transfer.
DiscardSparesTransfers ==
    [][\A t \in Threads :
         /\ tpc[t] = "unlink" /\ tpc'[t] = "reset"
         /\ disk.part # Nothing /\ disk'.part = Nothing
         => ~ Active]_vars

\* discard_partial finds the row it has just brought up to date.
DiscardFindsItsRow == \A t \in Threads : tpc[t] = "report" => Tracked

\* A row does not stay for the sake of a failed check once the file it showed
\* has been deleted (only the user deletes a complete file).
FailedCheckPinsNothing ==
    [][\A t \in Threads :
         /\ tpc[t] = "sync" /\ tpc'[t] # "sync" /\ budget' = budget
         /\ SawNothing(t)
         /\ row.status = "error" /\ row.error = "check" /\ row.local # Nothing
         => row'.status = "absent"]_vars

\* A row that says "up_to_date" is up to date by its own figures.
UpToDateIsCurrent ==
    row.status = "up_to_date" =>
        \/ row.server = Nothing
        \/ Freshness(row.local, row.part, row.server) = "up_to_date"

=============================================================================
