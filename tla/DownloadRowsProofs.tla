-------------------------- MODULE DownloadRowsProofs --------------------------
(***************************************************************************)
(* Theorems about DownloadRows, for every number of threads, workers,      *)
(* builds and chunks. Type correctness comes first; the ownership of the   *)
(* row is then an inductive invariant, from which the promises of          *)
(* RowLifecycle follow step by step.                                       *)
(***************************************************************************)
EXTENDS DownloadRows, TLAPS

(***************************************************************************)
(* What the operators of Freshness return.                                 *)
(***************************************************************************)
LEMMA FreshnessIsAVerdict ==
    \A local, part, server : Freshness(local, part, server) \in Verdicts
BY DEF Freshness, CompleteVerdict, Verdicts

LEMMA ScannedStatusIsAStatus ==
    \A local, part, server :
        ScannedStatus(local, part, server) \in Verdicts \cup {"unknown"}
BY FreshnessIsAVerdict DEF ScannedStatus, Verdicts

\* "One rule with two users" (_is_superseded): whenever a check, or a scan of a
\* row that has been checked, offers to resume a partial, a worker given the same
\* figures does resume it, from a positive offset, and does not throw it away.
\* A row never checked says "paused" for any .part there is: the second part of
\* the conclusion is all that follows for it, and the worker asks the host first.
THEOREM PausedIsResumed ==
    ASSUME NEW local \in AnyFigures, NEW part \in AnyFigures, NEW server \in AnyFigures
    PROVE  /\ \/ Freshness(local, part, server) = "paused"
              \/ server # Nothing /\ ScannedStatus(local, part, server) = "paused"
              => /\ ResumeOffset(part, server.date) = part.size
                 /\ part.size > 0
                 /\ PartAfterOffset(part, server.date) = part
           /\ ScannedStatus(local, part, Nothing) = "paused" <=> part # Nothing
<1>1. ScannedStatus(local, part, Nothing) = "paused" <=> part # Nothing
  BY DEF ScannedStatus
<1>2. server # Nothing => ScannedStatus(local, part, server) = Freshness(local, part, server)
  BY DEF ScannedStatus
<1>3. ASSUME Freshness(local, part, server) = "paused"
      PROVE  /\ ResumeOffset(part, server.date) = part.size
             /\ part.size > 0
             /\ PartAfterOffset(part, server.date) = part
  <2>1. Resumable(part, server)
    BY <1>3 DEF Freshness, CompleteVerdict
  <2>2. part.size > 0 /\ ~ IsSuperseded(server.date, part.date)
    BY <2>1 DEF Resumable
  <2>3. part # Nothing
    BY <2>2 DEF Nothing
  <2> QED
    BY <2>2, <2>3 DEF ResumeOffset, PartAfterOffset
<1> QED
  BY <1>1, <1>2, <1>3

LEMMA NothingIsFigures == Nothing \in AnyFigures
BY DEF Nothing, AnyFigures, Figures

LEMMA PublishedType ==
    ASSUME NEW b \in Builds
    PROVE  Published(b) \in AnyFigures
BY BuildSizeAssumption, BoundsAssumption DEF Published, AnyFigures, Figures, Builds

LEMMA NewRowType == NewRow \in RowType /\ NoRow \in RowType
BY NothingIsFigures DEF NewRow, NoRow, RowType, Statuses, Faults

LEMMA ScannedRowType ==
    ASSUME NEW r \in RowType, NEW full \in AnyFigures, NEW part \in AnyFigures
    PROVE  ScannedRow(r, full, part) \in RowType
BY ScannedStatusIsAStatus DEF ScannedRow, RowType, Statuses

LEMMA JudgedType ==
    ASSUME NEW r \in RowType, NEW answer \in AnyFigures
    PROVE  Judged(r, answer) \in RowType
BY FreshnessIsAVerdict DEF Judged, RowType, Statuses, Faults

LEMMA FileFiguresAreFigures == FileFigures \subseteq AnyFigures
BY NothingIsFigures DEF FileFigures, AnyFigures, Figures

LEMMA ResumeOffsetType ==
    ASSUME NEW part \in FileFigures, NEW date
    PROVE  /\ ResumeOffset(part, date) \in Nat
           /\ PartAfterOffset(part, date) \in FileFigures
BY DEF ResumeOffset, PartAfterOffset, FileFigures, Nothing

(***************************************************************************)
(* Type correctness.                                                       *)
(***************************************************************************)
LEMMA IdleTypes == IdleWork \in WorkType /\ IdleTask \in TaskType
BY NothingIsFigures DEF IdleWork, IdleTask, WorkType, TaskType

LEMMA ClosedTypes ==
    ASSUME NEW h \in WorkType
    PROVE  Closed(h) \in WorkType /\ Over(h) \in WorkType
BY IdleTypes DEF Closed, Over, WorkType

LEMMA WriteType ==
    ASSUME row \in RowType, NEW w, NEW r \in RowType, Write(w, r)
    PROVE  row' \in RowType
BY DEF Write

LEMMA WriteStatusType ==
    ASSUME row \in RowType, NEW w, NEW status \in Statuses, WriteStatus(w, status)
    PROVE  row' \in RowType
BY DEF WriteStatus, Write, RowType

LEMMA AdvanceType ==
    ASSUME TypeOK, NEW w \in Workers, NEW from, NEW to \in WorkerPlaces,
           NEW h \in WorkType, Advance(w, from, to, h)
    PROVE  wpc' \in [Workers -> WorkerPlaces] /\ work' \in [Workers -> WorkType]
BY DEF TypeOK, Advance

LEMMA RestartRowType ==
    ASSUME TypeOK
    PROVE  RestartRow(disk) \in RowType
BY NewRowType, ScannedRowType, FileFiguresAreFigures DEF TypeOK, RestartRow

LEMMA TypeInit == Init => TypeOK
<1> SUFFICES ASSUME Init PROVE TypeOK
  OBVIOUS
<1>1. host \in Builds
  BY BoundsAssumption DEF Init, Builds
<1>2. disk \in [full : FileFigures, part : FileFigures]
  BY BuildSizeAssumption, BoundsAssumption DEF Init, Builds, FileFigures
<1>3. row \in RowType
  BY <1>2, NewRowType, ScannedRowType, FileFiguresAreFigures DEF Init, RestartRow
<1>4. budget \in [files : Nat, restarts : Nat]
  BY BoundsAssumption DEF Init
<1> QED
  BY <1>1, <1>2, <1>3, <1>4, IdleTypes DEF Init, TypeOK, WorkerPlaces, ThreadPlaces

LEMMA TypeThread ==
    ASSUME TypeOK, NEW t \in Threads, Thread(t)
    PROVE  TypeOK'
<1> USE DEF OutsideThreads
<1>1. ASSUME NEW op \in Operations, Begin(t, op) PROVE TypeOK'
  <2>1. op \in {"none", "scan", "check", "discard"} /\ disk.full \in AnyFigures
    BY OperationsAssumption, FileFiguresAreFigures DEF TypeOK
  <2>2. [task[t] EXCEPT !.op = op, !.full = disk.full] \in TaskType
    BY <2>1 DEF TypeOK, TaskType
  <2>3. task' \in [Threads -> TaskType]
    BY <1>1, <2>2 DEF TypeOK, Begin
  <2> QED
    BY <1>1, <2>3 DEF TypeOK, ThreadPlaces, Begin, Goto
<1>2. CASE BeginDiscard(t)
  BY ZenonT(40), <1>2 DEF TypeOK, TaskType, ThreadPlaces, BeginDiscard, Goto
<1>3. CASE DiscardUnlink(t)
  <2>1. disk' \in [full : FileFigures, part : FileFigures]
    BY <1>3 DEF TypeOK, FileFigures, DiscardUnlink, Unlink
  <2>2. work' \in [Workers -> WorkType]
    BY ZenonT(40), <1>3 DEF TypeOK, WorkType, DiscardUnlink, Unlinked
  <2> QED
    BY <1>3, <2>1, <2>2 DEF TypeOK, ThreadPlaces, DiscardUnlink, Goto
<1>17. CASE DiscardFails(t)
  BY <1>17, IdleTypes DEF TypeOK, ThreadPlaces, DiscardFails, Goto, Leave
<1>4. CASE DiscardReset(t)
  BY <1>4 DEF TypeOK, RowType, Statuses, Faults, ThreadPlaces, DiscardReset, Goto
<1>5. CASE StatFull(t)
  BY <1>5, FileFiguresAreFigures DEF TypeOK, TaskType, ThreadPlaces, StatFull, Goto
<1>6. CASE StatPart(t)
  BY <1>6, FileFiguresAreFigures DEF TypeOK, TaskType, ThreadPlaces, StatPart, Goto
<1>7. ASSUME Synced(t)
      PROVE  tpc' \in [Threads -> ThreadPlaces] /\ task' \in [Threads -> TaskType]
  BY <1>7, IdleTypes, NothingIsFigures
  DEF TypeOK, TaskType, ThreadPlaces, Synced, AfterSync, Goto
<1>8. CASE SyncPresent(t)
  <2>1. row' \in RowType
    BY <1>8, NewRowType, ScannedRowType DEF TypeOK, TaskType, SyncPresent
  <2> QED
    BY <1>7, <1>8, <2>1 DEF TypeOK, SyncPresent
<1>9. CASE SyncKeep(t)
  <2>1. row' \in RowType
    BY <1>9, NothingIsFigures DEF TypeOK, RowType, AnyFigures, Figures, SyncKeep
  <2> QED
    BY <1>7, <1>9, <2>1 DEF TypeOK, SyncKeep
<1>10. CASE SyncDrop(t)
  <2>1. task' \in [Threads -> TaskType]
    <3>1. \A u \in Threads : [task[u] EXCEPT !.own = FALSE] \in TaskType
      BY DEF TypeOK, TaskType
    <3> QED
      BY <1>10, <3>1, IdleTypes DEF SyncDrop
  <2>2. work' \in [Workers -> WorkType]
    BY ZenonT(40), <1>10 DEF TypeOK, WorkType, SyncDrop
  <2> QED
    BY <1>10, <2>1, <2>2, NewRowType DEF TypeOK, ThreadPlaces, SyncDrop
<1>11. CASE CheckLookup(t)
  <2>1. row' \in RowType
    BY <1>11, NewRowType DEF TypeOK, CheckLookup
  <2>2. CASE Leave(t, "lookup")
    BY <1>11, <2>1, <2>2, IdleTypes DEF TypeOK, ThreadPlaces, CheckLookup, Goto, Leave
  <2>3. CASE Goto(t, "lookup", "mark") /\ task' = [task EXCEPT ![t].own = TRUE]
    BY ZenonT(40), <1>11, <2>1, <2>3 DEF TypeOK, TaskType, ThreadPlaces, CheckLookup, Goto
  <2> QED
    BY <1>11, <2>2, <2>3 DEF CheckLookup
<1>12. CASE CheckMark(t)
  BY <1>12 DEF TypeOK, RowType, Statuses, PreservedStatuses, ThreadPlaces, Checking, CheckMark, Goto
<1>13. CASE CheckAnswered(t)
  BY <1>13, PublishedType DEF TypeOK, TaskType, ThreadPlaces, Checking, CheckAnswered, Goto
<1>14. CASE CheckVerdict(t)
  BY <1>14, JudgedType, IdleTypes DEF TypeOK, TaskType, ThreadPlaces, CheckVerdict, Goto, Leave
<1>15. CASE CheckFailed(t)
  BY <1>15, IdleTypes
  DEF TypeOK, RowType, Statuses, PreservedStatuses, Faults, ThreadPlaces, CheckFailed, Goto, Leave
<1>16. CASE DiscardReport(t)
  BY <1>16, IdleTypes DEF TypeOK, ThreadPlaces, DiscardReport, Goto, Leave
<1> QED
  BY <1>1, <1>2, <1>3, <1>4, <1>5, <1>6, <1>8, <1>9, <1>10, <1>11, <1>12, <1>13, <1>14,
     <1>15, <1>16, <1>17 DEF Thread

\* A worker's step is type correct if what it does to the disk and to the row
\* is, the rest being an Advance.
LEMMA TypeAdvance ==
    ASSUME TypeOK, NEW w \in Workers, NEW from, NEW to \in WorkerPlaces,
           NEW h \in WorkType, Advance(w, from, to, h), InTransfer,
           disk' \in [full : FileFigures, part : FileFigures], row' \in RowType
    PROVE  TypeOK'
<1>1. wpc' \in [Workers -> WorkerPlaces] /\ work' \in [Workers -> WorkType]
  BY AdvanceType
<1> QED
  BY <1>1 DEF TypeOK, InTransfer, OutsideWorkers

LEMMA TypeWorker ==
    ASSUME TypeOK, NEW w \in Workers, Worker(w)
    PROVE  TypeOK'
<1> DEFINE DiskOK == disk' \in [full : FileFigures, part : FileFigures]
           StepOK == \E from, to \in WorkerPlaces : \E h \in WorkType :
                        Advance(w, from, to, h) /\ InTransfer
<1>0. ASSUME StepOK, DiskOK, row' \in RowType PROVE TypeOK'
  BY <1>0, TypeAdvance
<1>a. /\ work[w] \in WorkType /\ Over(work[w]) \in WorkType /\ Closed(work[w]) \in WorkType
      /\ row \in RowType /\ Published(host) \in AnyFigures
      /\ disk \in [full : FileFigures, part : FileFigures]
  BY ClosedTypes, PublishedType DEF TypeOK
<1>b. UNCHANGED disk => DiskOK
  BY <1>a
<1>c. UNCHANGED row => row' \in RowType
  BY <1>a
<1>d. \A s \in Statuses : WriteStatus(w, s) => row' \in RowType
  BY <1>a, WriteStatusType
<1>e. {"waiting_retry", "downloading", "verifying", "up_to_date"} \subseteq Statuses
  BY DEF Statuses, PreservedStatuses, ActiveStatuses, Verdicts
<1> HIDE DEF DiskOK
<1>1. CASE HeadAnswered(w)
  <2>1. [work[w] EXCEPT !.figures = Published(host)] \in WorkType
    BY <1>a DEF WorkType
  <2> QED
    BY <1>0, <1>1, <1>b, <1>c, <2>1 DEF HeadAnswered, WorkerPlaces, Owning
<1>2. CASE HeadTransient(w)
  BY <1>0, <1>2, <1>a, <1>b, <1>c, <1>d, <1>e DEF HeadTransient, WorkerPlaces, Owning
<1>3. CASE HeadRefused(w)
  BY <1>0, <1>3, <1>a, <1>b, <1>c DEF HeadRefused, WorkerPlaces, Owning
<1>4. CASE HeadWaitOver(w)
  BY <1>0, <1>4, <1>a, <1>b, <1>c, <1>d, <1>e DEF HeadWaitOver, WorkerPlaces, Owning
<1>5. CASE RecordFigures(w)
  <2>1. row' \in RowType
    BY <1>5, <1>a DEF RecordFigures, Write, RowType, WorkType
  <2> QED
    BY <1>0, <1>5, <1>a, <1>b, <2>1 DEF RecordFigures, WorkerPlaces, Owning
<1>6. CASE TakeOffset(w)
  <2>1. WithOffset(work[w]) \in WorkType
    BY <1>a, ResumeOffsetType DEF WithOffset, WorkType
  <2>2. DiskOK
    BY <1>6, <1>a, ResumeOffsetType DEF TakeOffset, DiskOK
  <2>3. row' \in RowType
    BY <1>6, <1>c, <1>d, <1>e DEF TakeOffset
  <2>4. StepOK
    BY <1>6, <1>a, <2>1 DEF TakeOffset, WorkerPlaces, Owning
  <2> QED
    BY <1>0, <2>2, <2>3, <2>4
<1>7. CASE RequestCancelled(w)
  BY <1>0, <1>7, <1>a, <1>b, <1>c DEF RequestCancelled, WorkerPlaces, Owning
<1>8. CASE RequestSatisfied(w)
  BY <1>0, <1>8, <1>a, <1>b, <1>c DEF RequestSatisfied, WorkerPlaces, Owning
<1>9. CASE RequestOpened(w)
  <2>1. BuildSize[host] \in Nat /\ host \in Nat
    BY BuildSizeAssumption, BoundsAssumption DEF TypeOK, Builds
  <2>2. \A n \in Nat : [work[w] EXCEPT !.start = 0, !.left = n, !.linked = TRUE] \in WorkType
    BY <1>a DEF WorkType
  <2>3. work[w].start < BuildSize[host] => BuildSize[host] - work[w].start \in Nat
    BY <1>a, <2>1 DEF WorkType
  <2>4. StepOK
    <3>1. \/ /\ work[w].start < BuildSize[host]
             /\ Advance(w, "request", "stream",
                   [work[w] EXCEPT !.start = 0, !.left = BuildSize[host] - work[w].start, !.linked = TRUE])
          \/ Advance(w, "request", "stream",
                   [work[w] EXCEPT !.start = 0, !.left = BuildSize[host], !.linked = TRUE])
      BY <1>9 DEF RequestOpened
    <3>2. InTransfer
      BY <1>9 DEF RequestOpened
    <3> QED
      BY <2>1, <2>2, <2>3, <3>1, <3>2 DEF WorkerPlaces, Owning
  <2>5. DiskOK
    <3>1. [size |-> 0, date |-> host] \in FileFigures
      BY <2>1 DEF FileFigures
    <3> QED
      BY <1>9, <1>a, <3>1 DEF RequestOpened, DiskOK
  <2> QED
    BY <1>0, <1>9, <1>c, <2>4, <2>5 DEF RequestOpened
<1>10. CASE RequestRetried(w)
  <2>1. [work[w] EXCEPT !.attempt = @ + 1, !.loop = "fast"] \in WorkType
    <3>1. \A n \in Nat : [work[w] EXCEPT !.attempt = n, !.loop = "fast"] \in WorkType
      BY <1>a DEF WorkType
    <3>2. work[w].attempt + 1 \in Nat
      BY <1>a DEF WorkType
    <3> QED
      BY <3>1, <3>2
  <2> QED
    BY <1>0, <1>10, <1>b, <1>c, <2>1 DEF RequestRetried, WorkerPlaces, Owning
<1>11. CASE RequestRefused(w)
  BY <1>0, <1>11, <1>a, <1>b, <1>c DEF RequestRefused, WorkerPlaces, Owning
<1>12. CASE ConnectionLost(w)
  <2> DEFINE h == [Closed(work[w]) EXCEPT !.loop = "slow"]
  <2>1. h \in WorkType /\ Over(h) \in WorkType
    BY <1>a, ClosedTypes DEF WorkType
  <2> HIDE DEF h
  <2>2. PICK from \in {"request", "stream"} :
           /\ IF Cancelled(w)
              THEN Advance(w, from, "settle", Over(h)) /\ UNCHANGED row
              ELSE Advance(w, from, "wait", h) /\ WriteStatus(w, "waiting_retry")
           /\ InTransfer /\ UNCHANGED disk
    BY <1>12 DEF ConnectionLost, h
  <2> QED
    BY <1>0, <1>b, <1>c, <1>d, <1>e, <2>1, <2>2 DEF WorkerPlaces, Owning
<1>13. CASE WaitOver(w)
  BY <1>0, <1>13, <1>a, <1>b, <1>c DEF WaitOver, WorkerPlaces, Owning
<1>14. CASE Refreshed(w)
  <2>1. [work[w] EXCEPT !.figures = Published(host)] \in WorkType
    BY <1>a DEF WorkType
  <2> QED
    <3>1. \/ Advance(w, "refresh", "record", [work[w] EXCEPT !.figures = Published(host)])
          \/ Advance(w, "refresh", "offset", work[w])
      BY <1>14 DEF Refreshed
    <3>2. InTransfer /\ UNCHANGED <<disk, row>>
      BY <1>14 DEF Refreshed
    <3>3. StepOK
      BY <1>a, <2>1, <3>1, <3>2 DEF WorkerPlaces, Owning
    <3> QED
      BY <1>0, <1>b, <1>c, <3>2, <3>3

<1>15. CASE Chunk(w)
  <2>1. [work[w] EXCEPT !.left = @ - 1] \in WorkType
    BY <1>15, <1>a DEF Chunk, WorkType
  <2>2. DiskOK
    <3>1. disk.part.size + 1 \in Nat /\ host \in Nat
      BY <1>a, BoundsAssumption DEF TypeOK, Builds, FileFigures, Nothing
    <3>2. [size |-> disk.part.size + 1, date |-> host] \in FileFigures
      BY <3>1 DEF FileFigures
    <3> QED
      BY <1>15, <1>a, <3>2 DEF Chunk, DiskOK
  <2> QED
    BY <1>0, <1>15, <1>c, <2>1, <2>2 DEF Chunk, WorkerPlaces, Owning
<1>16. CASE StreamOver(w)
  BY <1>0, <1>16, <1>a, <1>b, <1>c DEF StreamOver, WorkerPlaces, Owning
<1>17. CASE StreamFailed(w)
  BY <1>0, <1>17, <1>a, <1>b, <1>c DEF StreamFailed, WorkerPlaces, Owning
<1>18. CASE Received(w)
  <2>1. row' \in RowType /\ DiskOK
    BY <1>18, <1>b, <1>c, <1>d, <1>e DEF Received
  <2>2. StepOK
    BY <1>18, <1>a DEF Received, WorkerPlaces, Owning
  <2> QED
    BY <1>0, <2>1, <2>2
<1>19. CASE VerifyMatch(w)
  BY <1>0, <1>19, <1>a, <1>b, <1>c DEF VerifyMatch, WorkerPlaces, Owning
<1>20. CASE VerifyKeep(w)
  BY <1>0, <1>20, <1>a, <1>b, <1>c DEF VerifyKeep, WorkerPlaces, Owning
<1>21. CASE VerifyMismatch(w)
  <2>1. DiskOK
    BY <1>21, <1>a DEF VerifyMismatch, Unlink, FileFigures, DiskOK
  <2> QED
    BY <1>0, <1>21, <1>a, <1>c, <2>1 DEF VerifyMismatch, WorkerPlaces, Owning
<1>22. CASE Publish(w)
  <2>1. DiskOK
    BY <1>22, <1>a DEF Publish, FileFigures, DiskOK
  <2> QED
    BY <1>0, <1>22, <1>a, <1>c, <2>1 DEF Publish, WorkerPlaces, Owning
<1>23. CASE Stamp(w)
  <2>1. DiskOK
    <3> DEFINE date == work[w].figures.date
    <3>1. date \in Nat
      BY <1>a DEF WorkType, AnyFigures, Figures
    <3> HIDE DEF date
    <3>2. UNCHANGED disk \/ (disk.full # Nothing /\ disk' = [disk EXCEPT !.full.date = date])
      BY <1>23 DEF Stamp, date
    <3> QED
      BY <1>a, <1>b, <3>1, <3>2 DEF FileFigures, DiskOK
  <2>2. StepOK /\ UNCHANGED row
    BY <1>23, <1>a DEF Stamp, WorkerPlaces, Owning
  <2> QED
    BY <1>0, <1>c, <2>1, <2>2
<1>24. CASE Finish(w)
  <2>1. row' \in RowType
    <3>1. [size |-> disk.full.size, date |-> work[w].figures.date] \in AnyFigures
      BY <1>a DEF FileFigures, Nothing, WorkType, AnyFigures, Figures
    <3>2. [row.part EXCEPT !.size = -1] \in AnyFigures
      BY <1>a DEF RowType, AnyFigures, Figures
    <3>3. \A l, part \in AnyFigures :
             [row EXCEPT !.status = "up_to_date", !.local = l, !.part = part] \in RowType
      BY <1>a, <1>e DEF RowType
    <3>4. CASE disk.full = Nothing
      BY <1>24, <1>d, <1>e, <3>4 DEF Finish
    <3>5. CASE disk.full # Nothing
      <4>1. Write(w, [row EXCEPT !.status = "up_to_date",
                                 !.local = [size |-> disk.full.size, date |-> work[w].figures.date],
                                 !.part.size = -1])
        BY <1>24, <3>5 DEF Finish
      <4> QED
        BY ZenonT(40), <1>a, <3>1, <3>2, <3>3, <4>1 DEF Write
    <3> QED
      BY <3>4, <3>5
  <2>2. StepOK /\ UNCHANGED disk
    BY <1>24, <1>a DEF Finish, WorkerPlaces, Owning
  <2> QED
    BY <1>0, <1>b, <2>1, <2>2
<1>25. CASE Fail(w)
  <2>1. row' \in RowType
    <3>1. \A fault \in Faults, b \in BOOLEAN :
             [row EXCEPT !.status = "error", !.error = fault, !.discarded = b] \in RowType
      BY <1>a DEF RowType, Statuses, PreservedStatuses
    <3>2. PICK from \in {"fail", "discarded", "late"} :
             Write(w, [row EXCEPT !.status = "error",
                                  !.error = IF from = "discarded" THEN "discarded" ELSE "transfer",
                                  !.discarded = from = "discarded"])
      BY <1>25 DEF Fail, FailedRow
    <3>3. CASE from = "discarded"
      BY <1>a, <3>1, <3>2, <3>3 DEF Write, Faults
    <3>4. CASE from # "discarded"
      BY <1>a, <3>1, <3>2, <3>4 DEF Write, Faults
    <3> QED
      BY <3>3, <3>4
  <2>2. StepOK /\ UNCHANGED disk
    BY <1>25, <1>a DEF Fail, WorkerPlaces, Owning
  <2> QED
    BY <1>0, <1>b, <2>1, <2>2
<1>26. CASE Settle(w)
  <2>1. row' \in RowType
    <3>1. disk.part.size \in Nat \cup {-1}
      BY <1>a DEF FileFigures, Nothing
    <3>2. [row.part EXCEPT !.size = disk.part.size] \in AnyFigures
      BY <1>a, <3>1 DEF RowType, AnyFigures, Figures
    <3>3. \A s \in {"unknown", "paused"}, part \in AnyFigures :
             [row EXCEPT !.status = s, !.part = part] \in RowType
      BY <1>a DEF RowType, Statuses, Verdicts
    <3>4. Write(w, [row EXCEPT !.status = IF disk.part = Nothing THEN "unknown" ELSE "paused",
                               !.part.size = disk.part.size])
      BY <1>26 DEF Settle
    <3> DEFINE status == IF disk.part = Nothing THEN "unknown" ELSE "paused"
               part == [row.part EXCEPT !.size = disk.part.size]
    <3>5. status \in {"unknown", "paused"} /\ part \in AnyFigures
      BY <3>2
    <3>6. row' = row \/ row' = [row EXCEPT !.status = status, !.part = part]
      BY <3>4 DEF Write
    <3> HIDE DEF status, part
    <3> QED
      BY <1>a, <3>3, <3>5, <3>6
  <2>2. StepOK /\ UNCHANGED disk
    BY <1>26, <1>a DEF Settle, WorkerPlaces, Owning
  <2> QED
    BY <1>0, <1>b, <2>1, <2>2
<1>27. CASE Release(w)
  <2>1. wpc' \in [Workers -> WorkerPlaces] /\ work' \in [Workers -> WorkType]
    BY <1>27, IdleTypes, AdvanceType DEF Release, WorkerPlaces
  <2> QED
    BY <1>27, <2>1 DEF TypeOK, Release, OutsideWorkers
<1> QED
  BY <1>1, <1>2, <1>3, <1>4, <1>5, <1>6, <1>7, <1>8, <1>9, <1>10, <1>11, <1>12, <1>13,
     <1>14, <1>15, <1>16, <1>17, <1>18, <1>19, <1>20, <1>21, <1>22, <1>23, <1>24, <1>25,
     <1>26, <1>27 DEF Worker

LEMMA TypeStart ==
    ASSUME TypeOK, NEW w \in Workers, StartDownload(w) \/ RegisterAndStart(w)
    PROVE  TypeOK'
<1>1. RegisteredRow \in RowType
  BY NewRowType, FileFiguresAreFigures
  DEF TypeOK, RegisteredRow, RowType, Statuses, Verdicts
<1>2. ASSUME NEW r \in RowType, Launch(w, r)
      PROVE  /\ row' \in RowType
             /\ flag' \in Events \cup {NoEvent}
             /\ event' \in [Workers -> Events \cup {NoEvent}]
             /\ asked' \in SUBSET Workers
             /\ UNCHANGED <<raised, hand>>
             /\ wpc' \in [Workers -> WorkerPlaces]
             /\ work' \in [Workers -> WorkType]
  <2>1. [IdleWork EXCEPT !.own = TRUE] \in WorkType
    BY IdleTypes DEF WorkType
  <2>2. [r EXCEPT !.status = "downloading", !.error = "none", !.discarded = FALSE] \in RowType
    BY <1>2 DEF RowType, Statuses, PreservedStatuses, ActiveStatuses, Faults
  <2> QED
    BY <1>2, <2>1, <2>2 DEF TypeOK, Launch, Handed, WorkerPlaces, Owning
<1>3. CASE StartDownload(w)
  BY <1>2, <1>3 DEF TypeOK, StartDownload
<1>4. CASE RegisterAndStart(w)
  BY <1>1, <1>2, <1>4 DEF TypeOK, RegisterAndStart
<1> QED
  BY <1>3, <1>4

LEMMA TypeTakeUp ==
    ASSUME TypeOK, NEW w \in Workers, TakeUp(w)
    PROVE  TypeOK'
<1>1. work[w] \in WorkType /\ "head" \in WorkerPlaces
  BY DEF TypeOK, WorkerPlaces, Owning
<1>2. wpc' \in [Workers -> WorkerPlaces] /\ work' \in [Workers -> WorkType]
  BY <1>1, AdvanceType DEF TakeUp
<1> QED
  BY <1>2 DEF TypeOK, TakeUp, InTransfer, OutsideWorkers

LEMMA TypeStep == TypeOK /\ [Next]_vars => TypeOK'
<1> SUFFICES ASSUME TypeOK, [Next]_vars PROVE TypeOK'
  OBVIOUS
<1>1. ASSUME NEW w \in Workers, StartDownload(w) \/ RegisterAndStart(w) PROVE TypeOK'
  BY <1>1, TypeStart
<1>2. ASSUME NEW w \in Workers, Worker(w) PROVE TypeOK'
  BY <1>2, TypeWorker
<1>3. ASSUME NEW c \in Cancellers, CancelDownload(c) \/ CancelSet(c) PROVE TypeOK'
  BY <1>3 DEF TypeOK, CancelDownload, CancelSet, Awaited
<1>9. ASSUME NEW w \in Workers, TakeUp(w) PROVE TypeOK'
  BY <1>9, TypeTakeUp
<1>4. ASSUME NEW t \in Threads, Thread(t) PROVE TypeOK'
  BY <1>4, TypeThread
<1>5. CASE PublishBuild
  BY <1>5, BoundsAssumption DEF TypeOK, PublishBuild, Builds
<1>6. CASE MoveFiles
  <2>1. disk' \in [full : FileFigures, part : FileFigures]
    <3>1. \A b \in 1 .. host : [size |-> BuildSize[b], date |-> host] \in FileFigures
      BY BuildSizeAssumption, BoundsAssumption DEF TypeOK, Builds, FileFigures
    <3> QED
      BY <1>6, <3>1 DEF TypeOK, MoveFiles, Unlink, FileFigures
  <2>2. work' \in [Workers -> WorkType]
    <3>1. Unlinked \in [Workers -> WorkType]
      BY ZenonT(40) DEF TypeOK, Unlinked, WorkType
    <3> QED
      BY <1>6, <3>1 DEF TypeOK, MoveFiles
  <2>3. budget' \in [files : Nat, restarts : Nat]
    BY <1>6 DEF TypeOK, MoveFiles
  <2> QED
    BY <1>6, <2>1, <2>2, <2>3 DEF TypeOK, MoveFiles
<1>7. CASE Restart
  <2>1. budget' \in [files : Nat, restarts : Nat]
    BY <1>7 DEF TypeOK, Restart
  <2> QED
    BY <1>7, <2>1, RestartRowType, IdleTypes DEF TypeOK, Restart, WorkerPlaces, ThreadPlaces
<1>8. CASE UNCHANGED vars
  BY <1>8 DEF TypeOK, vars
<1> QED
  BY <1>1, <1>2, <1>3, <1>4, <1>5, <1>6, <1>7, <1>8, <1>9 DEF Next

\* Rows, files, workers and threads only ever hold what the code can put there.
THEOREM TypeCorrect == Spec => []TypeOK
<1>1. Init => TypeOK
  BY TypeInit
<1>2. TypeOK /\ [Next]_vars => TypeOK'
  BY TypeStep
<1> QED
  BY <1>1, <1>2, PTL DEF Spec

(***************************************************************************)
(* Who owns the row.                                                       *)
(***************************************************************************)
\* Who holds the row, whose event is in _cancel_flags, and for whom a cancel has
\* come: nothing of that changes while no worker begins or ends.
LEMMA SameHolders ==
    ASSUME Ownership, UNCHANGED <<flag, event, raised, hand, asked>>,
           \A v \in Workers : wpc'[v] = "idle" <=> wpc[v] = "idle"
    PROVE  SingleWorker' /\ FlagIsHeld' /\ CancelIsForThisTransfer' /\ HandsHoldAsked'
<1> USE DEF Ownership
<1>1. SingleWorker'
  BY DEF SingleWorker
<1>2. FlagIsHeld'
  BY DEF FlagIsHeld
<1>3. CancelIsForThisTransfer'
  BY DEF CancelIsForThisTransfer, Cancelled
<1>4. HandsHoldAsked'
  BY DEF HandsHoldAsked
<1> QED
  BY <1>1, <1>2, <1>3, <1>4

\* A worker that owns the row and goes on owning it.
LEMMA WorkerGoesOn ==
    ASSUME TypeOK, TypeOK', Ownership, NEW w \in Workers, NEW from \in Owning, NEW to \in Owning,
           NEW h, h.own = work[w].own, Advance(w, from, to, h), InTransfer,
           row'.status \in ActiveStatuses,
           row'.error = row.error, row'.discarded = row.discarded
    PROVE  Ownership'
<1>1. SingleWorker' /\ FlagIsHeld' /\ CancelIsForThisTransfer' /\ HandsHoldAsked'
  <2>1. \A v \in Workers : wpc'[v] = "idle" <=> wpc[v] = "idle"
    BY DEF TypeOK, Advance, Owning, WorkerPlaces
  <2> QED
    BY <2>1, SameHolders DEF InTransfer
<1>2. \A v \in Workers : work'[v].own = work[v].own
  BY DEF TypeOK, Advance
<1>3. TransferHasItsWorker'
  BY <1>2 DEF TypeOK, Ownership, TransferHasItsWorker, Advance, Active
<1>5. CheckingHasItsCheck'
  BY DEF CheckingHasItsCheck, ActiveStatuses
<1>6. HoldersHaveTheRow'
  BY DEF HoldersHaveTheRow, Tracked, ActiveStatuses
<1>7. ReportIsFlagged'
  BY DEF Ownership, ReportIsFlagged
<1> QED
  BY <1>1, <1>3, <1>5, <1>6, <1>7 DEF Ownership

\* A worker that has reported its result.
LEMMA WorkerReports ==
    ASSUME TypeOK, TypeOK', Ownership, NEW w \in Workers, NEW from \in WorkerPlaces \ {"idle"},
           NEW to \in {"late", "release"},
           NEW h, h.own = work[w].own, Advance(w, from, to, h), InTransfer,
           row'.status \notin ActiveStatuses,
           row'.status = "checking" => row.status = "checking",
           Tracked => row'.status # "absent",
           row'.error = "discarded" => row'.discarded
    PROVE  Ownership'
<1>1. SingleWorker' /\ FlagIsHeld' /\ CancelIsForThisTransfer' /\ HandsHoldAsked'
  <2>1. \A v \in Workers : wpc'[v] = "idle" <=> wpc[v] = "idle"
    BY DEF TypeOK, Advance, Owning, WorkerPlaces
  <2> QED
    BY <2>1, SameHolders DEF InTransfer
<1>2. \A v \in Workers : work'[v].own = work[v].own
  BY DEF TypeOK, Advance
<1>3. TransferHasItsWorker'
  <2>1. \A v \in Workers : wpc[v] # "idle" => v = w
    BY DEF Ownership, SingleWorker, Advance, WorkerPlaces
  <2>2. wpc'[w] \notin Owning /\ \A v \in Workers \ {w} : wpc'[v] = wpc[v]
    BY DEF TypeOK, Advance, Owning
  <2> QED
    BY <2>1, <2>2 DEF TransferHasItsWorker, Active, Owning
<1>5. CheckingHasItsCheck'
  BY DEF Ownership, CheckingHasItsCheck, InTransfer, OutsideWorkers
<1>6. HoldersHaveTheRow'
  BY <1>2 DEF Ownership, HoldersHaveTheRow, Tracked, InTransfer, OutsideWorkers
<1>7. ReportIsFlagged'
  BY DEF ReportIsFlagged
<1> QED
  BY <1>1, <1>3, <1>5, <1>6, <1>7 DEF Ownership

\* A thread that leaves a transfer alone, and starts none.
LEMMA ThreadSparesTransfers ==
    ASSUME TypeOK, TypeOK', Ownership,
           UNCHANGED <<flag, event, raised, hand, asked, wpc>>,
           Active => row'.status = row.status /\ \A w \in Workers : work'[w].own = work[w].own,
           ~ Active => row'.status \notin ActiveStatuses
    PROVE  /\ SingleWorker' /\ FlagIsHeld' /\ CancelIsForThisTransfer' /\ HandsHoldAsked'
           /\ TransferHasItsWorker'
<1>1. SingleWorker' /\ FlagIsHeld' /\ CancelIsForThisTransfer' /\ HandsHoldAsked'
  BY SameHolders
<1>2. TransferHasItsWorker'
  BY DEF Ownership, TransferHasItsWorker, Active
<1> QED
  BY <1>1, <1>2

LEMMA SyncedStatuses ==
    \A r \in RowType : \A full, part :
          /\ r.status \in ActiveStatuses => ScannedRow(r, full, part).status = r.status
          /\ ScannedRow(r, full, part).status \in ActiveStatuses => r.status \in ActiveStatuses
          /\ ScannedRow(r, full, part).status = "checking" => r.status = "checking"
          /\ ScannedRow(r, full, part).status = "absent" => r.status = "absent"
          /\ ScannedRow(r, full, part).error = r.error
          /\ ScannedRow(r, full, part).discarded = r.discarded
<1>1. \A r \in RowType : \A full, part :
         ScannedRow(r, full, part).status = IF r.status \in PreservedStatuses THEN r.status
                                           ELSE ScannedStatus(full, part, r.server)
  BY DEF ScannedRow, RowType
<1>2. \A full, part, server :
         ScannedStatus(full, part, server) \notin ActiveStatuses \cup {"checking", "absent"}
  BY ScannedStatusIsAStatus DEF Verdicts, ActiveStatuses
<1> QED
  BY <1>1, <1>2 DEF ScannedRow, RowType, PreservedStatuses

LEMMA OwnershipThread ==
    ASSUME TypeOK, TypeOK', Ownership, NEW t \in Threads, Thread(t)
    PROVE  Ownership'
<1> DEFINE Rest == CheckingHasItsCheck' /\ HoldersHaveTheRow' /\ ReportIsFlagged'
<1>0. ASSUME UNCHANGED <<flag, event, raised, hand, asked, wpc>>,
             Active => row'.status = row.status /\ \A w \in Workers : work'[w].own = work[w].own,
             ~ Active => row'.status \notin ActiveStatuses,
             Rest
      PROVE  Ownership'
  BY <1>0, ThreadSparesTransfers DEF Ownership
<1>a. ASSUME UNCHANGED <<row, flag, event, raised, hand, asked, wpc>>,
             \A w \in Workers : work'[w].own = work[w].own,
             \A u \in Threads : task'[u].own => task[u].own,
             \A u \in Threads : tpc[u] \in Checking /\ task[u].own /\ row.status = "checking"
                                => tpc'[u] \in Checking /\ task'[u].own
      PROVE  Ownership'
  BY <1>0, <1>a
  DEF Ownership, CheckingHasItsCheck, HoldersHaveTheRow, ReportIsFlagged, Active, Tracked
<1>1. ASSUME NEW op \in Operations, Begin(t, op) PROVE Ownership'
  BY <1>1, <1>a DEF TypeOK, TaskType, Begin, Goto, OutsideThreads, Checking
<1>2. CASE BeginDiscard(t)
  <2>1. \A u \in Threads : task'[u].own => task[u].own \/ u = t
    BY <1>2 DEF TypeOK, TaskType, BeginDiscard
  <2>2. Rest
    BY <1>2, <2>1 DEF Ownership, CheckingHasItsCheck, HoldersHaveTheRow, ReportIsFlagged,
                      TypeOK, TaskType, BeginDiscard, Goto, OutsideThreads, Tracked, Checking
  <2> QED
    BY <1>0, <1>2, <2>2 DEF BeginDiscard, OutsideThreads, Active
<1>3. CASE DiscardUnlink(t)
  <2>1. \A w \in Workers : work'[w].own = work[w].own
    BY <1>3 DEF TypeOK, WorkType, DiscardUnlink, Unlinked
  <2> QED
    BY <1>3, <1>a, <2>1 DEF TypeOK, DiscardUnlink, Goto, OutsideThreads, Checking
<1>18. CASE DiscardFails(t)
  <2>1. \A u \in Threads : task'[u].own => task[u].own
    BY <1>18 DEF TypeOK, DiscardFails, Leave, IdleTask
  <2>2. tpc[t] \notin Checking /\ \A u \in Threads \ {t} : task'[u] = task[u] /\ tpc'[u] = tpc[u]
    BY <1>18 DEF TypeOK, DiscardFails, Leave, Goto, Checking
  <2> QED
    BY <1>18, <1>a, <2>1, <2>2 DEF DiscardFails, OutsideThreads
<1>4. CASE DiscardReset(t)
  <2>1. /\ row.status \in ActiveStatuses \cup {"checking", "absent"} => row'.status = row.status
        /\ row.status \notin ActiveStatuses \cup {"checking", "absent"} =>
              row'.status \notin ActiveStatuses \cup {"checking", "absent"}
        /\ row'.error = "discarded" => row'.discarded
    BY <1>4 DEF TypeOK, Ownership, ReportIsFlagged, RowType, DiscardReset, ActiveStatuses
  <2>2. Rest
    BY <1>4, <2>1 DEF Ownership, CheckingHasItsCheck, HoldersHaveTheRow, ReportIsFlagged,
                      TypeOK, DiscardReset, Goto, OutsideThreads, Tracked, Checking
  <2> QED
    BY <1>0, <1>4, <2>1, <2>2 DEF DiscardReset, OutsideThreads, Active
<1>5. CASE StatFull(t)
  BY <1>5, <1>a DEF TypeOK, TaskType, StatFull, Goto, OutsideThreads, Checking
<1>6. CASE StatPart(t)
  BY <1>6, <1>a DEF TypeOK, TaskType, StatPart, Goto, OutsideThreads, Checking
<1>7. ASSUME Synced(t)
      PROVE  /\ \A u \in Threads : task'[u].own => task[u].own
             /\ \A u \in Threads \ {t} : task'[u] = task[u] /\ tpc'[u] = tpc[u]
             /\ tpc[t] = "sync"
  BY <1>7 DEF TypeOK, TaskType, Synced, Goto, IdleTask
<1>8. CASE SyncPresent(t)
  <2>1. /\ Active => row'.status = row.status
        /\ ~ Active => row'.status \notin ActiveStatuses
        /\ row'.status = "checking" => row.status = "checking"
        /\ row'.status # "absent"
        /\ row'.error = "discarded" => row'.discarded
    BY <1>8, SyncedStatuses, NewRowType
    DEF TypeOK, Ownership, ReportIsFlagged, SyncPresent, Active, Tracked, NewRow, ActiveStatuses
  <2>2. Rest
    BY <1>7, <1>8, <2>1 DEF Ownership, CheckingHasItsCheck, HoldersHaveTheRow, ReportIsFlagged,
                            SyncPresent, OutsideThreads, Tracked, Checking
  <2> QED
    BY <1>0, <1>8, <2>1, <2>2 DEF SyncPresent, OutsideThreads
<1>9. CASE SyncKeep(t)
  <2>1. row'.status = row.status /\ row'.error = row.error /\ row'.discarded = row.discarded
    BY <1>9 DEF TypeOK, RowType, SyncKeep
  <2>2. Rest
    BY <1>7, <1>9, <2>1 DEF Ownership, CheckingHasItsCheck, HoldersHaveTheRow, ReportIsFlagged,
                            SyncKeep, OutsideThreads, Tracked, Checking
  <2> QED
    BY <1>0, <1>9, <2>1, <2>2 DEF SyncKeep, OutsideThreads, Active
<1>10. CASE SyncDrop(t)
  <2>1. \A u \in Threads : ~ task'[u].own
    BY <1>10 DEF TypeOK, TaskType, SyncDrop, IdleTask
  <2>2. \A w \in Workers : ~ work'[w].own
    BY <1>10 DEF TypeOK, WorkType, SyncDrop
  <2>3. ~ Active /\ row' = NoRow
    BY <1>10 DEF SyncDrop, Survives
  <2>4. Rest
    BY <2>1, <2>2, <2>3
    DEF CheckingHasItsCheck, HoldersHaveTheRow, ReportIsFlagged, NoRow, NewRow
  <2> QED
    BY <1>0, <1>10, <2>3, <2>4 DEF SyncDrop, OutsideThreads, NoRow, NewRow, ActiveStatuses
<1>11. CASE CheckLookup(t)
  <2>1. /\ Tracked => row' = row
        /\ ~ Tracked => row' = NewRow
        /\ row'.status # "absent"
    BY <1>11 DEF CheckLookup, Tracked, NewRow
  <2>2. /\ UNCHANGED <<flag, event, raised, hand, asked, wpc, work>> /\ tpc[t] = "lookup"
        /\ \A u \in Threads \ {t} : task'[u] = task[u] /\ tpc'[u] = tpc[u]
    BY <1>11 DEF TypeOK, CheckLookup, Goto, Leave, OutsideThreads
  <2>3. Rest
    BY <2>1, <2>2 DEF Ownership, CheckingHasItsCheck, HoldersHaveTheRow, ReportIsFlagged,
                      Tracked, Checking, NewRow
  <2> QED
    BY <1>0, <2>1, <2>2, <2>3 DEF NewRow, Active, Tracked, ActiveStatuses
<1>12. CASE CheckMark(t)
  <2>1. /\ tpc[t] = "mark" /\ tpc' = [tpc EXCEPT ![t] = "head"]
        /\ UNCHANGED <<flag, event, raised, hand, asked, wpc, work, task>>
    BY <1>12 DEF CheckMark, Goto, OutsideThreads
  <2>2. /\ row'.status = IF task[t].own /\ ~ Active THEN "checking" ELSE row.status
        /\ row'.error = row.error /\ row'.discarded = row.discarded
    BY <1>12 DEF TypeOK, RowType, CheckMark
  <2>3. Rest
    BY <2>1, <2>2 DEF Ownership, CheckingHasItsCheck, HoldersHaveTheRow, ReportIsFlagged,
                      TypeOK, Tracked, Checking
  <2> QED
    BY <1>0, <2>1, <2>2, <2>3 DEF Active, ActiveStatuses
<1>13. CASE CheckAnswered(t)
  BY <1>13, <1>a DEF TypeOK, TaskType, CheckAnswered, Goto, OutsideThreads, Checking
<1>14. ASSUME NEW from, Leave(t, from)
      PROVE  /\ \A u \in Threads : task'[u].own => task[u].own
             /\ \A u \in Threads \ {t} : task'[u] = task[u] /\ tpc'[u] = tpc[u]
             /\ tpc[t] = from
  BY <1>14 DEF TypeOK, Leave, Goto, IdleTask
<1>15. CASE CheckVerdict(t)
  <2>1. /\ ~ task[t].own => row' = row
        /\ task[t].own => /\ Active => row'.status = row.status
                          /\ ~ Active => row'.status \in Verdicts
                          /\ row'.error \in {row.error, "none"}
                          /\ row'.discarded = row.discarded
    BY <1>15, FreshnessIsAVerdict DEF TypeOK, RowType, CheckVerdict, Judged, Active
  <2>2. Rest
    BY <1>14, <1>15, <2>1
    DEF Ownership, CheckingHasItsCheck, HoldersHaveTheRow, ReportIsFlagged, CheckVerdict,
        OutsideThreads, Tracked, Active, ActiveStatuses, Verdicts
  <2> QED
    BY <1>0, <1>15, <2>1, <2>2 DEF CheckVerdict, OutsideThreads, Active, ActiveStatuses, Verdicts
<1>16. CASE CheckFailed(t)
  <2>1. /\ ~ (task[t].own /\ ~ Active) => row' = row
        /\ task[t].own /\ ~ Active => row'.status = "error" /\ row'.error = "check"
    BY <1>16 DEF TypeOK, RowType, CheckFailed
  <2>2. Rest
    BY <1>14, <1>16, <2>1
    DEF Ownership, CheckingHasItsCheck, HoldersHaveTheRow, ReportIsFlagged, CheckFailed,
        OutsideThreads, Tracked, Active, ActiveStatuses
  <2> QED
    BY <1>0, <1>16, <2>1, <2>2 DEF CheckFailed, OutsideThreads, Active, ActiveStatuses
<1>17. CASE DiscardReport(t)
  <2>1. tpc[t] \notin Checking
    BY <1>14, <1>17 DEF DiscardReport, Checking
  <2> QED
    BY <1>14, <1>17, <1>a, <2>1 DEF DiscardReport, OutsideThreads
<1> QED
  BY <1>1, <1>2, <1>3, <1>4, <1>5, <1>6, <1>8, <1>9, <1>10, <1>11, <1>12, <1>13, <1>15,
     <1>16, <1>17, <1>18 DEF Thread

LEMMA OwnershipWorker ==
    ASSUME TypeOK, TypeOK', Ownership, NEW w \in Workers, Worker(w)
    PROVE  Ownership'
<1> DEFINE Keeps == /\ row'.status \in ActiveStatuses
                    /\ row'.error = row.error /\ row'.discarded = row.discarded
<1>0. ASSUME NEW from \in Owning, NEW to \in Owning, NEW h, h.own = work[w].own,
             Advance(w, from, to, h), InTransfer, wpc[w] \in Owning => Keeps
      PROVE  Ownership'
  BY <1>0, WorkerGoesOn DEF Advance
<1>a. wpc[w] \in Owning => work[w].own /\ row.status \in ActiveStatuses
  BY DEF Ownership, TransferHasItsWorker, Active
<1>b. wpc[w] \in Owning /\ UNCHANGED row => Keeps
  BY <1>a
<1>c. ASSUME NEW s \in ActiveStatuses, wpc[w] \in Owning, WriteStatus(w, s) PROVE Keeps
  BY <1>a, <1>c DEF WriteStatus, Write, TypeOK, RowType
<1>d. Over(work[w]).own = work[w].own /\ Closed(work[w]).own = work[w].own
  BY DEF Over, Closed, IdleWork
<1>e. {"downloading", "verifying", "waiting_retry"} \subseteq ActiveStatuses
  BY DEF ActiveStatuses
<1> HIDE DEF Keeps
<1> USE DEF Owning
<1>1. CASE HeadAnswered(w)
  <2>1. [work[w] EXCEPT !.figures = Published(host)].own = work[w].own
    BY DEF TypeOK, WorkType
  <2> QED
    BY <1>0, <1>1, <1>b, <2>1 DEF HeadAnswered
<1>2. CASE HeadTransient(w)
  <2>1. wpc[w] \in Owning => Keeps
    BY <1>2, <1>b, <1>c, <1>e DEF HeadTransient
  <2> QED
    BY <1>0, <1>2, <1>d, <2>1 DEF HeadTransient
<1>3. CASE HeadRefused(w)
  BY <1>0, <1>3, <1>b, <1>d DEF HeadRefused
<1>4. CASE HeadWaitOver(w)
  <2>1. wpc[w] \in Owning => Keeps
    BY <1>4, <1>b, <1>c, <1>e DEF HeadWaitOver
  <2> QED
    BY <1>0, <1>4, <1>d, <2>1 DEF HeadWaitOver
<1>5. CASE RecordFigures(w)
  <2>1. wpc[w] \in Owning => Keeps
    BY <1>5, <1>a DEF RecordFigures, Write, TypeOK, RowType, Keeps
  <2> QED
    BY <1>0, <1>5, <1>d, <2>1 DEF RecordFigures
<1>6. CASE TakeOffset(w)
  <2>1. wpc[w] \in Owning => Keeps
    BY <1>6, <1>b, <1>c, <1>e DEF TakeOffset
  <2>2. WithOffset(work[w]).own = work[w].own
    BY DEF WithOffset, TypeOK, WorkType
  <2> QED
    BY <1>0, <1>6, <1>d, <2>1, <2>2 DEF TakeOffset
<1>7. CASE RequestCancelled(w)
  BY <1>0, <1>7, <1>b, <1>d DEF RequestCancelled
<1>8. CASE RequestSatisfied(w)
  BY <1>0, <1>8, <1>b, <1>d DEF RequestSatisfied
<1>9. CASE RequestOpened(w)
  <2>1. \A n : [work[w] EXCEPT !.start = 0, !.left = n, !.linked = TRUE].own = work[w].own
    BY DEF TypeOK, WorkType
  <2>2. PICK n : Advance(w, "request", "stream",
                         [work[w] EXCEPT !.start = 0, !.left = n, !.linked = TRUE])
    BY <1>9 DEF RequestOpened
  <2> QED
    BY <1>0, <1>9, <1>b, <2>1, <2>2 DEF RequestOpened
<1>10. CASE RequestRetried(w)
  <2>1. [work[w] EXCEPT !.attempt = @ + 1, !.loop = "fast"].own = work[w].own
    BY DEF TypeOK, WorkType
  <2> QED
    BY <1>0, <1>10, <1>b, <2>1 DEF RequestRetried
<1>11. CASE RequestRefused(w)
  BY <1>0, <1>11, <1>b, <1>d DEF RequestRefused
<1>12. CASE ConnectionLost(w)
  <2> DEFINE h == [Closed(work[w]) EXCEPT !.loop = "slow"]
  <2>1. h.own = work[w].own /\ Over(h).own = work[w].own
    BY <1>d DEF Closed, Over, IdleWork
  <2> HIDE DEF h
  <2>2. PICK from \in {"request", "stream"} :
           /\ IF Cancelled(w)
              THEN Advance(w, from, "settle", Over(h)) /\ UNCHANGED row
              ELSE Advance(w, from, "wait", h) /\ WriteStatus(w, "waiting_retry")
           /\ InTransfer
    BY <1>12 DEF ConnectionLost, h
  <2>3. wpc[w] \in Owning => Keeps
    BY <1>b, <1>c, <1>e, <2>2
  <2> QED
    BY <1>0, <2>1, <2>2, <2>3
<1>13. CASE WaitOver(w)
  BY <1>0, <1>13, <1>b, <1>d DEF WaitOver
<1>14. CASE Refreshed(w)
  <2>1. [work[w] EXCEPT !.figures = Published(host)].own = work[w].own
    BY DEF TypeOK, WorkType
  <2>2. \/ Advance(w, "refresh", "record", [work[w] EXCEPT !.figures = Published(host)])
        \/ Advance(w, "refresh", "offset", work[w])
    BY <1>14 DEF Refreshed
  <2> QED
    BY <1>0, <1>14, <1>b, <2>1, <2>2 DEF Refreshed
<1>15. CASE Chunk(w)
  <2>1. [work[w] EXCEPT !.left = @ - 1].own = work[w].own
    BY DEF TypeOK, WorkType
  <2> QED
    BY <1>0, <1>15, <1>b, <2>1 DEF Chunk
<1>16. CASE StreamOver(w)
  BY <1>0, <1>16, <1>b, <1>d DEF StreamOver
<1>17. CASE StreamFailed(w)
  BY <1>0, <1>17, <1>b, <1>d DEF StreamFailed
<1>18. CASE Received(w)
  <2>1. wpc[w] \in Owning => Keeps
    BY <1>18, <1>b, <1>c, <1>e DEF Received
  <2> QED
    BY <1>0, <1>18, <1>d, <2>1 DEF Received
<1>19. CASE VerifyMatch(w)
  BY <1>0, <1>19, <1>b DEF VerifyMatch
<1>20. CASE VerifyKeep(w)
  BY <1>0, <1>20, <1>b, <1>d DEF VerifyKeep
<1>21. CASE VerifyMismatch(w)
  BY <1>0, <1>21, <1>b, <1>d DEF VerifyMismatch
<1>22. CASE Publish(w)
  BY <1>0, <1>22, <1>b, <1>d DEF Publish
<1>23. CASE Stamp(w)
  <2>1. \/ Advance(w, "stamp", "fail", Over(work[w]))
        \/ Advance(w, "stamp", "finish", work[w])
    BY <1>23 DEF Stamp
  <2>2. InTransfer /\ UNCHANGED row
    BY <1>23 DEF Stamp
  <2>3. CASE Advance(w, "stamp", "fail", Over(work[w]))
    BY <1>0, <1>b, <1>d, <2>2, <2>3
  <2>4. CASE Advance(w, "stamp", "finish", work[w])
    BY <1>0, <1>b, <2>2, <2>4
  <2> QED
    BY <2>1, <2>3, <2>4

<1>24. CASE Finish(w)
  <2>1. wpc[w] = "finish" /\ InTransfer
    BY <1>24 DEF Finish, Advance
  <2>2. /\ row'.status = "up_to_date"
        /\ row'.error = row.error /\ row'.discarded = row.discarded
    BY ZenonT(40), <1>24, <1>a, <2>1 DEF Finish, WriteStatus, Write, TypeOK, RowType
  <2>3. PICK to \in {"late", "release"} : Advance(w, "finish", to, Over(work[w]))
    BY <1>24 DEF Finish
  <2> QED
    BY <1>d, <2>1, <2>2, <2>3, WorkerReports
    DEF Ownership, ReportIsFlagged, ActiveStatuses, WorkerPlaces
<1>25. CASE Fail(w)
  <2>1. PICK from \in {"fail", "discarded", "late"} :
           /\ Advance(w, from, "release", Over(work[w]))
           /\ Write(w, [row EXCEPT !.status = "error",
                                   !.error = IF from = "discarded" THEN "discarded" ELSE "transfer",
                                   !.discarded = from = "discarded"])
           /\ InTransfer
    BY <1>25 DEF Fail, FailedRow
  <2>2. CASE work[w].own
    <3>1. row'.status = "error" /\ (row'.error = "discarded" => row'.discarded)
      BY <2>1, <2>2 DEF Write, TypeOK, RowType
    <3> QED
      BY <1>d, <2>1, <3>1, WorkerReports DEF ActiveStatuses, WorkerPlaces
  <2>3. CASE ~ work[w].own
    <3>1. row' = row
      BY <2>1, <2>3 DEF Write
    <3>2. wpc[w] = "late"
      BY <1>a, <2>1, <2>3 DEF Advance
    <3>3. ~ Active
      BY <3>2 DEF Ownership, SingleWorker, TransferHasItsWorker
    <3> QED
      BY <1>d, <2>1, <3>1, <3>2, <3>3, WorkerReports
      DEF Ownership, ReportIsFlagged, Active, Tracked, WorkerPlaces
  <2> QED
    BY <2>2, <2>3
<1>26. CASE Settle(w)
  <2>1. Advance(w, "settle", "release", Over(work[w])) /\ InTransfer /\ wpc[w] = "settle"
    BY <1>26 DEF Settle, Advance
  <2>2. /\ row'.status \in {"unknown", "paused"}
        /\ row'.error = row.error /\ row'.discarded = row.discarded
    BY <1>26, <1>a, <2>1 DEF Settle, Write, TypeOK, RowType
  <2> QED
    BY <1>d, <2>1, <2>2, WorkerReports
    DEF Ownership, ReportIsFlagged, ActiveStatuses, WorkerPlaces
<1>27. CASE Release(w)
  <2>1. /\ wpc[w] = "release" /\ wpc' = [wpc EXCEPT ![w] = "idle"]
        /\ work' = [work EXCEPT ![w] = IdleWork]
        /\ flag' = NoEvent /\ event' = [event EXCEPT ![w] = NoEvent]
        /\ UNCHANGED <<row, tpc, task>>
    BY <1>27 DEF Release, Advance, OutsideWorkers
  <2>2. \A v \in Workers \ {w} : wpc[v] = "idle"
    BY <2>1 DEF Ownership, SingleWorker
  <2>3. \A v \in Workers : wpc'[v] = "idle" /\ event'[v] = NoEvent
    BY <2>1, <2>2 DEF TypeOK, Ownership, FlagIsHeld
  <2>7. raised' = {}
    BY <1>27, <2>1 DEF Release, Ownership, FlagIsHeld
  <2>6. SingleWorker' /\ FlagIsHeld' /\ CancelIsForThisTransfer' /\ HandsHoldAsked'
    BY <2>1, <2>3, <2>7 DEF SingleWorker, FlagIsHeld, CancelIsForThisTransfer, HandsHoldAsked
  <2>4. TransferHasItsWorker'
    BY <2>1, <2>2 DEF TypeOK, Ownership, TransferHasItsWorker, Active
  <2>5. HoldersHaveTheRow'
    BY <2>1 DEF TypeOK, Ownership, HoldersHaveTheRow, Tracked, IdleWork
  <2> QED
    BY <2>1, <2>4, <2>5, <2>6
    DEF Ownership, CheckingHasItsCheck, ReportIsFlagged
<1> QED
  BY <1>1, <1>2, <1>3, <1>4, <1>5, <1>6, <1>7, <1>8, <1>9, <1>10, <1>11, <1>12, <1>13,
     <1>14, <1>15, <1>16, <1>17, <1>18, <1>19, <1>20, <1>21, <1>22, <1>23, <1>24, <1>25,
     <1>26, <1>27 DEF Worker

LEMMA OwnershipInit == Init => Ownership
<1> SUFFICES ASSUME Init PROVE Ownership
  OBVIOUS
<1>1. /\ row.status \in {"absent", "unknown", "paused"}
      /\ row.error = "none"
  BY DEF Init, RestartRow, ScannedRow, ScannedStatus, NoRow, NewRow, PreservedStatuses,
         ActiveStatuses, Nothing
<1>2. /\ \A w \in Workers : wpc[w] = "idle" /\ ~ work[w].own
      /\ \A t \in Threads : tpc[t] = "idle" /\ ~ task[t].own
      /\ \A w \in Workers : event[w] = NoEvent
      /\ flag = NoEvent /\ raised = {}
  BY DEF Init, IdleWork, IdleTask
<1> QED
  BY <1>1, <1>2
  DEF Ownership, SingleWorker, FlagIsHeld, TransferHasItsWorker, CancelIsForThisTransfer,
      HandsHoldAsked, CheckingHasItsCheck, HoldersHaveTheRow, ReportIsFlagged, Active,
      ActiveStatuses, Owning

LEMMA OwnershipStart ==
    ASSUME TypeOK, TypeOK', Ownership, NEW w \in Workers, StartDownload(w) \/ RegisterAndStart(w)
    PROVE  Ownership'
<1>1. ASSUME NEW r \in RowType, Launch(w, r), UNCHANGED <<tpc, task>> PROVE Ownership'
  <2>1. \A v \in Workers : wpc[v] = "idle" /\ event[v] = NoEvent
    BY <1>1 DEF Launch, Ownership, FlagIsHeld
  <2>2. PICK e \in Events :
           /\ Unused(e)
           /\ wpc' = [wpc EXCEPT ![w] = "queued"]
           /\ flag' = e /\ event' = [event EXCEPT ![w] = e]
           /\ UNCHANGED <<raised, hand>>
           /\ work'[w].own /\ \A v \in Workers \ {w} : work'[v] = work[v]
    BY <1>1 DEF Launch, Handed, TypeOK, IdleWork
  <2>3. row'.status = "downloading" /\ row'.error = "none"
    BY <1>1 DEF Launch, Handed, RowType
  <2>4. \A v \in Workers : wpc'[v] # "idle" <=> v = w
    BY <2>1, <2>2 DEF TypeOK
  <2>7. event'[w] = e /\ e # NoEvent /\ \A v \in Workers \ {w} : event'[v] = NoEvent
    BY <2>1, <2>2, NoEventAssumption DEF TypeOK
  <2>5. SingleWorker' /\ FlagIsHeld' /\ CancelIsForThisTransfer' /\ HandsHoldAsked'
    <3>2. raised = {}
      <4>1. flag = NoEvent
        BY <1>1 DEF Launch
      <4> QED
        BY <4>1, NoEventAssumption DEF TypeOK, Ownership, FlagIsHeld
    <3>1. SingleWorker' /\ FlagIsHeld'
      BY <2>2, <2>4, <2>7, <3>2 DEF SingleWorker, FlagIsHeld
    <3>3. CancelIsForThisTransfer'
      BY <2>2, <2>4, <2>7, <3>2 DEF CancelIsForThisTransfer, Cancelled
    <3>4. HandsHoldAsked'
      BY <2>2, <2>4, <2>7 DEF HandsHoldAsked, Unused
    <3> QED
      BY <3>1, <3>3, <3>4
  <2>6. TransferHasItsWorker'
    BY <2>1, <2>2, <2>3 DEF TypeOK, TransferHasItsWorker, Active, ActiveStatuses, Owning
  <2> QED
    BY <2>3, <2>5, <2>6
    DEF Ownership, CheckingHasItsCheck, HoldersHaveTheRow, ReportIsFlagged, Tracked
<1>2. CASE StartDownload(w)
  BY <1>1, <1>2 DEF TypeOK, StartDownload
<1>3. CASE RegisterAndStart(w)
  <2>1. RegisteredRow \in RowType
    BY NewRowType, FileFiguresAreFigures
    DEF TypeOK, RegisteredRow, RowType, Statuses, Verdicts
  <2>2. CASE Launch(w, RegisteredRow)
    BY <1>1, <1>3, <2>1, <2>2 DEF RegisterAndStart
  <2>3. CASE row' = RegisteredRow /\ UNCHANGED <<flag, event, raised, hand, asked, wpc, work>>
    <3>1. UNCHANGED <<tpc, task>>
      BY <1>3 DEF RegisterAndStart
    <3>2. /\ Tracked => row' = row
          /\ ~ Tracked => row'.status \in {"unknown", "not_downloaded"} /\ row'.error = "none"
      BY <2>3 DEF RegisteredRow, NewRow
    <3>5. SingleWorker' /\ FlagIsHeld' /\ CancelIsForThisTransfer' /\ HandsHoldAsked'
      BY <2>3, SameHolders
    <3>3. CASE Tracked
      BY <2>3, <3>1, <3>2, <3>3, <3>5
      DEF Ownership, TransferHasItsWorker, CheckingHasItsCheck, HoldersHaveTheRow,
          ReportIsFlagged, Active, Tracked
    <3>4. CASE ~ Tracked
      <4>1. ~ Active
        BY <3>4 DEF Active, Tracked, ActiveStatuses
      <4> QED
        BY <2>3, <3>1, <3>2, <3>4, <3>5, <4>1
        DEF Ownership, TransferHasItsWorker, CheckingHasItsCheck, HoldersHaveTheRow,
            ReportIsFlagged, Active, Tracked, ActiveStatuses
    <3> QED
      BY <3>3, <3>4
  <2> QED
    BY <1>3, <2>2, <2>3 DEF RegisterAndStart
<1> QED
  BY <1>2, <1>3

LEMMA OwnershipTakeUp ==
    ASSUME TypeOK, TypeOK', Ownership, NEW w \in Workers, TakeUp(w)
    PROVE  Ownership'
<1>1. wpc[w] = "queued" /\ Advance(w, "queued", "head", work[w]) /\ InTransfer /\ UNCHANGED row
  BY DEF TakeUp, Advance
<1>2. Active
  BY <1>1 DEF Ownership, TransferHasItsWorker, Owning
<1> QED
  BY <1>1, <1>2, WorkerGoesOn DEF Active, Owning

\* Whoever looks the event up has come for the transfer that holds it, and an
\* event that is set has been looked up.
LEMMA OwnershipCancel ==
    ASSUME TypeOK, Ownership, NEW c \in Cancellers, CancelDownload(c) \/ CancelSet(c)
    PROVE  Ownership'
<1>1. /\ UNCHANGED <<row, flag, event, wpc, work, tpc, task>>
      /\ asked \subseteq asked'
  BY DEF CancelDownload, CancelSet
<1>2. SingleWorker' /\ TransferHasItsWorker' /\ CheckingHasItsCheck' /\ HoldersHaveTheRow'
      /\ ReportIsFlagged'
  BY <1>1 DEF Ownership, SingleWorker, TransferHasItsWorker, CheckingHasItsCheck,
              HoldersHaveTheRow, ReportIsFlagged, Active, Tracked
<1>3. CASE CancelDownload(c)
  <2>1. \A w \in Workers : wpc[w] # "idle" => w \in asked'
    BY <1>3 DEF CancelDownload
  <2>2. FlagIsHeld'
    BY <1>3 DEF CancelDownload, Ownership, FlagIsHeld
  <2>3. CancelIsForThisTransfer' /\ HandsHoldAsked'
    BY <1>1, <2>1 DEF CancelIsForThisTransfer, HandsHoldAsked
  <2> QED
    BY <1>2, <2>2, <2>3 DEF Ownership
<1>4. CASE CancelSet(c)
  <2>1. /\ raised' = raised \cup ({hand[c]} \cap Awaited)
        /\ hand' = [hand EXCEPT ![c] = NoEvent]
        /\ UNCHANGED asked
    BY <1>4 DEF CancelSet
  <2>2. Awaited \subseteq {flag}
    BY DEF Awaited, Ownership, FlagIsHeld
  <2>3. FlagIsHeld'
    BY <1>1, <2>1, <2>2 DEF Ownership, FlagIsHeld
  <2>4. CancelIsForThisTransfer'
    BY <1>1, <2>1 DEF Ownership, CancelIsForThisTransfer, HandsHoldAsked, Cancelled
  <2>5. HandsHoldAsked'
    <3>1. \A w \in Workers : wpc[w] # "idle" => event[w] # NoEvent
      BY DEF Ownership, FlagIsHeld
    <3> QED
      BY <1>1, <2>1, <3>1 DEF TypeOK, Ownership, HandsHoldAsked
  <2> QED
    BY <1>2, <2>3, <2>4, <2>5 DEF Ownership
<1> QED
  BY <1>3, <1>4

LEMMA OwnershipStep == TypeOK /\ Ownership /\ [Next]_vars => Ownership'
<1> SUFFICES ASSUME TypeOK, Ownership, [Next]_vars PROVE Ownership'
  OBVIOUS
<1>0. TypeOK'
  BY TypeStep
<1> USE DEF Ownership, SingleWorker, FlagIsHeld, TransferHasItsWorker, CancelIsForThisTransfer,
            HandsHoldAsked, Cancelled, CheckingHasItsCheck, HoldersHaveTheRow, ReportIsFlagged,
            Active, Tracked
<1>1. ASSUME NEW w \in Workers, StartDownload(w) \/ RegisterAndStart(w) PROVE Ownership'
  BY <1>0, <1>1, OwnershipStart
<1>2. ASSUME NEW w \in Workers, Worker(w) PROVE Ownership'
  BY <1>0, <1>2, OwnershipWorker
<1>3. ASSUME NEW c \in Cancellers, CancelDownload(c) \/ CancelSet(c) PROVE Ownership'
  BY <1>3, OwnershipCancel
<1>9. ASSUME NEW w \in Workers, TakeUp(w) PROVE Ownership'
  BY <1>0, <1>9, OwnershipTakeUp
<1>4. ASSUME NEW t \in Threads, Thread(t) PROVE Ownership'
  BY <1>0, <1>4, OwnershipThread
<1>5. CASE PublishBuild
  BY <1>5 DEF PublishBuild
<1>6. CASE MoveFiles
  <2>1. \A w \in Workers : work'[w].own = work[w].own
    BY <1>6 DEF TypeOK, WorkType, MoveFiles, Unlinked
  <2> QED
    BY <1>6, <2>1 DEF MoveFiles
<1>7. CASE Restart
  <2>1. /\ row'.status \in {"absent", "unknown", "paused"}
        /\ row'.error = "none"
    BY <1>7 DEF Restart, RestartRow, ScannedRow, ScannedStatus, NoRow, NewRow, PreservedStatuses,
                ActiveStatuses, Nothing
  <2>2. /\ \A w \in Workers : wpc'[w] = "idle" /\ ~ work'[w].own
        /\ \A t \in Threads : tpc'[t] = "idle" /\ ~ task'[t].own
        /\ \A w \in Workers : event'[w] = NoEvent
        /\ flag' = NoEvent /\ raised' = {}
    BY <1>7 DEF Restart, IdleWork, IdleTask
  <2> QED
    BY <2>1, <2>2 DEF ActiveStatuses, Owning
<1>8. CASE UNCHANGED vars
  BY <1>8 DEF vars
<1> QED
  BY <1>1, <1>2, <1>3, <1>4, <1>5, <1>6, <1>7, <1>8, <1>9 DEF Next

\* At any moment at most one worker has the file, exactly when the row shows a
\* transfer; a cancel is for that worker; a row that says "checking" has a check
\* that will answer it; and nobody writes to a row that has been dropped
\* believing it is the one on display.
THEOREM OwnershipHolds == Spec => []Ownership
<1>1. Init => TypeOK /\ Ownership
  BY TypeInit, OwnershipInit
<1>2. (TypeOK /\ Ownership) /\ [Next]_vars => (TypeOK /\ Ownership)'
  BY TypeStep, OwnershipStep
<1> QED
  BY <1>1, <1>2, PTL DEF Spec

\* A second worker never appends to the same .part file.
THEOREM OneWorkerAtATime == Spec => []SingleWorker
<1>1. Ownership => SingleWorker
  BY DEF Ownership
<1> QED
  BY <1>1, OwnershipHolds, PTL

\* A row shows a transfer exactly while a worker carries it out.
THEOREM TransfersOwned == Spec => []TransferHasItsWorker
<1>1. Ownership => TransferHasItsWorker
  BY DEF Ownership
<1> QED
  BY <1>1, OwnershipHolds, PTL

\* A cancel stops the transfer it was meant for and no later one.
THEOREM CancelsReachTheirOwn == Spec => []CancelIsForThisTransfer
<1>1. Ownership => CancelIsForThisTransfer
  BY DEF Ownership
<1> QED
  BY <1>1, OwnershipHolds, PTL

\* A row that says "checking" has a check under way that will answer it.
THEOREM ChecksAnswered == Spec => []CheckingHasItsCheck
<1>1. Ownership => CheckingHasItsCheck
  BY DEF Ownership
<1> QED
  BY <1>1, OwnershipHolds, PTL

-----------------------------------------------------------------------------
(***************************************************************************)
(* That DownloadRows keeps the promises of RowLifecycle, that its offers   *)
(* follow its figures, and that the report of a discarded download stays.  *)
(* All three rest on the ownership of the row and on a short list of what  *)
(* a thread or a worker can do to a row at all.                            *)
(***************************************************************************)

(***************************************************************************)
(* What a step does to the row.                                            *)
(***************************************************************************)
Rescanned ==
    \E full, part \in AnyFigures : row' = ScannedRow(IF Tracked THEN row ELSE NewRow, full, part)
Emptied == Tracked /\ ~ Active /\ Survives /\ row' = [row EXCEPT !.local = Nothing, !.part.size = -1]
Dropped == Tracked /\ ~ Survives /\ row' = NoRow
Made == ~ Tracked /\ row' = NewRow
Marked == Tracked /\ ~ Active /\ row' = [row EXCEPT !.status = "checking"]
JudgedAnew == Tracked /\ \E answer \in AnyFigures : row' = Judged(row, answer)
CheckLost == Tracked /\ ~ Active /\ row' = [row EXCEPT !.status = "error", !.error = "check"]
Cleared ==
    Tracked /\ row' = [row EXCEPT !.error = "none", !.discarded = FALSE,
                                  !.status = IF @ = "error" THEN "unknown" ELSE @]

LEMMA ThreadEffect ==
    ASSUME TypeOK, Ownership, NEW t \in Threads, Thread(t)
    PROVE  /\ UNCHANGED <<flag, budget>>
           /\ \/ UNCHANGED row
              \/ Rescanned \/ Emptied \/ Dropped \/ Made \/ Marked
              \/ JudgedAnew \/ CheckLost \/ Cleared
<1>0. task[t].own => Tracked
  BY DEF Ownership, HoldersHaveTheRow
<1> USE DEF OutsideThreads
<1>1. ASSUME NEW op \in Operations, Begin(t, op) PROVE UNCHANGED <<flag, budget, row>>
  BY <1>1 DEF Begin
<1>2. CASE BeginDiscard(t)
  BY <1>2 DEF BeginDiscard
<1>3. CASE DiscardUnlink(t)
  BY <1>3 DEF DiscardUnlink
<1>4. CASE DiscardReset(t)
  BY <1>0, <1>4 DEF DiscardReset, Cleared
<1>5. CASE StatFull(t) \/ StatPart(t) \/ DiscardFails(t)
  BY <1>5 DEF StatFull, StatPart, DiscardFails
<1>6. CASE SyncPresent(t)
  <2>1. task[t].full \in AnyFigures /\ task[t].part \in AnyFigures
    BY DEF TypeOK, TaskType
  <2> QED
    BY <1>6, <2>1 DEF SyncPresent, Rescanned
<1>7. CASE SyncKeep(t)
  BY <1>7 DEF SyncKeep, Emptied
<1>8. CASE SyncDrop(t)
  BY <1>8 DEF SyncDrop, Dropped
<1>9. CASE CheckLookup(t)
  BY <1>9 DEF CheckLookup, Made
<1>10. CASE CheckMark(t)
  BY <1>0, <1>10 DEF CheckMark, Marked
<1>11. CASE CheckAnswered(t)
  BY <1>11 DEF CheckAnswered
<1>12. CASE CheckVerdict(t)
  <2>1. task[t].answer \in AnyFigures
    BY DEF TypeOK, TaskType
  <2> QED
    BY <1>0, <1>12, <2>1 DEF CheckVerdict, JudgedAnew
<1>13. CASE CheckFailed(t)
  BY <1>0, <1>13 DEF CheckFailed, CheckLost
<1>14. CASE DiscardReport(t)
  BY <1>14 DEF DiscardReport
<1> QED
  BY <1>1, <1>2, <1>3, <1>4, <1>5, <1>6, <1>7, <1>8, <1>9, <1>10, <1>11, <1>12, <1>13,
     <1>14 DEF Thread

\* A worker goes on (its row still shows the transfer), reports (its row shows a
\* result), or lets go.
GoesOn == Active /\ row'.status \in ActiveStatuses /\ flag' = flag
Reports ==
    /\ Tracked /\ row'.status \in {"up_to_date", "unknown", "paused", "error"}
    /\ flag # NoEvent /\ flag' = flag
LetsGo == flag # NoEvent /\ flag' = NoEvent /\ ~ Active /\ UNCHANGED row

LEMMA WorkerEffect ==
    ASSUME TypeOK, Ownership, NEW w \in Workers, Worker(w)
    PROVE  /\ UNCHANGED budget
           /\ \/ UNCHANGED <<row, flag>>
              \/ GoesOn \/ Reports \/ LetsGo
<1>a. wpc[w] \in Owning => Active /\ work[w].own
  BY DEF Ownership, TransferHasItsWorker
<1>b. work[w].own => Tracked
  BY DEF Ownership, HoldersHaveTheRow
<1>c. wpc[w] # "idle" => flag # NoEvent
  BY DEF Ownership, FlagIsHeld
<1>d. ASSUME NEW s \in ActiveStatuses, wpc[w] \in Owning, WriteStatus(w, s), flag' = flag
      PROVE  GoesOn
  BY <1>a, <1>d DEF WriteStatus, Write, GoesOn, TypeOK, RowType
<1>e. {"downloading", "verifying", "waiting_retry"} \subseteq ActiveStatuses
  BY DEF ActiveStatuses
<1> USE DEF InTransfer, OutsideWorkers
<1>1. CASE HeadAnswered(w) \/ HeadRefused(w)
  BY <1>1 DEF HeadAnswered, HeadRefused
<1>2. CASE HeadTransient(w)
  BY <1>2, <1>d, <1>e DEF HeadTransient, Advance, Owning
<1>3. CASE HeadWaitOver(w)
  BY <1>3, <1>d, <1>e DEF HeadWaitOver, Advance, Owning
<1>4. CASE RecordFigures(w)
  <2>1. wpc[w] \in Owning
    BY <1>4 DEF RecordFigures, Advance, Owning
  <2> QED
    BY <1>4, <1>a, <2>1 DEF RecordFigures, Write, GoesOn, TypeOK, RowType, Active
<1>5. CASE TakeOffset(w)
  BY <1>5, <1>d, <1>e DEF TakeOffset, Advance, Owning
<1>6. CASE RequestCancelled(w) \/ RequestSatisfied(w) \/ RequestOpened(w)
           \/ RequestRetried(w) \/ RequestRefused(w)
  BY <1>6 DEF RequestCancelled, RequestSatisfied, RequestOpened, RequestRetried, RequestRefused
<1>7. CASE ConnectionLost(w)
  BY <1>7, <1>d, <1>e DEF ConnectionLost, Advance, Owning
<1>8. CASE WaitOver(w) \/ Refreshed(w) \/ Chunk(w) \/ StreamOver(w) \/ StreamFailed(w)
  BY <1>8 DEF WaitOver, Refreshed, Chunk, StreamOver, StreamFailed
<1>9. CASE Received(w)
  BY <1>9, <1>d, <1>e DEF Received, Advance, Owning
<1>10. CASE VerifyMatch(w) \/ VerifyKeep(w) \/ VerifyMismatch(w) \/ Publish(w) \/ Stamp(w)
  BY <1>10 DEF VerifyMatch, VerifyKeep, VerifyMismatch, Publish, Stamp
<1>11. CASE Finish(w)
  <2>1. wpc[w] = "finish"
    BY <1>11 DEF Finish, Advance
  <2>2. row'.status = "up_to_date"
    BY <1>11, <1>a, <2>1 DEF Finish, WriteStatus, Write, TypeOK, RowType, Owning
  <2> QED
    BY <1>11, <1>a, <1>b, <1>c, <2>1, <2>2 DEF Finish, Reports, Owning
<1>12. CASE Fail(w)
  <2>1. wpc[w] # "idle" /\ UNCHANGED <<flag, budget>>
    BY <1>12 DEF Fail, Advance
  <2>2. CASE ~ work[w].own
    BY <1>12, <2>1, <2>2 DEF Fail, Write
  <2>3. CASE work[w].own
    <3>1. row'.status = "error"
      BY <1>12, <2>3 DEF Fail, FailedRow, Write, TypeOK, RowType
    <3> QED
      BY <1>b, <1>c, <2>1, <2>3, <3>1 DEF Reports
  <2> QED
    BY <2>2, <2>3
<1>13. CASE Settle(w)
  <2>1. wpc[w] = "settle"
    BY <1>13 DEF Settle, Advance
  <2>2. row'.status \in {"unknown", "paused"}
    BY <1>13, <1>a, <2>1 DEF Settle, Write, TypeOK, RowType, Owning
  <2> QED
    BY <1>13, <1>a, <1>b, <1>c, <2>1, <2>2 DEF Settle, Reports, Owning
<1>14. CASE Release(w)
  <2>1. wpc[w] = "release" /\ flag' = NoEvent /\ UNCHANGED <<row, budget>>
    BY <1>14 DEF Release, Advance
  <2>2. ~ Active
    BY <2>1 DEF Ownership, SingleWorker, TransferHasItsWorker, Owning
  <2> QED
    BY <1>c, <2>1, <2>2 DEF LetsGo
<1> QED
  BY <1>1, <1>2, <1>3, <1>4, <1>5, <1>6, <1>7, <1>8, <1>9, <1>10, <1>11, <1>12, <1>13,
     <1>14 DEF Worker


(***************************************************************************)
(* What a step of the specification does to the row and its flag.          *)
(***************************************************************************)
Started == flag = NoEvent /\ ~ Active /\ flag' # NoEvent /\ row'.status = "downloading"
Registered == ~ Tracked /\ flag' = flag /\ row' = RegisteredRow
Restarted == flag' = NoEvent /\ row' = RestartRow(disk) /\ budget'.restarts = budget.restarts - 1
ThreadsStep ==
    /\ flag' = flag
    /\ \/ Rescanned \/ Emptied \/ Dropped \/ Made \/ Marked
       \/ JudgedAnew \/ CheckLost \/ Cleared

LEMMA StepEffect ==
    ASSUME TypeOK, Ownership, [Next]_vars
    PROVE  \/ Restarted
           \/ /\ budget'.restarts = budget.restarts
              /\ \/ UNCHANGED <<row, flag>>
                 \/ ThreadsStep
                 \/ GoesOn \/ Reports \/ LetsGo
                 \/ Started \/ Registered
<1>1. ASSUME NEW w \in Workers, NEW r \in RowType, Launch(w, r), r.status = row.status \/ ~ Tracked
      PROVE  Started
  <2>1. ~ Active
    BY <1>1 DEF Launch, Ownership, FlagIsHeld, TransferHasItsWorker, Owning
  <2>2. PICK e \in Events : flag' = e
    BY <1>1 DEF Launch, Handed
  <2>3. row'.status = "downloading" /\ flag = NoEvent
    BY <1>1 DEF Launch, Handed, RowType
  <2> QED
    BY <2>1, <2>2, <2>3, NoEventAssumption DEF Started
<1>2. ASSUME NEW w \in Workers, StartDownload(w) PROVE Started /\ UNCHANGED budget
  BY <1>1, <1>2 DEF TypeOK, StartDownload
<1>3. ASSUME NEW w \in Workers, RegisterAndStart(w)
      PROVE  UNCHANGED budget /\ (Started \/ Registered \/ UNCHANGED <<row, flag>>)
  <2>1. RegisteredRow \in RowType
    BY NewRowType, FileFiguresAreFigures
    DEF TypeOK, RegisteredRow, RowType, Statuses, Verdicts
  <2>2. Tracked => RegisteredRow = row
    BY DEF RegisteredRow
  <2> QED
    BY <1>1, <1>3, <2>1, <2>2 DEF RegisterAndStart, Registered
<1>4. ASSUME NEW w \in Workers, Worker(w)
      PROVE  UNCHANGED budget /\ (GoesOn \/ Reports \/ LetsGo \/ UNCHANGED <<row, flag>>)
  BY <1>4, WorkerEffect
<1>5. ASSUME NEW t \in Threads, Thread(t)
      PROVE  UNCHANGED budget /\ (ThreadsStep \/ UNCHANGED <<row, flag>>)
  BY <1>5, ThreadEffect DEF ThreadsStep
<1>6. CASE PublishBuild \/ MoveFiles
  <2>1. UNCHANGED <<row, flag>>
    BY <1>6 DEF PublishBuild, MoveFiles
  <2>2. budget'.restarts = budget.restarts
    BY <1>6 DEF TypeOK, PublishBuild, MoveFiles
  <2> QED
    BY <2>1, <2>2
<1>9. ASSUME NEW c \in Cancellers, CancelDownload(c) \/ CancelSet(c)
      PROVE  UNCHANGED <<row, flag, budget>>
  BY <1>9 DEF CancelDownload, CancelSet
<1>10. ASSUME NEW w \in Workers, TakeUp(w) PROVE UNCHANGED <<row, flag, budget>>
  BY <1>10 DEF TakeUp, InTransfer, OutsideWorkers
<1>7. CASE Restart
  BY <1>7 DEF TypeOK, Restart, Restarted
<1>8. CASE UNCHANGED vars
  BY <1>8 DEF vars
<1> QED
  BY <1>2, <1>3, <1>4, <1>5, <1>6, <1>7, <1>8, <1>9, <1>10 DEF Next

LEMMA RestartRowStatus == RestartRow(disk).status \in {"absent", "unknown", "paused"}
BY DEF RestartRow, ScannedRow, ScannedStatus, NoRow, NewRow, PreservedStatuses,
       ActiveStatuses, Nothing

\* The two verdicts that offer a download are never stale: whatever changes a
\* figure of the row re-derives the verdict or leaves a status that offers
\* nothing.
THEOREM OffersHold == Spec => []OffersFollowFigures
<1>1. Init => OffersFollowFigures
  BY RestartRowStatus DEF Init, OffersFollowFigures
<1>2. TypeOK /\ Ownership /\ OffersFollowFigures /\ [Next]_vars => OffersFollowFigures'
  <2> SUFFICES ASSUME TypeOK, Ownership, OffersFollowFigures, [Next]_vars
               PROVE  OffersFollowFigures'
    OBVIOUS
  <2> USE DEF OffersFollowFigures
  <2>r. row \in RowType
    BY DEF TypeOK
  <2>1. CASE Rescanned
    <3>1. PICK full \in AnyFigures, part \in AnyFigures :
             row' = ScannedRow(IF Tracked THEN row ELSE NewRow, full, part)
      BY <2>1 DEF Rescanned
    <3>2. PICK r \in RowType : row' = ScannedRow(r, full, part)
      BY <2>r, <3>1, NewRowType
    <3>3. /\ row'.local = full /\ row'.part = part /\ row'.server = r.server
          /\ row'.status = IF r.status \in PreservedStatuses THEN r.status
                           ELSE ScannedStatus(full, part, r.server)
      BY <3>2 DEF ScannedRow, RowType
    <3> QED
      BY <3>3 DEF ScannedStatus, PreservedStatuses, ActiveStatuses
  <2>2. CASE Emptied
    <3>1. row'.status \in {"checking", "error"}
      BY <2>2, <2>r DEF Emptied, Survives, RowType
    <3> QED
      BY <3>1
  <2>3. CASE JudgedAnew
    <3>1. PICK answer \in AnyFigures : row' = Judged(row, answer)
      BY <2>3 DEF JudgedAnew
    <3>2. CASE row.status \in ActiveStatuses
      BY <2>r, <3>1, <3>2 DEF Judged, RowType, ActiveStatuses
    <3>3. CASE row.status \notin ActiveStatuses
      <4>1. /\ row'.local = row.local /\ row'.part = row.part /\ row'.server = answer
            /\ row'.status = Freshness(row.local, row.part, answer)
        BY <2>r, <3>1, <3>3 DEF Judged, RowType
      <4> QED
        BY <4>1
    <3> QED
      BY <3>2, <3>3
  <2>4. CASE Dropped \/ Made \/ Marked \/ CheckLost
    <3>1. CASE Dropped \/ Made
      BY <3>1 DEF Dropped, Made, NoRow, NewRow
    <3>2. CASE Marked \/ CheckLost
      <4>1. row'.status \in {"checking", "error"}
        BY <2>r, <3>2 DEF Marked, CheckLost, RowType
      <4> QED
        BY <4>1
    <3> QED
      BY <2>4, <3>1, <3>2
  <2>5. CASE Cleared
    <3>1. /\ row'.local = row.local /\ row'.part = row.part /\ row'.server = row.server
          /\ row'.status = IF row.status = "error" THEN "unknown" ELSE row.status
      BY <2>5, <2>r DEF Cleared, RowType
    <3> QED
      BY <3>1
  <2>6. CASE GoesOn \/ Reports \/ Started
    BY <2>6 DEF GoesOn, Reports, Started, ActiveStatuses
  <2>7. CASE Registered
    <3>1. CASE disk.full = Nothing
      <4>1. /\ row'.status = "not_downloaded" /\ row'.local = Nothing
            /\ row'.part = Nothing /\ row'.server = Nothing
        BY <2>7, <3>1 DEF Registered, RegisteredRow, NewRow
      <4>2. Freshness(Nothing, Nothing, Nothing) = "not_downloaded"
        BY DEF Freshness, CompleteVerdict, Resumable, Nothing
      <4> QED
        BY <4>1, <4>2
    <3>2. CASE disk.full # Nothing
      BY <2>7, <3>2 DEF Registered, RegisteredRow, NewRow
    <3> QED
      BY <3>1, <3>2
  <2>8. CASE Restarted
    BY <2>8, RestartRowStatus DEF Restarted
  <2>9. CASE UNCHANGED row
    BY <2>9
  <2> QED
    BY <2>1, <2>2, <2>3, <2>4, <2>5, <2>6, <2>7, <2>8, <2>9, StepEffect
    DEF ThreadsStep, LetsGo
<1> QED
  BY <1>1, <1>2, TypeCorrect, OwnershipHolds, PTL DEF Spec

\* No scan, check, discard, start or transfer removes the row that tells the
\* user its bytes were thrown away; a new process has never heard of them.
THEOREM ReportStays == Spec => DiscardedReportStays
<1> DEFINE Kept == row.status = "error" /\ row.error = "discarded" /\ row'.status = "absent"
                   => budget'.restarts < budget.restarts
<1>1. TypeOK /\ Ownership /\ [Next]_vars => Kept
  <2> SUFFICES ASSUME TypeOK, Ownership, [Next]_vars,
                      row.status = "error", row.error = "discarded", row'.status = "absent"
               PROVE  Restarted
    BY DEF TypeOK, Restarted
  <2>1. Survives /\ Tracked /\ ~ Active /\ row \in RowType
    BY DEF TypeOK, Ownership, ReportIsFlagged, Survives, Tracked, Active, ActiveStatuses
  <2>2. ASSUME Rescanned PROVE FALSE
    <3>1. PICK full, part : row' = ScannedRow(row, full, part)
      BY <2>1, <2>2 DEF Rescanned
    <3> QED
      BY <2>1, <3>1 DEF ScannedRow, RowType, PreservedStatuses
  <2>3. ASSUME JudgedAnew PROVE FALSE
    <3>1. PICK answer \in AnyFigures : row' = Judged(row, answer)
      BY <2>3 DEF JudgedAnew
    <3>2. row'.status = Freshness(row.local, row.part, answer)
      BY <2>1, <3>1 DEF Judged, Active, RowType
    <3> QED
      BY <3>2, FreshnessIsAVerdict DEF Verdicts
  <2>4. ~ (Emptied \/ Dropped \/ Made \/ Marked \/ CheckLost \/ Cleared)
    BY <2>1 DEF Emptied, Dropped, Made, Marked, CheckLost, Cleared, RowType
  <2>5. ~ (GoesOn \/ Reports \/ LetsGo \/ Started \/ Registered) /\ ~ UNCHANGED row
    BY <2>1 DEF GoesOn, Reports, LetsGo, Started, Registered
  <2> QED
    BY <2>2, <2>3, <2>4, <2>5, StepEffect DEF ThreadsStep
<1>2. TypeOK /\ Ownership /\ [Next]_vars => [Kept]_vars
  BY <1>1
<1> QED
  BY <1>2, TypeCorrect, OwnershipHolds, PTL DEF Spec, DiscardedReportStays

(***************************************************************************)
(* The detailed specification implements the abstract one.                 *)
(***************************************************************************)
LEMMA PhaseOfStatus ==
    /\ row.status = "absent" => Phase = "absent"
    /\ row.status \in ActiveStatuses => Phase = "transfer"
    /\ row.status = "checking" => Phase = "checking"
    /\ row.status = "error" => Phase = "error"
    /\ row.status \in Verdicts \cup {"unknown"} => Phase = "idle"
BY DEF Phase, ActiveStatuses, Verdicts

LEMMA PhaseOfNextStatus ==
    /\ row'.status = "absent" => Phase' = "absent"
    /\ row'.status \in ActiveStatuses => Phase' = "transfer"
    /\ row'.status = "checking" => Phase' = "checking"
    /\ row'.status = "error" => Phase' = "error"
    /\ row'.status \in Verdicts \cup {"unknown"} => Phase' = "idle"
BY DEF Phase, ActiveStatuses, Verdicts

\* What one process does.
LEMMA LifecycleInProcess ==
    ASSUME TypeOK, Ownership, budget'.restarts = budget.restarts,
           \/ UNCHANGED <<row, flag>>
           \/ ThreadsStep
           \/ GoesOn \/ Reports \/ LetsGo
           \/ Started \/ Registered
    PROVE  [Lifecycle!Next]_(Lifecycle!vars)
<1> USE DEF Lifecycle!Next, Lifecycle!vars, Lifecycle!Results
<1>r. row \in RowType
  BY DEF TypeOK
<1>p. row'.status = row.status => Phase' = Phase
  BY DEF Phase
<1>c. Phase = "transfer" <=> Active
  BY DEF Phase, Active, ActiveStatuses
<1>n. Phase = "absent" <=> ~ Tracked
  BY DEF Phase, Tracked, ActiveStatuses
<1>o. Phase \in {"absent", "transfer", "checking", "error", "idle"}
  BY DEF Phase
<1>1. CASE flag' = flag /\ Rescanned
  <2>1. PICK full, part : row' = ScannedRow(IF Tracked THEN row ELSE NewRow, full, part)
    BY <1>1 DEF Rescanned
  <2>2. CASE Tracked /\ row.status \in PreservedStatuses
    BY <1>1, <1>p, <1>r, <2>1, <2>2 DEF ScannedRow, RowType
  <2>3. CASE ~ (Tracked /\ row.status \in PreservedStatuses)
    <3>1. row'.status \in Verdicts \cup {"unknown"}
      <4>1. (IF Tracked THEN row ELSE NewRow).status \notin PreservedStatuses
        BY <2>3 DEF NewRow, PreservedStatuses, ActiveStatuses
      <4>2. (IF Tracked THEN row ELSE NewRow) \in RowType
        BY <1>r, NewRowType
      <4> QED
        BY <2>1, <4>1, <4>2, ScannedStatusIsAStatus DEF ScannedRow, RowType
    <3>2. Phase \in {"absent", "idle"}
      BY <1>r, <2>3, PhaseOfStatus DEF Tracked, RowType, Statuses
    <3> QED
      BY <1>1, <3>1, <3>2, PhaseOfNextStatus DEF Lifecycle!Appear
  <2> QED
    BY <2>2, <2>3
<1>2. CASE flag' = flag /\ Emptied
  BY <1>2, <1>p, <1>r DEF Emptied, RowType
<1>3. CASE flag' = flag /\ Dropped
  <2>1. Phase' = "absent"
    BY <1>3, PhaseOfNextStatus DEF Dropped, NoRow, NewRow
  <2>2. Phase \in {"idle", "error"}
    BY <1>3, <1>r, PhaseOfStatus
    DEF Dropped, Survives, Active, Tracked, RowType, Statuses, PreservedStatuses
  <2> QED
    BY <1>3, <2>1, <2>2 DEF Lifecycle!Vanish
<1>4. CASE flag' = flag /\ Made
  BY <1>4, PhaseOfStatus, PhaseOfNextStatus DEF Made, NewRow, Tracked, Lifecycle!Appear
<1>5. CASE flag' = flag /\ Marked
  <2>1. Phase' = "checking"
    BY <1>5, <1>r, PhaseOfNextStatus DEF Marked, RowType
  <2> QED
    BY <1>5, <1>c, <1>n, <1>o, <2>1 DEF Marked, Lifecycle!Check
<1>6. CASE flag' = flag /\ JudgedAnew
  <2>1. PICK answer \in AnyFigures : row' = Judged(row, answer)
    BY <1>6 DEF JudgedAnew
  <2>2. CASE Active
    BY <1>6, <1>p, <1>r, <2>1, <2>2 DEF Judged, Active, RowType
  <2>3. CASE ~ Active
    <3>1. row'.status \in Verdicts
      BY <1>r, <2>1, <2>3, FreshnessIsAVerdict DEF Judged, Active, RowType
    <3> QED
      BY <1>6, <1>c, <1>n, <1>o, <2>3, <3>1, PhaseOfNextStatus
      DEF JudgedAnew, Lifecycle!Verdict
  <2> QED
    BY <2>2, <2>3
<1>7. CASE flag' = flag /\ CheckLost
  <2>1. Phase' = "error"
    BY <1>7, <1>r, PhaseOfNextStatus DEF CheckLost, RowType
  <2> QED
    BY <1>7, <1>c, <1>n, <1>o, <2>1 DEF CheckLost, Lifecycle!Verdict
<1>8. CASE flag' = flag /\ Cleared
  <2>1. row'.status = IF row.status = "error" THEN "unknown" ELSE row.status
    BY <1>8, <1>r DEF Cleared, RowType
  <2> QED
    BY <1>8, <1>p, <2>1, PhaseOfStatus, PhaseOfNextStatus DEF Lifecycle!Verdict
<1>9. CASE GoesOn
  BY <1>9, <1>c, PhaseOfNextStatus DEF GoesOn
<1>10. CASE Reports
  <2>1. Phase' \in {"idle", "error"}
    BY <1>10, PhaseOfNextStatus DEF Reports, Verdicts
  <2> QED
    BY <1>10, <1>n, <1>o, <2>1 DEF Reports, Lifecycle!Verdict, Lifecycle!Finish
<1>11. CASE LetsGo
  BY <1>11, <1>c, <1>p DEF LetsGo, Lifecycle!LetGo
<1>12. CASE Started
  <2>1. Phase' = "transfer"
    BY <1>12, PhaseOfNextStatus DEF Started, ActiveStatuses
  <2> QED
    BY <1>12, <1>c, <2>1 DEF Started, Lifecycle!Start
<1>13. CASE Registered
  <2>1. row'.status \in {"unknown", "not_downloaded"}
    BY <1>13 DEF Registered, RegisteredRow, NewRow
  <2> QED
    BY <1>13, <1>n, <2>1, PhaseOfNextStatus DEF Registered, Verdicts, Lifecycle!Appear
<1>15. CASE UNCHANGED <<row, flag>>
  BY <1>15, <1>p
<1> QED
  BY <1>1, <1>2, <1>3, <1>4, <1>5, <1>6, <1>7, <1>8, <1>9, <1>10, <1>11, <1>12, <1>13,
     <1>15 DEF ThreadsStep

LEMMA LifecycleStep ==
    ASSUME TypeOK, Ownership, [Next]_vars
    PROVE  [Lifecycle!Next]_(Lifecycle!vars)
<1>1. CASE Restarted
  <2>1. Phase' \in {"absent", "idle"}
    BY <1>1, RestartRowStatus, PhaseOfNextStatus DEF Restarted, Verdicts
  <2>2. MaxRestarts - budget'.restarts = (MaxRestarts - budget.restarts) + 1
    BY <1>1, BoundsAssumption DEF TypeOK, Restarted
  <2> QED
    BY <1>1, <2>1, <2>2 DEF Restarted, Lifecycle!Next, Lifecycle!Restart
<1>2. CASE ~ Restarted
  BY <1>2, StepEffect, LifecycleInProcess
<1> QED
  BY <1>1, <1>2

\* Whatever threads and workers do, the download tab sees a row that keeps the
\* promises of RowLifecycle.
THEOREM Refinement == Spec => LifecycleKept
<1>1. Init => Lifecycle!Init
  <2> SUFFICES ASSUME Init PROVE Lifecycle!Init
    OBVIOUS
  <2>1. row.status \in {"absent", "unknown", "paused"} /\ flag = NoEvent
    BY RestartRowStatus DEF Init
  <2>2. MaxRestarts - budget.restarts = 0
    BY BoundsAssumption DEF Init
  <2> QED
    BY <2>1, <2>2, PhaseOfStatus DEF Lifecycle!Init, Verdicts
<1>2. TypeOK /\ Ownership /\ [Next]_vars => [Lifecycle!Next]_(Lifecycle!vars)
  BY LifecycleStep
<1> QED
  BY <1>1, <1>2, TypeCorrect, OwnershipHolds, PTL DEF Spec, LifecycleKept, Lifecycle!Spec

=============================================================================
