--------------------------------- MODULE Pool ---------------------------------
(***************************************************************************)
(* The downloads of all files over the executor's few workers and over one *)
(* disk (backend/download_manager.py: start_download, cancel_download and  *)
(* the course of _download_worker, as far as files get in each other's     *)
(* way). DownloadRows has the row of one file in full, Transfer its bytes. *)
(*                                                                         *)
(* A host that cannot be reached is asked again every ten minutes, without *)
(* an end, and its download keeps the worker meanwhile. A cancel reaches a *)
(* download only where it runs.                                            *)
(***************************************************************************)
EXTENDS Naturals, SequencesExt

CONSTANTS
    Files,
    Workers,        \* MAX_CONCURRENT_DOWNLOADS of them
    Size,           \* chunks of each file
    Capacity,       \* chunks the disk holds
    Buffer,         \* MIN_FREE_DISK_BUFFER
    Unsteady,       \* files whose host may be away
    NoFile

ASSUME FilesAssumption == IsFiniteSet(Files) /\ NoFile \notin Files
ASSUME WorkersAssumption == IsFiniteSet(Workers)
ASSUME UnsteadyAssumption == Unsteady \subseteq Files
ASSUME SizeAssumption == Size \in [Files -> Nat] /\ Capacity \in Nat /\ Buffer \in Nat

VARIABLES
    queue,      \* what was submitted to the executor and not yet begun
    worker,     \* the file each worker is at
    at,         \* how far the worker of a file has come
    cancelled,  \* the cancel event of each download
    reachable,  \* the hosts
    part, copy  \* chunks in <name>.part and in the finished file

vars == <<queue, worker, at, cancelled, reachable, part, copy>>

Init ==
    /\ queue = <<>>
    /\ worker = [w \in Workers |-> NoFile]
    /\ at = [f \in Files |-> "none"]
    /\ cancelled = [f \in Files |-> FALSE]
    /\ reachable = [f \in Files |-> TRUE]
    /\ part = [f \in Files |-> 0]
    /\ copy = [f \in Files |-> 0]

Waits == {"wait for figures", "wait"}
Running(f) == \E w \in Workers : worker[w] = f

(***************************************************************************)
(* The user.                                                               *)
(***************************************************************************)
StartDownload_Again(f) ==
    /\ at[f] \in {"none"} \cup Waits
    /\ queue' = Append(queue, f)
    /\ at' = [at EXCEPT ![f] = "queued"]
    /\ UNCHANGED <<worker, cancelled, reachable, part, copy>>

\* Refused while the file has a cancel event, which the worker takes away last.
StartDownload(f) ==
    /\ at[f] = "none"
    /\ queue' = Append(queue, f)
    /\ at' = [at EXCEPT ![f] = "queued"]
    /\ UNCHANGED <<worker, cancelled, reachable, part, copy>>

CancelDownload(f) ==
    /\ at[f] # "none"
    /\ cancelled' = [cancelled EXCEPT ![f] = TRUE]
    /\ UNCHANGED <<queue, worker, at, reachable, part, copy>>

\* discard_partial.
Discard(f) ==
    /\ at[f] = "none"
    /\ part[f] > 0
    /\ part' = [part EXCEPT ![f] = 0]
    /\ UNCHANGED <<queue, worker, at, cancelled, reachable, copy>>

(***************************************************************************)
(* The workers.                                                            *)
(***************************************************************************)
Take_Newest(w) ==
    /\ worker[w] = NoFile
    /\ queue # <<>>
    /\ worker' = [worker EXCEPT ![w] = Last(queue)]
    /\ at' = [at EXCEPT ![Last(queue)] = "head"]
    /\ queue' = Front(queue)
    /\ UNCHANGED <<cancelled, reachable, part, copy>>

Take(w) ==
    /\ worker[w] = NoFile
    /\ queue # <<>>
    /\ worker' = [worker EXCEPT ![w] = Head(queue)]
    /\ at' = [at EXCEPT ![Head(queue)] = "head"]
    /\ queue' = Tail(queue)
    /\ UNCHANGED <<cancelled, reachable, part, copy>>

End(f) ==
    /\ worker' = [w \in Workers |-> IF worker[w] = f THEN NoFile ELSE worker[w]]
    /\ at' = [at EXCEPT ![f] = "none"]
    /\ cancelled' = [cancelled EXCEPT ![f] = FALSE]
    /\ UNCHANGED <<queue, reachable>>

Step(f, next) ==
    /\ at' = [at EXCEPT ![f] = next]
    /\ UNCHANGED <<queue, worker, cancelled, reachable, copy>>

Used == FoldSet(LAMBDA f, sum : sum + part[f] + copy[f], 0, Files)
Free == IF Used > Capacity THEN 0 ELSE Capacity - Used

\* The figures of the host, and the disk-space check, once.
HeadAnswered(f) ==
    /\ at[f] = "head"
    /\ reachable[f]
    /\ Free >= Size[f] - part[f] + Buffer
    /\ Step(f, "stream")
    /\ UNCHANGED part

NoSpace(f) ==
    /\ at[f] = "head"
    /\ reachable[f]
    /\ Free < Size[f] - part[f] + Buffer
    /\ End(f)
    /\ UNCHANGED <<part, copy>>

IsSet_WhileBytesCome(f) == cancelled[f] /\ at[f] = "stream" /\ reachable[f]

IsSet(f) == cancelled[f]

\* The host does not answer the first request, or no longer: the worker waits
\* ten minutes, or until the event is set.
HostAway(f) ==
    /\ at[f] \in {"head", "stream"}
    /\ ~ reachable[f]
    /\ ~ IsSet(f)
    /\ Step(f, IF at[f] = "head" THEN "wait for figures" ELSE "wait")
    /\ UNCHANGED part

Waited(f) ==
    /\ at[f] \in Waits
    /\ ~ IsSet(f)
    /\ Step(f, IF at[f] = "wait" THEN "stream" ELSE "head")
    /\ UNCHANGED part

Chunk(f) ==
    /\ at[f] = "stream"
    /\ reachable[f]
    /\ ~ IsSet(f)
    /\ part[f] < Size[f]
    /\ Free > 0
    /\ part' = [part EXCEPT ![f] = @ + 1]
    /\ UNCHANGED <<queue, worker, at, cancelled, reachable, copy>>

\* An event that is set is looked at before and after each wait, between two
\* chunks, and when the transfer is over.
Cancelled(f) ==
    /\ at[f] \in Waits \cup {"stream"} \/ (at[f] = "head" /\ ~ reachable[f])
    /\ IsSet(f)
    /\ End(f)
    /\ UNCHANGED <<part, copy>>

DiskFull(f) ==
    /\ at[f] = "stream"
    /\ part[f] < Size[f]
    /\ Free = 0
    /\ End(f)
    /\ UNCHANGED <<part, copy>>

\* A status that is not tried again; or a sidecar that describes another build,
\* which leaves the bytes where they are.
Refused(f) ==
    /\ at[f] \in {"head", "stream"}
    /\ reachable[f]
    /\ End(f)
    /\ UNCHANGED <<part, copy>>

\* The checksum says that the bytes are of no use; they go.
Mismatch(f) ==
    /\ at[f] = "stream"
    /\ ~ IsSet(f)
    /\ part[f] >= Size[f]
    /\ part' = [part EXCEPT ![f] = 0]
    /\ copy' = copy
    /\ End(f)

Finish(f) ==
    /\ at[f] = "stream"
    /\ ~ IsSet(f)
    /\ part[f] >= Size[f]
    /\ copy' = [copy EXCEPT ![f] = part[f]]
    /\ part' = [part EXCEPT ![f] = 0]
    /\ End(f)

(***************************************************************************)
(* The hosts (external).                                                   *)
(***************************************************************************)
Goes(f) ==
    /\ f \in Unsteady
    /\ reachable[f]
    /\ reachable' = [reachable EXCEPT ![f] = FALSE]
    /\ UNCHANGED <<queue, worker, at, cancelled, part, copy>>

Returns(f) ==
    /\ ~ reachable[f]
    /\ reachable' = [reachable EXCEPT ![f] = TRUE]
    /\ UNCHANGED <<queue, worker, at, cancelled, part, copy>>

Work(f) ==
    \/ HeadAnswered(f) \/ NoSpace(f) \/ HostAway(f) \/ Waited(f)
    \/ Chunk(f) \/ Cancelled(f) \/ DiskFull(f) \/ Finish(f)

Next ==
    \/ \E f \in Files : StartDownload(f) \/ CancelDownload(f) \/ Discard(f)
    \/ \E w \in Workers : Take(w)
    \/ \E f \in Files : Work(f) \/ Refused(f) \/ Mismatch(f) \/ Goes(f) \/ Returns(f)

Spec == Init /\ [][Next]_vars

\* Threads run and waits end; nothing is assumed of the hosts.
FairSpec ==
    /\ Spec
    /\ \A w \in Workers : WF_vars(Take(w))
    /\ \A f \in Files : WF_vars(Work(f))

(***************************************************************************)
(* Properties.                                                             *)
(***************************************************************************)
TypeOK ==
    /\ queue \in Seq(Files)
    /\ worker \in [Workers -> Files \cup {NoFile}]
    /\ at \in [Files -> {"none", "queued", "head", "stream"} \cup Waits]
    /\ cancelled \in [Files -> BOOLEAN]
    /\ reachable \in [Files -> BOOLEAN]
    /\ part \in [Files -> Nat] /\ copy \in [Files -> Nat]
    /\ \A f \in Files : part[f] <= Size[f] /\ copy[f] <= Size[f]

\* A download that was accepted is once in the line or at one worker, and at
\* neither when it is over: none is lost, and none is run twice.
EachInOnePlace ==
    \A f \in Files :
        Cardinality({i \in DOMAIN queue : queue[i] = f}) + Cardinality({w \in Workers : worker[w] = f})
            = IF at[f] = "none" THEN 0 ELSE 1

\* A cancel ends a download that has a worker, and frees the worker, whatever
\* its host does: while it waits for it, between two waits and within an answer
\* (the cancel checks of _download_worker and _head_waiting_for_the_host).
CancelFreesWorker ==
    \A f \in Files : Running(f) /\ cancelled[f] ~> ~ Running(f)

\* Every download that was accepted comes to an end, however often the others
\* are started again, once the hosts stay reachable: no host holds a worker for
\* ever that has come back, and the line is served in order.
AcceptedEnds ==
    \A f \in Files :
        <>[](\A g \in Files : reachable[g]) => (at[f] = "queued" ~> at[f] = "none")

(***************************************************************************)
(* Stated by the code, or expected of it, and not kept.                    *)
(***************************************************************************)

\* The disk-space check keeps the disk from being filled.
DiskNotFilled == Free >= Buffer

\* What the check does keep: no more than what the other workers may write, M
\* chunks each at most, is missing from the buffer.
OverrunIsBounded(M) == Used + Buffer <= Capacity + (Cardinality(Workers) - 1) * M

\* A cancelled download ends, with or without a worker.
CancelEnds == \A f \in Files : at[f] # "none" /\ cancelled[f] ~> at[f] = "none"

=============================================================================
