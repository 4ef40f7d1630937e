------------------------------- MODULE Transfer -------------------------------
(***************************************************************************)
(* What one download receives and what it leaves on disk                   *)
(* (backend/download_manager.py, _download_worker and the functions it     *)
(* calls): the bytes of <name>.part, each with the build of the host it is *)
(* a byte of, the checksum that decides about them, and the finished file  *)
(* with the date it is given.                                              *)
(*                                                                         *)
(* DownloadRows shows that a file has one worker at a time, so there is    *)
(* one here. The host makes a build, and later serves it under the URL and *)
(* replaces the .md5 beside it, in either order: it is these delays, a     *)
(* connection that is still open when the host moves on, and a process     *)
(* that dies, that the code has to live with. Dates are those of module    *)
(* Freshness: build b is dated b, and what is written while b is the       *)
(* newest build made is dated b.                                           *)
(***************************************************************************)
EXTENDS Freshness, Sequences

CONSTANTS
    MaxBuild,       \* bound: builds the host makes
    Length,         \* chunks of each build
    MaxRetries,     \* config.MAX_RETRIES
    MaxFailures     \* bound: answers lost, cancels and crashes

Builds == 1 .. MaxBuild

ASSUME BoundsAssumption ==
    /\ MaxBuild \in Nat \ {0}
    /\ MaxRetries \in Nat \ {0}
    /\ MaxFailures \in Nat
ASSUME LengthAssumption == Length \in [Builds -> Nat \ {0}]

VARIABLES
    site,       \* how the host is set up, which does not change
    host,       \* the newest build made, the one served, the one the .md5 describes
    part,       \* <name>.osm.pbf.part
    dest,       \* <name>.osm.pbf
    pc,         \* where the worker stands
    job,        \* what it holds
    failures    \* what is left of the bound

vars == <<site, host, part, dest, pc, job, failures>>

(***************************************************************************)
(* The host (external), the files and the worker.                          *)
(***************************************************************************)

\* The .md5 beside the URL names the file it describes as the URL does, or by
\* the name of the build; the URL redirects nowhere, to the build's own URL, or
\* to a mirror that keeps the name; the .md5 is in step with the file or not;
\* answers carry Last-Modified or not.
Sites == [lists : {"alias", "build"}, redirect : {"none", "build", "mirror"},
          inStep : BOOLEAN, dated : BOOLEAN]

Published(b) == IF site.dated THEN b ELSE 0
Whole(b) == [i \in 1 .. Length[b] |-> b]
OnlyOf(b, chunks) == \A i \in 1 .. Len(chunks) : chunks[i] = b

\* A file that exists has been written at some date.
NoFile == [chunks |-> <<>>, date |-> 0]
Written(chunks) == [chunks |-> chunks, date |-> host.made]

\* The finished file; "stamped" remembers whether its date was set by os.utime.
NoCopy == [chunks |-> <<>>, date |-> 0, stamped |-> FALSE]
Copy(chunks, date, stamped) == [chunks |-> chunks, date |-> date, stamped |-> stamped]

\* The published date last heard of, the offset asked for, the build an open
\* connection or a resolved URL belongs to, the retries used, the loop.
IdleJob == [mtime |-> 0, start |-> 0, build |-> 0, attempt |-> 0, loop |-> "fast"]

Init ==
    /\ site \in Sites
    /\ host = [made |-> 1, served |-> 1, sidecar |-> 1]
    /\ part = NoFile
    /\ dest \in {NoCopy, Copy(Whole(1), 1, TRUE)}
    /\ pc = "idle"
    /\ job = IdleJob
    /\ failures = MaxFailures

MakeBuild ==
    /\ host.made < MaxBuild
    /\ host' = [host EXCEPT !.made = @ + 1]
    /\ UNCHANGED <<site, part, dest, pc, job, failures>>

ServeBuild ==
    /\ host.served < host.made
    /\ host' = [host EXCEPT !.served = host.made,
                            !.sidecar = IF site.inStep THEN host.made ELSE @]
    /\ UNCHANGED <<site, part, dest, pc, job, failures>>

RenewSidecar ==
    /\ ~ site.inStep
    /\ host.sidecar < host.made
    /\ host' = [host EXCEPT !.sidecar = host.made]
    /\ UNCHANGED <<site, part, dest, pc, job, failures>>

Host == MakeBuild \/ ServeBuild \/ RenewSidecar

(***************************************************************************)
(* Opening a transfer, and resuming one.                                   *)
(***************************************************************************)
InTransfer == {"head", "get", "stream", "wait"}

Fail == failures > 0 /\ failures' = failures - 1

\* An exception or a cancel: the .part stays as the base of the next attempt.
End == pc' = "idle" /\ job' = [job EXCEPT !.build = 0] /\ UNCHANGED <<site, host, part, dest>>

Start ==
    /\ pc = "idle"
    /\ pc' = "head"
    /\ job' = IdleJob
    /\ UNCHANGED <<site, host, part, dest, failures>>

PartLength == Len(part.chunks)

\* The figures of a HEAD, and the bytes a resume may build on.
Resume(mtime) ==
    LET outdated == IsSuperseded(mtime, part.date)
    IN  /\ job' = [job EXCEPT !.mtime = mtime,
                              !.start = IF outdated THEN 0 ELSE PartLength]
        /\ part' = IF outdated THEN NoFile ELSE part

HeadAnswered ==
    /\ pc = "head"
    /\ Resume(Published(host.served))
    /\ pc' = "get"
    /\ UNCHANGED <<site, host, dest, failures>>

\* Before a transfer is asked for again, in either loop, the host is asked for its figures; when
\* it does not answer, those the worker has are kept.
Refreshed(mtime) ==
    \/ mtime = Published(host.served) /\ UNCHANGED failures
    \/ mtime = job.mtime /\ Fail

Again ==
    /\ pc = "wait"
    /\ \E mtime \in {Published(host.served), job.mtime} :
           Refreshed(mtime) /\ Resume(mtime)
    /\ pc' = "get"
    /\ UNCHANGED <<site, host, dest>>

(***************************************************************************)
(* _do_download: one request for the bytes from start_byte on.             *)
(***************************************************************************)
Stream(chunks) ==
    /\ pc' = "stream"
    /\ part' = Written(chunks)
    /\ job' = [job EXCEPT !.build = host.served]
    /\ UNCHANGED <<site, host, dest, failures>>

NothingLeft_Trusts ==
    /\ pc = "get"
    /\ job.start >= Length[host.served]
    /\ pc' = "publish"
    /\ UNCHANGED <<site, host, part, dest, job, failures>>

\* 416: there is nothing after the bytes on disk.
NothingLeft ==
    /\ pc = "get"
    /\ job.start >= Length[host.served]
    /\ pc' = "sidecar"
    /\ UNCHANGED <<site, host, part, dest, job, failures>>

\* 206: open(dest, "ab"). Opening alone changes no date.
RangeAnswered ==
    /\ pc = "get"
    /\ job.start > 0
    /\ job.start < Length[host.served]
    /\ pc' = "stream"
    /\ job' = [job EXCEPT !.build = host.served]
    /\ UNCHANGED <<site, host, part, dest, failures>>

\* 200, to a request without a range or in spite of one: open(dest, "wb").
WholeAnswered ==
    /\ pc = "get"
    /\ Stream(<<>>)

AskedToRetry_OneMore ==
    /\ pc = "get"
    /\ job.loop = "fast"
    /\ job.attempt < MaxRetries
    /\ Fail
    /\ pc' = "wait"
    /\ job' = [job EXCEPT !.attempt = @ + 1]
    /\ UNCHANGED <<site, host, part, dest>>

\* An HTTP status that may pass: tried again at once, as long as retries are
\* left, but not once the slow loop has taken over.
AskedToRetry ==
    /\ pc = "get"
    /\ job.loop = "fast"
    /\ job.attempt + 1 < MaxRetries
    /\ Fail
    /\ pc' = "wait"
    /\ job' = [job EXCEPT !.attempt = @ + 1]
    /\ UNCHANGED <<site, host, part, dest>>

Chunk ==
    /\ pc = "stream"
    /\ PartLength < Length[job.build]
    /\ part' = Written(Append(part.chunks, job.build))
    /\ UNCHANGED <<site, host, dest, pc, job, failures>>

StreamOver ==
    /\ pc = "stream"
    /\ PartLength >= Length[job.build]
    /\ pc' = "sidecar"
    /\ job' = [job EXCEPT !.build = 0]
    /\ UNCHANGED <<site, host, part, dest, failures>>

\* The connection fails before or within the answer: the slow loop.
ConnectionLost ==
    /\ pc \in {"get", "stream"}
    /\ Fail
    /\ pc' = "wait"
    /\ job' = [job EXCEPT !.build = 0, !.loop = "slow"]
    /\ UNCHANGED <<site, host, part, dest>>

\* The user cancels, the host refuses, the disk is full, the retries are used.
Stopped == pc \in InTransfer /\ Fail /\ End

(***************************************************************************)
(* _verify_checksum.                                                       *)
(***************************************************************************)
Matches_ByLength(b) == PartLength = Length[b]

Matches(b) == part.chunks = Whole(b)

Keep == UNCHANGED <<site, host, part, dest, failures>>

Discard_Never ==
    /\ pc' = "idle"
    /\ job' = [job EXCEPT !.build = 0]
    /\ Keep

\* The digest proves the bytes unusable: they are removed, if they can be.
Discard ==
    /\ pc' = "idle"
    /\ job' = [job EXCEPT !.build = 0]
    /\ \/ part' = NoFile /\ UNCHANGED failures
       \/ part' = part /\ Fail
    /\ UNCHANGED <<site, host, dest>>

DescribesOtherBuild_Never == FALSE

\* A .md5 that names a build, beside a URL that names none.
DescribesOtherBuild == site.lists = "build"

\* The .md5 beside the URL.
SidecarMatches ==
    /\ pc = "sidecar"
    /\ Matches(host.sidecar)
    /\ pc' = "publish"
    /\ UNCHANGED job
    /\ Keep

SidecarOfOtherBuild ==
    /\ pc = "sidecar"
    /\ ~ Matches(host.sidecar)
    /\ DescribesOtherBuild
    /\ pc' = "resolve"
    /\ UNCHANGED job
    /\ Keep

SidecarRefutes ==
    /\ pc = "sidecar"
    /\ ~ Matches(host.sidecar)
    /\ ~ DescribesOtherBuild
    /\ Discard

\* _effective_url: where the URL leads now. When that is nowhere else, or is
\* not answered, the .part is kept.
Resolve ==
    /\ pc = "resolve"
    /\ site.redirect # "none"
    /\ pc' = "resolved"
    /\ job' = [job EXCEPT !.build = host.served]
    /\ Keep

ResolveNowhere ==
    /\ pc = "resolve"
    /\ site.redirect = "none"
    /\ End
    /\ UNCHANGED failures

\* The .md5 found there: that of the build itself, or again one beside a name
\* that is not the build's.
ResolvedSidecar == IF site.redirect = "build" THEN job.build ELSE host.sidecar

ResolvedMatches ==
    /\ pc = "resolved"
    /\ Matches(ResolvedSidecar)
    /\ pc' = "publish"
    /\ job' = [job EXCEPT !.build = 0]
    /\ Keep

ResolvedRefutes ==
    /\ pc = "resolved"
    /\ ~ Matches(ResolvedSidecar)
    /\ site.redirect = "build"
    /\ Discard

ResolvedOfOtherBuild ==
    /\ pc = "resolved"
    /\ ~ Matches(ResolvedSidecar)
    /\ site.redirect = "mirror"
    /\ End
    /\ UNCHANGED failures

\* No .md5, or none that parses, or no answer.
VerifyFails == pc \in {"sidecar", "resolve", "resolved"} /\ Fail /\ End

(***************************************************************************)
(* Into place, and then the published date; the process may die anywhere.  *)
(***************************************************************************)
Publish ==
    /\ pc = "publish"
    /\ dest' = Copy(part.chunks, part.date, FALSE)
    /\ part' = NoFile
    /\ pc' = "stamp"
    /\ UNCHANGED <<site, host, job, failures>>

Stamp ==
    /\ pc = "stamp"
    /\ dest' = IF job.mtime # 0 THEN Copy(dest.chunks, job.mtime, TRUE) ELSE dest
    /\ pc' = "idle"
    /\ UNCHANGED <<site, host, part, job, failures>>

Crash == pc # "idle" /\ Fail /\ End

Transfer ==
    \/ HeadAnswered \/ Again
    \/ NothingLeft \/ RangeAnswered \/ WholeAnswered
    \/ Chunk \/ StreamOver
Verify ==
    \/ SidecarMatches \/ SidecarOfOtherBuild \/ SidecarRefutes
    \/ Resolve \/ ResolveNowhere
    \/ ResolvedMatches \/ ResolvedRefutes \/ ResolvedOfOtherBuild
Failure == AskedToRetry \/ ConnectionLost \/ Stopped \/ VerifyFails \/ Crash

Worker == Transfer \/ Verify \/ Publish \/ Stamp

Next == Host \/ Start \/ Worker \/ Failure

Spec == Init /\ [][Next]_vars

\* Every request has a timeout; the user comes back as long as there is a
\* newer build than the copy.
Behind == dest = NoCopy \/ dest.chunks # Whole(host.served)
FairSpec == Spec /\ WF_vars(Worker) /\ WF_vars(Behind /\ Start)

(***************************************************************************)
(* Properties.                                                             *)
(***************************************************************************)
TypeOK ==
    /\ site \in Sites
    /\ host \in [made : Builds, served : Builds, sidecar : Builds]
    /\ part \in [chunks : Seq(Builds), date : 0 .. MaxBuild]
    /\ dest \in [chunks : Seq(Builds), date : 0 .. MaxBuild, stamped : BOOLEAN]
    /\ pc \in {"idle", "head", "get", "stream", "wait", "sidecar",
               "resolve", "resolved", "publish", "stamp"}
    /\ job \in [mtime : 0 .. MaxBuild, start : Nat, build : 0 .. MaxBuild,
                attempt : 0 .. MaxRetries - 1, loop : {"fast", "slow"}]
    /\ failures \in 0 .. MaxFailures

\* The build a finished file is a copy of.
Content == IF dest = NoCopy THEN 0 ELSE dest.chunks[1]

\* What lies at the final name is one build of the host, whole, however many
\* builds the .part was put together from (_verify_checksum before os.replace).
PublishedIsOneBuild == dest # NoCopy => dest.chunks = Whole(Content)

\* A file dated after a build the host has yet to make would be shown as up to
\* date, and that build never be offered. So: where the .md5 is in step with the
\* file, the date os.utime sets is not after the content; and a file the process
\* has left between os.replace and os.utime, or a host without dates, keeps the
\* date of its last write, which hides no build made later than that write and
\* does not offer again what the file holds (_download_worker).
DateOfContent ==
    /\ dest.stamped /\ site.inStep => dest.date <= Content
    /\ ~ dest.stamped => Content <= dest.date /\ dest.date <= host.made

\* Bytes of the build that is being served are never thrown away, neither by a
\* resume that takes them for outdated nor by a checksum that belongs to
\* another build, unless the .md5 is out of step and does not say so, or the
\* host answers a range with the whole file.
Lost == part.chunks # <<>> /\ part' = NoFile /\ pc' # "stamp"
ServedBytesKept ==
    [][Lost /\ OnlyOf(host.served, part.chunks)
         => site.lists = "alias" /\ host.sidecar # host.served]_vars

\* Transfers that are started again as long as the copy is behind end with a
\* copy of the build served, whatever .part the crashes, the lost connections
\* and the builds in between have left, where the .md5 is in step and either
\* names the file as the URL does or is found by following the redirect.
Decidable == site.inStep /\ (site.lists = "alias" \/ site.redirect = "build")
Converges == Decidable => <>[](~ Behind)

Mirrored == IF PublishedIsOneBuild THEN Content ELSE MaxBuild + 1
Mirror == INSTANCE Mirror WITH copy <- Mirrored, latest <- host.made
\* The file on disk is a mirror of the host that only moves forward: it shows
\* whole builds, none older than the one before it.
CopyMirrors == Mirror!Spec

(***************************************************************************)
(* Stated by the code, and not kept by it.                                 *)
(***************************************************************************)

\* A resume never splices the bytes of two builds (_resume_offset).
NoSplice == \A i, k \in 1 .. PartLength : part.chunks[i] = part.chunks[k]

\* The date of a finished file is never that of a newer build; nor is it where
\* the .md5 is in step, since a crash before os.utime leaves that of the write.
DateNeverAhead == pc = "idle" => dest.date <= Content
DateSurvivesCrash == site.inStep => DateNeverAhead

\* A .part that no checksum accepts does not stay for ever.
AlwaysConverges == <>[](~ Behind)

=============================================================================
