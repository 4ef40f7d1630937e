---------------------------- MODULE TransferProofs ----------------------------
(***************************************************************************)
(* Theorems about Transfer, for any number of builds of any lengths and    *)
(* any number of failures. The bytes of a .part are never of a build older *)
(* than the finished file nor dated before the build they are of (PartOK), *)
(* which is why a resume never drops bytes of the build being served, and  *)
(* why what passes the checksum is not older than what it replaces.        *)
(***************************************************************************)
EXTENDS Transfer, SequenceTheorems, TLAPS

HostOK ==
  /\ host.served <= host.made
  /\ host.sidecar <= host.made
  /\ site.inStep => host.sidecar = host.served

CopyOK == dest = NoCopy \/ \E b \in Builds : b <= host.served /\ dest.chunks = Whole(b)

\* The bytes on disk are of builds between the finished file and the one
\* served, written when that build had been made; of one build there are never
\* more than it has. They are dated no later than the newest build.
ChunksUpTo(b) == \A i \in 1..PartLength : part.chunks[i] <= b
PartOK ==
  /\ ChunksUpTo(host.served)
  /\ ChunksUpTo(part.date)
  /\ part.date <= host.made
  /\ \A i \in 1..PartLength : Content <= part.chunks[i]
  /\ \A b \in Builds : OnlyOf(b, part.chunks) => PartLength <= Length[b]

\* What each place knows of the bytes, and of the date that will be set.
Received ==
  part.chunks # <<>> /\ OnlyOf(host.served, part.chunks) => PartLength >= Length[host.served]
Verified(b) == b <= host.served /\ Content <= b /\ part.chunks = Whole(b)
WorkerOK ==
  /\ job.mtime <= host.served
  /\ pc = "get" => job.start = PartLength
  /\ pc \in {"stream", "resolved"} => job.build \in Builds /\ job.build <= host.served /\ ChunksUpTo(job.build)
  /\ pc = "stream" => Content <= job.build
  /\ pc \in {"sidecar", "resolve", "resolved"} => Received
  /\ pc = "resolved" => job.mtime <= job.build
  /\ pc = "publish" => \E b \in Builds : Verified(b) /\ (site.inStep => job.mtime <= b)
  /\ pc = "stamp" => dest # NoCopy /\ (site.inStep => job.mtime <= Content)

TransferInv == TypeOK /\ HostOK /\ CopyOK /\ PartOK /\ WorkerOK /\ DateOfContent

(***************************************************************************)
(* Chunks of one build.                                                    *)
(***************************************************************************)
LEMMA WholeFacts ==
  ASSUME NEW b \in Builds
  PROVE  /\ Whole(b) \in Seq(Builds)
         /\ Len(Whole(b)) = Length[b]
         /\ Length[b] \in Nat \ {0}
         /\ \A i \in 1..Length[b] : Whole(b)[i] = b
         /\ Whole(b) # <<>>
<1>1. Length[b] \in Nat \ {0}
  BY LengthAssumption
<1>2. Whole(b) \in [1..Length[b] -> Builds]
  BY DEF Whole
<1>3. Whole(b) \in Seq(Builds) /\ Len(Whole(b)) = Length[b]
  BY <1>1, <1>2
<1> QED
  BY <1>1, <1>3, EmptySeq DEF Whole

LEMMA ContentOfWhole ==
  ASSUME NEW b \in Builds, dest.chunks = Whole(b)
  PROVE  Content = b /\ dest # NoCopy
<1>1. dest.chunks # <<>> /\ dest.chunks[1] = b
  BY SMTT(30), WholeFacts
<1>2. dest # NoCopy
  BY <1>1 DEF NoCopy
<1> QED
  BY <1>1, <1>2 DEF Content

LEMMA ContentType ==
  ASSUME TypeOK, CopyOK
  PROVE  Content \in 0..MaxBuild /\ Content <= host.served
<1>1. CASE dest = NoCopy
  BY <1>1, BoundsAssumption DEF TypeOK, Content, Builds
<1>2. CASE dest # NoCopy
  <2>1. PICK b \in Builds : b <= host.served /\ dest.chunks = Whole(b)
    BY <1>2 DEF CopyOK
  <2> QED
    BY <2>1, ContentOfWhole, BoundsAssumption DEF Builds
<1> QED
  BY <1>1, <1>2

\* Bytes of one build that are as many as it has are that build.
LEMMA AllOfIt ==
  ASSUME TypeOK, PartOK, NEW b \in Builds, OnlyOf(b, part.chunks), PartLength >= Length[b]
  PROVE  part.chunks = Whole(b)
<1>1. part.chunks \in Seq(Builds) /\ Len(part.chunks) \in Nat
  BY DEF TypeOK
<1>2. Len(part.chunks) = Length[b]
  BY <1>1, WholeFacts DEF PartOK, PartLength
<1>3. part.chunks = [i \in 1..Len(part.chunks) |-> part.chunks[i]]
  BY <1>1
<1>4. \A i \in 1..Len(part.chunks) : part.chunks[i] = b
  BY DEF OnlyOf
<1> QED
  BY <1>2, <1>3, <1>4 DEF Whole

(***************************************************************************)
(* Types.                                                                  *)
(***************************************************************************)
JobsOK == [mtime : 0 .. MaxBuild, start : Nat, build : 0 .. MaxBuild,
           attempt : 0 .. MaxRetries - 1, loop : {"fast", "slow"}]

LEMMA BuildEdit ==
  ASSUME NEW j \in JobsOK, NEW b \in 0..MaxBuild
  PROVE  [j EXCEPT !.build = b] \in JobsOK
BY DEF JobsOK

LEMMA LoopEdit ==
  ASSUME NEW j \in JobsOK, NEW b \in 0..MaxBuild, NEW l \in {"fast", "slow"}
  PROVE  [j EXCEPT !.build = b, !.loop = l] \in JobsOK
BY DEF JobsOK

LEMMA AttemptEdit ==
  ASSUME NEW j \in JobsOK, NEW a \in 0..MaxRetries - 1
  PROVE  [j EXCEPT !.attempt = a] \in JobsOK
BY DEF JobsOK

LEMMA HostEdits ==
  ASSUME NEW h \in [made : Builds, served : Builds, sidecar : Builds], NEW b \in Builds
  PROVE  /\ [h EXCEPT !.made = b] \in [made : Builds, served : Builds, sidecar : Builds]
         /\ [h EXCEPT !.sidecar = b] \in [made : Builds, served : Builds, sidecar : Builds]
         /\ \A c \in Builds : [h EXCEPT !.served = b, !.sidecar = c]
                                \in [made : Builds, served : Builds, sidecar : Builds]
OBVIOUS

LEMMA ResumeType ==
  ASSUME TypeOK, NEW mtime \in 0..MaxBuild, Resume(mtime)
  PROVE  /\ part' \in [chunks : Seq(Builds), date : 0 .. MaxBuild]
         /\ job' \in [mtime : 0 .. MaxBuild, start : Nat, build : 0 .. MaxBuild,
                      attempt : 0 .. MaxRetries - 1, loop : {"fast", "slow"}]
<1>1. PartLength \in Nat
  BY DEF TypeOK, PartLength
<1>2. NoFile \in [chunks : Seq(Builds), date : 0 .. MaxBuild]
  BY BoundsAssumption DEF NoFile
<1> QED
  BY <1>1, <1>2 DEF Resume, TypeOK

LEMMA WrittenType ==
  ASSUME TypeOK, NEW chunks \in Seq(Builds)
  PROVE  Written(chunks) \in [chunks : Seq(Builds), date : 0 .. MaxBuild]
BY BoundsAssumption DEF TypeOK, Written, Builds

LEMMA PublishedType ==
  ASSUME TypeOK
  PROVE  Published(host.served) \in 0..MaxBuild /\ Published(host.served) <= host.served
BY BoundsAssumption DEF TypeOK, Published, Builds

LEMMA TypeInductive == TypeOK /\ WorkerOK /\ [Next]_vars => TypeOK'
<1> SUFFICES ASSUME TypeOK, WorkerOK, [Next]_vars PROVE TypeOK'
  OBVIOUS
<1> USE BoundsAssumption
<1> DEFINE Parts == [chunks : Seq(Builds), date : 0 .. MaxBuild]
           Places == {"idle", "head", "get", "stream", "wait", "sidecar",
                      "resolve", "resolved", "publish", "stamp"}
<1> job \in JobsOK
  BY DEF TypeOK, JobsOK
<1>z. 0 \in 0..MaxBuild
  OBVIOUS
<1>s. host.served \in 0..MaxBuild
  BY DEF TypeOK, Builds
<1>1. CASE UNCHANGED vars
  BY <1>1 DEF vars, TypeOK
<1>2. CASE Host
  <2>1. host' \in [made : Builds, served : Builds, sidecar : Builds]
    <3>1. CASE MakeBuild
      <4>1. host.made + 1 \in Builds
        BY SMTT(30), <3>1 DEF MakeBuild, TypeOK, Builds
      <4> QED
        BY <3>1, <4>1, HostEdits DEF MakeBuild, TypeOK
    <3>2. CASE ServeBuild
      BY <3>2, HostEdits DEF ServeBuild, TypeOK
    <3>3. CASE RenewSidecar
      BY <3>3, HostEdits DEF RenewSidecar, TypeOK
    <3> QED
      BY <1>2, <3>1, <3>2, <3>3 DEF Host
  <2>2. UNCHANGED <<site, part, dest, pc, job, failures>>
    BY <1>2 DEF Host, MakeBuild, ServeBuild, RenewSidecar
  <2> QED
    BY <2>1, <2>2 DEF TypeOK
<1>3. CASE Start
  BY <1>3 DEF Start, IdleJob, TypeOK
<1>4. CASE HeadAnswered
  BY <1>4, ResumeType, PublishedType DEF HeadAnswered, TypeOK
<1>5. CASE Again
  <2>1. PICK mtime \in {Published(host.served), job.mtime} : Refreshed(mtime) /\ Resume(mtime)
    BY <1>5 DEF Again
  <2>2. mtime \in 0..MaxBuild
    BY <2>1, PublishedType DEF TypeOK
  <2>3. failures' \in 0..MaxFailures
    BY <2>1 DEF Refreshed, Fail, TypeOK
  <2> QED
    BY <1>5, <2>1, <2>2, <2>3, ResumeType DEF Again, TypeOK
<1>6. CASE NothingLeft \/ RangeAnswered \/ AskedToRetry
  <2>1. pc' \in Places /\ failures' \in 0..MaxFailures
    BY SMTT(30), <1>6 DEF NothingLeft, RangeAnswered, AskedToRetry, Fail, Places, TypeOK
  <2>2. job' \in JobsOK
    <3>1. CASE NothingLeft
      BY <3>1 DEF NothingLeft
    <3>2. CASE RangeAnswered
      BY <3>2, <1>s, BuildEdit DEF RangeAnswered
    <3>3. CASE AskedToRetry
      <4>1. job.attempt + 1 \in 0..MaxRetries - 1
        BY <3>3 DEF AskedToRetry, JobsOK
      <4> QED
        BY <3>3, <4>1, AttemptEdit DEF AskedToRetry
    <3> QED
      BY <1>6, <3>1, <3>2, <3>3
  <2>3. UNCHANGED <<site, host, part, dest>>
    BY <1>6 DEF NothingLeft, RangeAnswered, AskedToRetry
  <2> QED
    BY <2>1, <2>2, <2>3 DEF TypeOK, Places, JobsOK
<1>7. CASE WholeAnswered
  <2>1. <<>> \in Seq(Builds)
    OBVIOUS
  <2>2. part' \in Parts
    BY <1>7, <2>1, WrittenType DEF WholeAnswered, Stream
  <2>3. job' \in JobsOK
    BY <1>7, <1>s, BuildEdit DEF WholeAnswered, Stream
  <2> QED
    BY <1>7, <2>2, <2>3 DEF WholeAnswered, Stream, TypeOK, Parts, JobsOK
<1>8. CASE Chunk
  <2>1. Append(part.chunks, job.build) \in Seq(Builds)
    BY <1>8 DEF Chunk, WorkerOK, TypeOK
  <2>2. part' \in Parts
    BY <1>8, <2>1, WrittenType DEF Chunk
  <2> QED
    BY <1>8, <2>2 DEF Chunk, TypeOK, Parts
<1>9. CASE StreamOver \/ ConnectionLost \/ Stopped
  <2>1. pc' \in Places /\ failures' \in 0..MaxFailures
    BY SMTT(30), <1>9 DEF StreamOver, ConnectionLost, Stopped, End, Fail, Places, TypeOK
  <2>2. job' \in JobsOK
    BY ZenonT(40), <1>9, <1>z, BuildEdit, LoopEdit DEF StreamOver, ConnectionLost, Stopped, End
  <2>3. UNCHANGED <<site, host, part, dest>>
    BY <1>9 DEF StreamOver, ConnectionLost, Stopped, End
  <2> QED
    BY <2>1, <2>2, <2>3 DEF TypeOK, Places, JobsOK
<1>10. CASE SidecarMatches \/ SidecarOfOtherBuild \/ Resolve \/ ResolveNowhere
            \/ ResolvedMatches \/ ResolvedOfOtherBuild \/ VerifyFails \/ Crash
  <2>1. pc' \in Places /\ failures' \in 0..MaxFailures
    BY SMTT(30), <1>10
       DEF SidecarMatches, SidecarOfOtherBuild, Resolve, ResolveNowhere, ResolvedMatches,
           ResolvedOfOtherBuild, VerifyFails, Crash, Keep, End, Fail, Places, TypeOK
  <2>2. job' \in JobsOK
    BY <1>10, <1>z, <1>s, BuildEdit
       DEF SidecarMatches, SidecarOfOtherBuild, Resolve, ResolveNowhere, ResolvedMatches,
           ResolvedOfOtherBuild, VerifyFails, Crash, End
  <2>3. UNCHANGED <<site, host, part, dest>>
    BY <1>10
       DEF SidecarMatches, SidecarOfOtherBuild, Resolve, ResolveNowhere, ResolvedMatches,
           ResolvedOfOtherBuild, VerifyFails, Crash, Keep, End
  <2> QED
    BY <2>1, <2>2, <2>3 DEF TypeOK, Places, JobsOK
<1>11. CASE SidecarRefutes \/ ResolvedRefutes
  <2>1. NoFile \in Parts
    BY DEF NoFile, Parts
  <2>2. part' \in Parts
    BY <1>11, <2>1 DEF SidecarRefutes, ResolvedRefutes, Discard, Parts, TypeOK
  <2>3. pc' \in Places /\ failures' \in 0..MaxFailures
    BY <1>11 DEF SidecarRefutes, ResolvedRefutes, Discard, Fail, Places, TypeOK
  <2>4. job' \in JobsOK
    BY <1>11, <1>z, BuildEdit DEF SidecarRefutes, ResolvedRefutes, Discard
  <2> QED
    BY <1>11, <2>2, <2>3, <2>4
       DEF SidecarRefutes, ResolvedRefutes, Discard, TypeOK, Parts, JobsOK, Places
<1>12. CASE Publish
  <2>1. NoFile \in [chunks : Seq(Builds), date : 0 .. MaxBuild]
    BY DEF NoFile
  <2> QED
    BY <1>12, <2>1 DEF Publish, Copy, TypeOK
<1>13. CASE Stamp
  BY <1>13 DEF Stamp, Copy, TypeOK
<1> QED
  BY <1>1, <1>2, <1>3, <1>4, <1>5, <1>6, <1>7, <1>8, <1>9, <1>10, <1>11, <1>12, <1>13
     DEF Next, Worker, Transfer, Verify, Failure

(***************************************************************************)
(* What a step that leaves the bytes or the copy alone keeps.              *)
(***************************************************************************)
LEMMA NumberTypes ==
  ASSUME TypeOK
  PROVE  /\ host.made \in Nat /\ host.served \in Nat \ {0} /\ host.sidecar \in Nat
         /\ host.made \in Builds /\ host.served \in Builds /\ host.sidecar \in Builds
         /\ job.mtime \in Nat /\ job.start \in Nat /\ job.build \in Nat
         /\ part.date \in Nat /\ dest.date \in Nat
         /\ part.chunks \in Seq(Builds) /\ PartLength \in Nat
         /\ \A i \in 1..PartLength : part.chunks[i] \in Builds
         /\ Builds \subseteq Nat \ {0}
<1>1. Builds \subseteq Nat \ {0} /\ 0..MaxBuild \subseteq Nat
  BY BoundsAssumption DEF Builds
<1>2. host.made \in Builds /\ host.served \in Builds /\ host.sidecar \in Builds
  BY DEF TypeOK
<1>3. job.mtime \in 0..MaxBuild /\ job.start \in Nat /\ job.build \in 0..MaxBuild
  BY DEF TypeOK
<1>4. part.chunks \in Seq(Builds) /\ part.date \in 0..MaxBuild /\ dest.date \in 0..MaxBuild
  BY DEF TypeOK
<1>5. PartLength \in Nat /\ \A i \in 1..PartLength : part.chunks[i] \in Builds
  BY <1>4 DEF PartLength
<1> QED
  BY <1>1, <1>2, <1>3, <1>4, <1>5

LEMMA SameBytes ==
  ASSUME TypeOK, TypeOK', CopyOK, PartOK, UNCHANGED <<part, dest>>,
         host.served <= host'.served, host.made <= host'.made
  PROVE  CopyOK' /\ PartOK' /\ Content' = Content /\ PartLength' = PartLength
<1>1. Content' = Content /\ PartLength' = PartLength /\ NoCopy' = NoCopy
  BY DEF Content, PartLength, NoCopy
<1>t. host'.served \in Nat /\ host'.made \in Nat
  <2>1. host' \in [made : Builds, served : Builds, sidecar : Builds]
    BY DEF TypeOK
  <2> QED
    BY <2>1, BoundsAssumption DEF Builds
<1>2. \A b \in Builds : b <= host.served => b <= host'.served
  BY <1>t, NumberTypes
<1>3. CopyOK'
  BY <1>1, <1>2 DEF CopyOK
<1>4. PartOK'
  <2>1. part'.date <= host'.made
    BY <1>t, NumberTypes DEF PartOK
  <2>2. ChunksUpTo(host.served)'
    BY <1>1, <1>2, NumberTypes DEF PartOK, ChunksUpTo
  <2> QED
    BY <1>1, <2>1, <2>2 DEF PartOK, ChunksUpTo
<1> QED
  BY <1>1, <1>3, <1>4

LEMMA SameCopy ==
  ASSUME TypeOK, TypeOK', CopyOK, UNCHANGED <<host, dest>>
  PROVE  CopyOK' /\ Content' = Content
BY DEF CopyOK, Content, NoCopy

LEMMA SameDate ==
  ASSUME TypeOK, TypeOK', DateOfContent, UNCHANGED <<site, dest>>, host.made <= host'.made
  PROVE  DateOfContent'
<1>1. Content' = Content
  BY DEF Content, NoCopy
<1>2. dest.date \in Nat /\ host.made \in Nat /\ host'.made \in Nat
  <2>1. host' \in [made : Builds, served : Builds, sidecar : Builds]
    BY DEF TypeOK
  <2> QED
    BY <2>1, NumberTypes, BoundsAssumption DEF Builds
<1>3. ~ dest.stamped => dest.date <= host'.made
  BY <1>2 DEF DateOfContent
<1> QED
  BY <1>1, <1>3 DEF DateOfContent

LEMMA HostStep ==
  ASSUME TransferInv, TypeOK', Host
  PROVE  TransferInv'
<1> USE DEF TransferInv
<1>1. UNCHANGED <<site, part, dest, pc, job, failures>>
  BY DEF Host, MakeBuild, ServeBuild, RenewSidecar
<1>2. HostOK' /\ host.served <= host'.served /\ host.made <= host'.made
  <2>1. CASE MakeBuild
    BY SMTT(30), <2>1, NumberTypes DEF MakeBuild, HostOK, TypeOK
  <2>2. CASE ServeBuild
    BY <2>2, NumberTypes DEF ServeBuild, HostOK, TypeOK
  <2>3. CASE RenewSidecar
    BY SMTT(30), <2>3, NumberTypes DEF RenewSidecar, HostOK, TypeOK
  <2> QED
    BY <2>1, <2>2, <2>3 DEF Host
<1>t. host'.served \in Nat
  <2>1. host' \in [made : Builds, served : Builds, sidecar : Builds]
    BY DEF TypeOK
  <2> QED
    BY <2>1, BoundsAssumption DEF Builds
<1>3. CopyOK' /\ PartOK' /\ Content' = Content /\ PartLength' = PartLength
  BY <1>1, <1>2, SameBytes
<1>4. DateOfContent'
  BY <1>1, <1>2, SameDate
<1>5. WorkerOK'
  <2>1. pc \in {"sidecar", "resolve", "resolved"} => Received'
    <3>1. CASE host'.served = host.served
      BY <1>1, <1>3, <3>1 DEF WorkerOK, Received, OnlyOf
    <3>2. CASE host'.served > host.served
      <4>1. part.chunks # <<>> => part.chunks[1] <= host.served /\ Len(part.chunks) >= 1
        BY NumberTypes, EmptySeq DEF PartOK, ChunksUpTo, PartLength
      <4> QED
        <5>1. SUFFICES ASSUME part.chunks # <<>>, \A i \in 1..Len(part.chunks) : part.chunks[i] = host'.served
                       PROVE  FALSE
          BY <1>1 DEF Received, OnlyOf
        <5>2. Len(part.chunks) \in Nat /\ 1 \in 1..Len(part.chunks)
          BY <4>1, <5>1, NumberTypes DEF PartLength
        <5>3. part.chunks[1] = host'.served
          BY <5>1, <5>2
        <5>4. host.served \in Nat
          BY NumberTypes
        <5> QED
          BY <1>t, <3>2, <4>1, <5>1, <5>3, <5>4
    <3> QED
      BY <1>2, <1>t, <3>1, <3>2, NumberTypes
  <2>2. \A b \in Nat : b <= host.served => b <= host'.served
    BY <1>2, <1>t, NumberTypes
  <2>3. \A b : ChunksUpTo(b)' = ChunksUpTo(b)
    BY <1>1, <1>3 DEF ChunksUpTo
  <2>4. \A b \in Builds : Verified(b) => Verified(b)'
    BY <1>1, <1>3, <2>2, NumberTypes DEF Verified
  <2> QED
    BY <1>1, <1>3, <2>1, <2>2, <2>3, <2>4, NumberTypes DEF WorkerOK, NoCopy
<1> QED
  BY <1>2, <1>3, <1>4, <1>5

\* A step of the worker that leaves the bytes where they are.
LEMMA QuietStep ==
  ASSUME TransferInv, TypeOK', WorkerOK', UNCHANGED <<site, host, part, dest>>
  PROVE  TransferInv'
<1>1. host.served <= host'.served /\ host.made <= host'.made
  BY NumberTypes DEF TransferInv
<1> QED
  BY <1>1, SameBytes, SameDate DEF TransferInv, HostOK

(***************************************************************************)
(* The steps of the worker.                                                *)
(***************************************************************************)
\* A place at which nothing is asked of the bytes.
LEMMA Unasked ==
  ASSUME TransferInv, TypeOK', UNCHANGED <<site, host, part, dest>>,
         job'.mtime <= host.served, pc' \in {"idle", "head", "wait"}
  PROVE  TransferInv'
<1>1. WorkerOK'
  BY DEF WorkerOK
<1> QED
  BY <1>1, QuietStep

LEMMA Stops ==
  ASSUME TransferInv, TypeOK', Start \/ ConnectionLost \/ AskedToRetry \/ Stopped \/ VerifyFails
                               \/ ResolveNowhere \/ ResolvedOfOtherBuild \/ Crash
  PROVE  TransferInv'
<1>1. UNCHANGED <<site, host, part, dest>> /\ pc' \in {"idle", "head", "wait"}
  BY DEF Start, ConnectionLost, AskedToRetry, Stopped, VerifyFails, ResolveNowhere,
         ResolvedOfOtherBuild, Crash, End
<1>2. job'.mtime = job.mtime \/ job'.mtime = 0
  <2>1. job'.mtime = job.mtime \/ job' = IdleJob
    BY DEF Start, ConnectionLost, AskedToRetry, Stopped, VerifyFails, ResolveNowhere,
           ResolvedOfOtherBuild, Crash, End, TransferInv, TypeOK
  <2> QED
    BY <2>1 DEF IdleJob
<1>3. job'.mtime <= host.served
  BY <1>2, NumberTypes DEF TransferInv, WorkerOK
<1> QED
  BY <1>1, <1>3, Unasked

\* The bytes are dropped: nothing is left to be asked of them.
LEMMA NoBytes ==
  ASSUME TransferInv, TypeOK', UNCHANGED <<site, host, dest>>, part'.chunks = <<>>,
         part'.date <= host.made
  PROVE  HostOK' /\ CopyOK' /\ PartOK' /\ DateOfContent' /\ PartLength' = 0 /\ Content' = Content
<1>1. PartLength' = 0
  BY DEF PartLength
<1>2. PartOK'
  BY <1>1, LengthAssumption DEF PartOK, ChunksUpTo
<1>3. CopyOK' /\ Content' = Content
  BY SameCopy DEF TransferInv
<1>4. host.made <= host'.made
  BY NumberTypes DEF TransferInv
<1>5. DateOfContent'
  BY <1>4, SameDate DEF TransferInv
<1> QED
  BY <1>1, <1>2, <1>3, <1>5 DEF TransferInv, HostOK

LEMMA Discards ==
  ASSUME TransferInv, TypeOK', SidecarRefutes \/ ResolvedRefutes
  PROVE  TransferInv'
<1>1. UNCHANGED <<site, host, dest>> /\ pc' = "idle" /\ job'.mtime = job.mtime
  BY DEF SidecarRefutes, ResolvedRefutes, Discard, TransferInv, TypeOK
<1>2. CASE part' = part
  BY <1>1, <1>2, Unasked DEF TransferInv, WorkerOK
<1>3. CASE part' = NoFile
  <2>1. part'.chunks = <<>> /\ part'.date <= host.made
    BY <1>3, NumberTypes DEF NoFile, TransferInv
  <2>2. WorkerOK'
    BY <1>1 DEF TransferInv, WorkerOK
  <2> QED
    BY <1>1, <2>1, <2>2, NoBytes DEF TransferInv
<1> QED
  BY <1>2, <1>3 DEF SidecarRefutes, ResolvedRefutes, Discard

LEMMA ResumeStep ==
  ASSUME TransferInv, TypeOK', NEW mtime \in 0..MaxBuild, mtime <= host.served, Resume(mtime),
         UNCHANGED <<site, host, dest>>, pc' = "get"
  PROVE  TransferInv'
<1>1. job'.mtime = mtime
  BY DEF Resume, TransferInv, TypeOK
<1>2. CASE IsSuperseded(mtime, part.date)
  <2>0. part'.date <= host.made
    BY <1>2, NumberTypes DEF Resume, NoFile, TransferInv
  <2>1. part'.chunks = <<>> /\ job'.start = 0
    BY <1>2 DEF Resume, NoFile, TransferInv, TypeOK
  <2>2. PartLength' = 0
    BY <2>0, <2>1, NoBytes
  <2>3. WorkerOK'
    BY <1>1, <2>1, <2>2 DEF WorkerOK
  <2> QED
    BY <2>0, <2>1, <2>3, NoBytes DEF TransferInv
<1>3. CASE ~ IsSuperseded(mtime, part.date)
  <2>1. part' = part /\ job'.start = PartLength
    BY <1>3 DEF Resume, TransferInv, TypeOK
  <2>2. WorkerOK'
    BY <1>1, <2>1 DEF WorkerOK, PartLength
  <2> QED
    BY <2>1, <2>2, QuietStep
<1> QED
  BY <1>2, <1>3

LEMMA Asks ==
  ASSUME TransferInv, TypeOK', HeadAnswered \/ Again
  PROVE  TransferInv'
<1>1. CASE HeadAnswered
  BY <1>1, ResumeStep, PublishedType DEF HeadAnswered, TransferInv
<1>2. CASE Again
  <2>1. PICK mtime \in {Published(host.served), job.mtime} : Resume(mtime)
    BY <1>2 DEF Again
  <2>2. mtime \in 0..MaxBuild /\ mtime <= host.served
    BY <2>1, PublishedType DEF TransferInv, TypeOK, WorkerOK
  <2> QED
    BY <1>2, <2>1, <2>2, ResumeStep DEF Again
<1> QED
  BY <1>1, <1>2

\* The answer of the host.
LEMMA Answers ==
  ASSUME TransferInv, TypeOK', NothingLeft \/ RangeAnswered \/ WholeAnswered \/ StreamOver
  PROVE  TransferInv'
<1> USE DEF TransferInv
<1>1. CASE NothingLeft
  <2>1. Received
    BY <1>1, NumberTypes DEF NothingLeft, WorkerOK, Received
  <2>2. WorkerOK'
    BY <1>1, <2>1 DEF NothingLeft, WorkerOK, Received, OnlyOf, PartLength
  <2> QED
    BY <1>1, <2>2, QuietStep DEF NothingLeft
<1>2. CASE RangeAnswered
  <2>1. job'.build = host.served /\ job'.mtime = job.mtime
    BY <1>2 DEF RangeAnswered, TypeOK
  <2>2. ChunksUpTo(host.served)' /\ Content' = Content
    BY <1>2, SameCopy DEF RangeAnswered, PartOK, ChunksUpTo, PartLength
  <2>3. WorkerOK'
    BY <1>2, <2>1, <2>2, NumberTypes, ContentType
       DEF RangeAnswered, WorkerOK, ChunksUpTo
  <2> QED
    BY <1>2, <2>3, QuietStep DEF RangeAnswered
<1>3. CASE WholeAnswered
  <2>1. part'.chunks = <<>> /\ UNCHANGED <<site, host, dest>> /\ pc' = "stream"
        /\ job'.build = host.served /\ job'.mtime = job.mtime
    BY <1>3 DEF WholeAnswered, Stream, Written, TypeOK
  <2>0. part'.date <= host.made
    BY <1>3, NumberTypes DEF WholeAnswered, Stream, Written
  <2>2. HostOK' /\ CopyOK' /\ PartOK' /\ DateOfContent' /\ PartLength' = 0 /\ Content' = Content
    BY <2>0, <2>1, NoBytes
  <2>3. WorkerOK'
    BY <2>1, <2>2, NumberTypes, ContentType DEF WorkerOK, ChunksUpTo
  <2> QED
    BY <2>2, <2>3
<1>4. CASE StreamOver
  <2>1. Received
    <3>1. SUFFICES ASSUME part.chunks # <<>>, OnlyOf(host.served, part.chunks)
                   PROVE  PartLength >= Length[host.served]
      BY DEF Received
    <3>2. PartLength >= 1 /\ part.chunks[1] = host.served
      BY <3>1, NumberTypes, EmptySeq DEF OnlyOf, PartLength
    <3>3. host.served = job.build
      <4>1. job.build \in Builds /\ job.build <= host.served /\ ChunksUpTo(job.build)
        BY <1>4 DEF StreamOver, WorkerOK
      <4>2. part.chunks[1] <= job.build
        BY <3>2, <4>1, NumberTypes DEF ChunksUpTo
      <4> QED
        BY <3>2, <4>1, <4>2, NumberTypes
    <3> QED
      BY <1>4, <3>3 DEF StreamOver
  <2>2. WorkerOK'
    BY <1>4, <2>1 DEF StreamOver, WorkerOK, Received, OnlyOf, PartLength, TypeOK
  <2> QED
    BY <1>4, <2>2, QuietStep DEF StreamOver
<1> QED
  BY <1>1, <1>2, <1>3, <1>4

LEMMA ChunkStep ==
  ASSUME TransferInv, TypeOK', Chunk
  PROVE  TransferInv'
<1> USE DEF TransferInv
<1> DEFINE b == job.build
<1>1. /\ UNCHANGED <<site, host, dest, pc, job, failures>> /\ pc = "stream"
      /\ PartLength < Length[b] /\ b \in Builds /\ b <= host.served /\ Content <= b
      /\ ChunksUpTo(b)
  BY DEF Chunk, WorkerOK
<1>2. part'.chunks = Append(part.chunks, b) /\ part'.date = host.made
  BY DEF Chunk, Written
<1>3. /\ PartLength' = PartLength + 1
      /\ \A i \in 1..PartLength : part'.chunks[i] = part.chunks[i]
      /\ part'.chunks[PartLength + 1] = b
  BY <1>1, <1>2, NumberTypes DEF PartLength
<1>4. CopyOK' /\ Content' = Content
  BY <1>1, SameCopy
<1>5. \A i \in 1..PartLength + 1 : part'.chunks[i] \in Nat /\ part'.chunks[i] <= b
                                   /\ Content <= part'.chunks[i]
  <2>t. PartLength \in Nat
    BY NumberTypes
  <2> TAKE i \in 1..PartLength + 1
  <2>1. CASE i = PartLength + 1
    BY <1>1, <1>3, <2>1, NumberTypes
  <2>2. CASE i \in 1..PartLength
    BY <1>1, <1>3, <2>2, NumberTypes DEF ChunksUpTo, PartOK
  <2> QED
    BY <2>t, <2>1, <2>2
<1>6. PartOK'
  <2>1. ChunksUpTo(host.served)' /\ ChunksUpTo(part.date)'
    <3>1. host'.served = host.served /\ b <= part'.date /\ part'.date \in Nat
      BY <1>1, <1>2, NumberTypes DEF HostOK
    <3>2. \A i \in 1..PartLength' : part'.chunks[i] <= host'.served /\ part'.chunks[i] <= part'.date
      BY SMTT(30), <1>1, <1>3, <1>5, <3>1, NumberTypes
    <3> QED
      BY <3>2 DEF ChunksUpTo
  <2>2. ASSUME NEW c \in Builds, OnlyOf(c, part.chunks)'
        PROVE  PartLength' <= Length[c]
    <3>1. c = b
      <4>1. \A i \in 1..PartLength' : part'.chunks[i] = c
        BY <2>2 DEF OnlyOf, PartLength
      <4>2. PartLength + 1 \in 1..PartLength'
        <5>1. PartLength \in Nat
          BY NumberTypes
        <5> QED
          BY <1>3, <5>1
      <4> QED
        BY <1>3, <4>1, <4>2
    <3>2. Length[b] \in Nat
      BY <1>1, LengthAssumption
    <3> QED
      BY <1>1, <1>3, <3>1, <3>2, NumberTypes
  <2> QED
    <3>1. part'.date <= host'.made
      BY <1>1, <1>2, NumberTypes
    <3> QED
      BY <1>3, <1>4, <1>5, <2>1, <2>2, <3>1 DEF PartOK
<1>7. WorkerOK'
  BY <1>1, <1>3, <1>4, <1>5, NumberTypes DEF WorkerOK, ChunksUpTo
<1> QED
  BY <1>1, <1>4, <1>6, <1>7, NumberTypes, SameDate DEF HostOK

\* What the checksum accepts is one build, of which the .part has every byte.
LEMMA Accepted ==
  ASSUME TransferInv, NEW b \in Builds, part.chunks = Whole(b)
  PROVE  Verified(b)
<1>1. PartLength >= 1 /\ part.chunks[1] = b
  BY WholeFacts DEF PartLength
<1> QED
  BY <1>1, NumberTypes, ContentType DEF TransferInv, Verified, PartOK, ChunksUpTo

LEMMA Verifies ==
  ASSUME TransferInv, TypeOK', SidecarMatches \/ SidecarOfOtherBuild \/ Resolve \/ ResolvedMatches
  PROVE  TransferInv'
<1> USE DEF TransferInv
<1>1. UNCHANGED <<site, host, part, dest>> /\ job'.mtime = job.mtime
  BY DEF SidecarMatches, SidecarOfOtherBuild, Resolve, ResolvedMatches, Keep, TypeOK
<1>2. Content' = Content /\ PartLength' = PartLength
  BY <1>1, SameCopy DEF PartLength
<1>3. Received' = Received /\ \A b : ChunksUpTo(b)' = ChunksUpTo(b) /\ Verified(b)' = Verified(b)
  BY <1>1, <1>2 DEF Received, OnlyOf, ChunksUpTo, Verified, Whole
<1>4. ASSUME pc' = "publish", NEW b \in Builds, Matches(b),
             site.inStep => job.mtime <= b
      PROVE  WorkerOK'
  <2>1. Verified(b)
    BY <1>4, Accepted DEF Matches
  <2> QED
    BY <1>1, <1>3, <1>4, <2>1 DEF WorkerOK
<1>5. CASE SidecarMatches
  <2>1. part.chunks = Whole(host.sidecar) /\ pc' = "publish"
    BY <1>5 DEF SidecarMatches, Matches
  <2>3. site.inStep => job.mtime <= host.sidecar
    BY DEF HostOK, WorkerOK
  <2> QED
    BY <1>1, <1>4, <2>1, <2>3, NumberTypes, QuietStep DEF Matches
<1>6. CASE SidecarOfOtherBuild
  <2>1. WorkerOK'
    BY <1>1, <1>3, <1>6 DEF SidecarOfOtherBuild, WorkerOK
  <2> QED
    BY <1>1, <2>1, QuietStep
<1>7. CASE Resolve
  <2>1. job'.build = host.served
    BY <1>7 DEF Resolve, TypeOK
  <2>2. ChunksUpTo(host.served)'
    BY <1>1, <1>2 DEF PartOK, ChunksUpTo
  <2>3. WorkerOK'
    BY <1>1, <1>3, <1>7, <2>1, <2>2, NumberTypes DEF Resolve, WorkerOK, ChunksUpTo
  <2> QED
    BY <1>1, <2>3, QuietStep
<1>8. CASE ResolvedMatches
  <2> DEFINE b == ResolvedSidecar
  <2>1. part.chunks = Whole(b) /\ pc' = "publish" /\ pc = "resolved"
    BY <1>8 DEF ResolvedMatches, Matches
  <2>2. b \in Builds
    BY <2>1, NumberTypes DEF ResolvedSidecar, WorkerOK
  <2>4. site.inStep => job.mtime <= b
    BY <2>1 DEF HostOK, WorkerOK, ResolvedSidecar
  <2> QED
    BY <1>1, <1>4, <2>1, <2>2, <2>4, QuietStep DEF Matches
<1> QED
  BY <1>5, <1>6, <1>7, <1>8

LEMMA Finishes ==
  ASSUME TransferInv, TypeOK', Publish \/ Stamp
  PROVE  TransferInv'
<1> USE DEF TransferInv
<1>1. CASE Publish
  <2>1. PICK b \in Builds : Verified(b) /\ (site.inStep => job.mtime <= b)
    BY <1>1 DEF Publish, WorkerOK
  <2>2. UNCHANGED <<site, host, job>> /\ pc' = "stamp" /\ part' = NoFile
        /\ dest' = Copy(part.chunks, part.date, FALSE)
    BY <1>1 DEF Publish
  <2>3. dest'.chunks = Whole(b) /\ dest'.stamped = FALSE
    BY <2>1, <2>2 DEF Copy, Verified
  <2>4. dest' # NoCopy /\ NoCopy' = NoCopy /\ Content' = b
    <3>1. Whole(b) # <<>> /\ Whole(b)[1] = b
      BY SMTT(30), WholeFacts
    <3>2. dest' # NoCopy
      BY <2>3, <3>1 DEF NoCopy
    <3> QED
      BY <2>3, <3>1, <3>2 DEF Content, NoCopy
  <2>5. CopyOK'
    BY <2>1, <2>2, <2>3 DEF CopyOK, Verified, Whole
  <2>6. PartOK'
    <3>1. part'.chunks = <<>> /\ PartLength' = 0
      BY <2>2 DEF NoFile, PartLength
    <3> QED
      BY <2>2, <3>1, LengthAssumption, NumberTypes DEF PartOK, ChunksUpTo, NoFile
  <2>7. WorkerOK'
    BY <2>1, <2>2, <2>4 DEF WorkerOK
  <2>8. DateOfContent'
    <3>1. dest'.date = part.date /\ part.date <= host.made
      BY <2>2 DEF Copy, PartOK
    <3>2. 1 \in 1..PartLength /\ part.chunks[1] = b
      BY SMTT(30), <2>1, WholeFacts DEF Verified, PartLength
    <3>3. b <= part.date
      BY <3>2 DEF PartOK, ChunksUpTo
    <3> QED
      BY <2>2, <2>3, <2>4, <3>1, <3>3 DEF DateOfContent
  <2> QED
    BY <2>2, <2>5, <2>6, <2>7, <2>8 DEF HostOK
<1>2. CASE Stamp
  <2>1. UNCHANGED <<site, host, part, job>> /\ pc = "stamp" /\ pc' = "idle"
    BY <1>2 DEF Stamp
  <2>2. dest # NoCopy /\ (site.inStep => job.mtime <= Content)
    BY <2>1 DEF WorkerOK
  <2>3. PICK b \in Builds : b <= host.served /\ dest.chunks = Whole(b)
    BY <2>2 DEF CopyOK
  <2>4. dest'.chunks = Whole(b) /\ NoCopy' = NoCopy
    BY <1>2, <2>3 DEF Stamp, Copy, NoCopy
  <2>5. Content = b /\ Content' = b
    <3>1. Whole(b) # <<>> /\ Whole(b)[1] = b
      BY SMTT(30), WholeFacts
    <3>2. dest' # NoCopy
      BY <2>4, <3>1 DEF NoCopy
    <3> QED
      BY <2>3, <2>4, <3>1, <3>2, ContentOfWhole DEF Content
  <2>6. CopyOK'
    BY <2>1, <2>3, <2>4 DEF CopyOK, Whole
  <2>7. PartOK'
    BY <2>1, <2>5 DEF PartOK, ChunksUpTo, PartLength
  <2>8. WorkerOK'
    BY <2>1 DEF WorkerOK
  <2>9. DateOfContent'
    <3>1. CASE job.mtime # 0
      BY <1>2, <2>1, <2>2, <2>5, <3>1 DEF Stamp, Copy, DateOfContent
    <3>2. CASE job.mtime = 0
      BY <1>2, <2>1, <2>5, <3>2 DEF Stamp, DateOfContent
    <3> QED
      BY <3>1, <3>2
  <2> QED
    BY <2>1, <2>6, <2>7, <2>8, <2>9 DEF HostOK
<1> QED
  BY <1>1, <1>2

(***************************************************************************)
(* Safety.                                                                 *)
(***************************************************************************)
LEMMA TransferInvInit == Init => TransferInv
<1> SUFFICES ASSUME Init PROVE TransferInv
  OBVIOUS
<1>1. 1 \in Builds /\ Whole(1) \in Seq(Builds)
  BY BoundsAssumption, WholeFacts DEF Builds
<1>2. host = [made |-> 1, served |-> 1, sidecar |-> 1] /\ part = NoFile /\ pc = "idle"
      /\ job = IdleJob /\ failures = MaxFailures /\ site \in Sites
  BY DEF Init
<1>3. PartLength = 0
  BY <1>2 DEF NoFile, PartLength
<1>4. TypeOK
  <2>1. host \in [made : Builds, served : Builds, sidecar : Builds]
    BY <1>1, <1>2
  <2>2. part \in [chunks : Seq(Builds), date : 0 .. MaxBuild]
    BY <1>2, BoundsAssumption DEF NoFile
  <2>3. dest \in [chunks : Seq(Builds), date : 0 .. MaxBuild, stamped : BOOLEAN]
    <3>1. NoCopy \in [chunks : Seq(Builds), date : 0 .. MaxBuild, stamped : BOOLEAN]
      BY BoundsAssumption DEF NoCopy
    <3>2. Copy(Whole(1), 1, TRUE) \in [chunks : Seq(Builds), date : 0 .. MaxBuild, stamped : BOOLEAN]
      BY <1>1, BoundsAssumption DEF Copy, Builds
    <3> QED
      BY <3>1, <3>2 DEF Init
  <2>4. job \in [mtime : 0 .. MaxBuild, start : Nat, build : 0 .. MaxBuild,
                 attempt : 0 .. MaxRetries - 1, loop : {"fast", "slow"}]
    BY <1>2, BoundsAssumption DEF IdleJob
  <2> QED
    BY <1>2, <2>1, <2>2, <2>3, <2>4, BoundsAssumption DEF TypeOK
<1>5. HostOK
  BY <1>2 DEF HostOK
<1>6. CopyOK
  BY <1>1, <1>2 DEF Init, CopyOK, Copy
<1>7. PartOK
  BY <1>2, <1>3, LengthAssumption DEF PartOK, ChunksUpTo, NoFile
<1>8. WorkerOK
  BY <1>2 DEF WorkerOK, IdleJob
<1>9. DateOfContent
  <2>1. CASE dest = NoCopy
    BY <1>2, <2>1 DEF NoCopy, Content, DateOfContent
  <2>2. CASE dest = Copy(Whole(1), 1, TRUE)
    <3>1. dest.chunks = Whole(1) /\ dest.date = 1 /\ dest.stamped
      BY <2>2 DEF Copy
    <3> QED
      BY <1>1, <3>1, ContentOfWhole DEF DateOfContent
  <2> QED
    BY <2>1, <2>2 DEF Init
<1> QED
  BY <1>4, <1>5, <1>6, <1>7, <1>8, <1>9 DEF TransferInv

LEMMA TransferInvNext == TransferInv /\ [Next]_vars => TransferInv'
<1> SUFFICES ASSUME TransferInv, [Next]_vars PROVE TransferInv'
  OBVIOUS
<1>1. TypeOK'
  BY TypeInductive DEF TransferInv
<1>2. CASE UNCHANGED vars
  <2>1. WorkerOK'
    BY <1>2
       DEF vars, TransferInv, WorkerOK, ChunksUpTo, PartLength, Content, NoCopy, Received, OnlyOf,
           Verified, Whole
  <2> QED
    BY <1>1, <1>2, <2>1, QuietStep DEF vars
<1>3. CASE Next
  BY <1>1, <1>3, HostStep, Stops, Discards, Asks, Answers, ChunkStep, Verifies, Finishes
     DEF Next, Worker, Transfer, Verify, Failure
<1> QED
  BY <1>2, <1>3

LEMMA TransferInvHolds == Spec => []TransferInv
BY TransferInvInit, TransferInvNext, PTL DEF Spec

\* Every value has its type, for any number of builds, lengths and retries.
THEOREM TypeCorrect == Spec => []TypeOK
<1>1. TransferInv => TypeOK
  BY DEF TransferInv
<1> QED
  BY <1>1, TransferInvHolds, PTL

\* Whatever the .part was put together from, what is moved to the final name is
\* one whole build of the host (_verify_checksum before os.replace).
THEOREM FinishedIsOneBuild == Spec => []PublishedIsOneBuild
<1>1. TransferInv => PublishedIsOneBuild
  BY ContentOfWhole DEF TransferInv, CopyOK, PublishedIsOneBuild
<1> QED
  BY <1>1, TransferInvHolds, PTL

\* Where the .md5 is in step with the file, the date os.utime sets is never that
\* of a build newer than the content; a file that was not given one, because the
\* process died before, is dated between its content and the newest build made,
\* and hides no build that is made later (_download_worker).
THEOREM DateNotAhead == Spec => []DateOfContent
<1>1. TransferInv => DateOfContent
  BY DEF TransferInv
<1> QED
  BY <1>1, TransferInvHolds, PTL

LEMMA KeepsServedBytes ==
  ASSUME TransferInv, [Next]_vars, Lost, OnlyOf(host.served, part.chunks)
  PROVE  site.lists = "alias" /\ host.sidecar # host.served
<1> USE DEF TransferInv
<1>1. PartLength >= 1 /\ part.chunks[1] = host.served
  BY NumberTypes, EmptySeq DEF Lost, OnlyOf, PartLength
<1>2. host.served <= part.date
  BY <1>1, NumberTypes DEF PartOK, ChunksUpTo
<1>3. part' = NoFile /\ part' # part /\ pc' # "stamp"
  BY DEF Lost, NoFile
<1>4. ASSUME NEW mtime \in 0..MaxBuild, mtime <= host.served, Resume(mtime)
      PROVE  FALSE
  BY <1>2, <1>3, <1>4, NumberTypes DEF Resume, IsSuperseded
<1>5. ~ HeadAnswered
  BY <1>4, PublishedType DEF HeadAnswered
<1>6. ~ Again
  <2>1. SUFFICES ASSUME Again PROVE FALSE
    OBVIOUS
  <2>2. PICK mtime \in {Published(host.served), job.mtime} : Resume(mtime)
    BY <2>1 DEF Again
  <2>3. mtime \in 0..MaxBuild /\ mtime <= host.served
    BY <2>2, PublishedType DEF TypeOK, WorkerOK
  <2> QED
    BY <1>4, <2>2, <2>3
<1>7. ~ WholeAnswered /\ ~ Chunk
  BY <1>3, NumberTypes DEF WholeAnswered, Stream, Chunk, Written, NoFile
<1>8. SidecarRefutes \/ ResolvedRefutes
  BY <1>3, <1>5, <1>6, <1>7
     DEF Next, vars, Host, MakeBuild, ServeBuild, RenewSidecar, Start, Worker, Transfer, Verify,
         Failure, NothingLeft, RangeAnswered, StreamOver, SidecarMatches, SidecarOfOtherBuild,
         Resolve, ResolveNowhere, ResolvedMatches, ResolvedOfOtherBuild, AskedToRetry,
         ConnectionLost, Stopped, VerifyFails, Crash, Publish, Stamp, Keep, End
<1>9. part.chunks = Whole(host.served)
  <2>1. Received
    BY <1>8 DEF SidecarRefutes, ResolvedRefutes, WorkerOK
  <2>2. PartLength >= Length[host.served]
    BY <2>1 DEF Received, Lost
  <2> QED
    BY <2>2, AllOfIt, NumberTypes
<1>10. CASE SidecarRefutes
  BY <1>9, <1>10 DEF SidecarRefutes, Matches, DescribesOtherBuild, TypeOK, Sites
<1>11. CASE ResolvedRefutes
  <2>1. job.build = host.served
    <3>1. job.build \in Builds /\ job.build <= host.served /\ ChunksUpTo(job.build)
      BY <1>11 DEF ResolvedRefutes, WorkerOK
    <3>2. part.chunks[1] <= job.build
      BY <1>1, <3>1, NumberTypes DEF ChunksUpTo
    <3> QED
      BY <1>1, <3>1, <3>2, NumberTypes
  <2> QED
    BY <1>9, <1>11, <2>1 DEF ResolvedRefutes, Matches, ResolvedSidecar
<1> QED
  BY <1>8, <1>10, <1>11

\* A resume or a checksum never throws away bytes of the build being served,
\* unless the .md5 is out of step and does not say so (_resume_offset,
\* _verify_checksum).
THEOREM UsableBytesKept == Spec => ServedBytesKept
<1>1. TransferInv /\ [Next]_vars =>
        [Lost /\ OnlyOf(host.served, part.chunks)
           => site.lists = "alias" /\ host.sidecar # host.served]_vars
  BY KeepsServedBytes
<1> QED
  BY <1>1, TransferInvHolds, PTL DEF Spec, ServedBytesKept

(***************************************************************************)
(* The refinement.                                                         *)
(***************************************************************************)
LEMMA MirroredIsContent ==
  ASSUME TransferInv
  PROVE  Mirrored = Content
BY ContentOfWhole DEF TransferInv, CopyOK, PublishedIsOneBuild, Mirrored

LEMMA MirrorStep ==
  ASSUME TransferInv, TransferInv', [Next]_vars
  PROVE  [Mirror!Next]_(Mirror!vars)
<1> USE DEF TransferInv
<1>1. Mirrored = Content /\ Mirrored' = Content'
  <2>1. Mirrored = Content
    BY MirroredIsContent
  <2>2. PublishedIsOneBuild'
    <3>1. dest' = NoCopy' \/ \E b \in Builds : dest'.chunks = Whole(b)
      BY DEF CopyOK, Whole
    <3>2. ASSUME NEW b \in Builds, dest'.chunks = Whole(b)
          PROVE  dest'.chunks[1] = b
      BY <3>2, WholeFacts
    <3> QED
      BY <3>1, <3>2 DEF PublishedIsOneBuild, Content, Whole
  <2> QED
    BY <2>1, <2>2 DEF Mirrored
<1>2. CASE MakeBuild
  BY <1>1, <1>2, NumberTypes DEF MakeBuild, TypeOK, Content, NoCopy, Mirror!Next, Mirror!Make
<1>3. CASE Publish
  <2>1. PICK b \in Builds : Verified(b)
    BY <1>3 DEF Publish, WorkerOK
  <2>2. dest'.chunks = Whole(b)
    BY <1>3, <2>1 DEF Publish, Copy, Verified
  <2>3. Content' = b
    <3>1. Whole(b) # <<>> /\ Whole(b)[1] = b
      BY WholeFacts
    <3> QED
      BY <2>2, <3>1 DEF Content, NoCopy
  <2>4. b \in 1..host.made /\ b >= Content
    BY <2>1, NumberTypes, ContentType DEF Verified, HostOK
  <2> QED
    BY <1>1, <1>3, <2>3, <2>4 DEF Publish, Mirror!Next, Mirror!Replace
<1>4. CASE Stamp
  <2>1. dest # NoCopy
    BY <1>4 DEF Stamp, WorkerOK
  <2>2. PICK b \in Builds : dest.chunks = Whole(b)
    BY <2>1 DEF CopyOK
  <2>3. dest'.chunks = Whole(b)
    BY <1>4, <2>2 DEF Stamp, Copy
  <2>4. Content = b /\ Content' = b
    <3>1. Whole(b) # <<>> /\ Whole(b)[1] = b
      BY WholeFacts
    <3> QED
      BY <2>2, <2>3, <3>1 DEF Content, NoCopy
  <2> QED
    BY <1>1, <1>4, <2>4 DEF Stamp, Mirror!vars
<1>5. CASE ~ MakeBuild /\ ~ Publish /\ ~ Stamp
  <2>1. UNCHANGED dest /\ host'.made = host.made
    <3>1. CASE ServeBuild \/ RenewSidecar
      BY <3>1 DEF ServeBuild, RenewSidecar, TypeOK
    <3>2. CASE ~ ServeBuild /\ ~ RenewSidecar
      BY <1>5, <3>2
         DEF Next, vars, Host, Start, Worker, Transfer, Verify, Failure, HeadAnswered, Again,
             NothingLeft, RangeAnswered, WholeAnswered, Stream, Chunk, StreamOver, SidecarMatches,
             SidecarOfOtherBuild, SidecarRefutes, Resolve, ResolveNowhere, ResolvedMatches,
             ResolvedRefutes, ResolvedOfOtherBuild, AskedToRetry, ConnectionLost, Stopped,
             VerifyFails, Crash, Keep, Discard, End
    <3> QED
      BY <3>1, <3>2
  <2> QED
    BY <1>1, <2>1 DEF Content, NoCopy, Mirror!vars
<1> QED
  BY <1>2, <1>3, <1>4, <1>5

\* The finished file implements the mirror: for those who read it, it is whole
\* and only moves forward, however many failures lie between two publications.
THEOREM ImplementsMirror == Spec => CopyMirrors
<1>1. Init => Mirror!Init
  <2>1. SUFFICES ASSUME Init PROVE Mirror!Init
    OBVIOUS
  <2>2. TransferInv
    BY <2>1, TransferInvInit
  <2>3. host.made = 1 /\ host.served = 1
    BY <2>1 DEF Init
  <2>4. Content \in {0, 1}
    BY <2>2, <2>3, ContentType DEF TransferInv
  <2> QED
    BY <2>2, <2>3, <2>4, MirroredIsContent DEF Mirror!Init
<1>2. TransferInv /\ TransferInv' /\ [Next]_vars => [Mirror!Next]_(Mirror!vars)
  BY MirrorStep
<1> QED
  BY <1>1, <1>2, TransferInvHolds, PTL DEF Spec, CopyMirrors, Mirror!Spec

===============================================================================
