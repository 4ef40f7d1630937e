------------------------------ MODULE PoolProofs ------------------------------
(***************************************************************************)
(* A download that was accepted is in the line or at a worker, and nowhere *)
(* twice, for any number of files and workers and any disk.                *)
(***************************************************************************)
EXTENDS Pool, FiniteSetTheorems, WellFoundedInduction, TLAPS

Begun == {"head", "stream"} \cup Waits

(***************************************************************************)
(* EachInOnePlace counts; what is inductive says for each file where it    *)
(* stands, and for the line and the workers that no two hold one file.     *)
(***************************************************************************)
LineOK ==
    /\ \A i, k \in 1..Len(queue) : queue[i] = queue[k] => i = k
    /\ \A i \in 1..Len(queue) : at[queue[i]] = "queued"
    /\ \A f \in Files : at[f] = "queued" => \E i \in 1..Len(queue) : queue[i] = f

WorkersOK ==
    /\ \A w \in Workers : worker[w] # NoFile => at[worker[w]] \in Begun
    /\ \A w, v \in Workers : worker[w] = worker[v] /\ worker[w] # NoFile => w = v
    /\ \A f \in Files : at[f] \in Begun => \E w \in Workers : worker[w] = f

PoolInv == TypeOK /\ LineOK /\ WorkersOK

(***************************************************************************)
(* Types.                                                                  *)
(***************************************************************************)
LEMMA WorkType ==
  ASSUME TypeOK, NEW f \in Files, Work(f) \/ Refused(f) \/ Mismatch(f)
  PROVE  TypeOK'
<1> USE DEF TypeOK
<1>1. \A p \in Nat : [part EXCEPT ![f] = p] \in [Files -> Nat]
  OBVIOUS
<1>2. \A s \in {"none", "queued", "head", "stream"} \cup Waits :
         [at EXCEPT ![f] = s] \in [Files -> {"none", "queued", "head", "stream"} \cup Waits]
  OBVIOUS
<1>3. \A s \in Begun : Step(f, s) /\ UNCHANGED part => TypeOK'
  BY <1>2 DEF Step, Begun
<1>4. End(f) /\ UNCHANGED <<part, copy>> => TypeOK'
  BY <1>2 DEF End
<1>5. CASE HeadAnswered(f) \/ HostAway(f) \/ Waited(f)
  BY <1>3, <1>5 DEF HeadAnswered, HostAway, Waited, Begun, Waits
<1>6. CASE NoSpace(f) \/ Cancelled(f) \/ DiskFull(f) \/ Refused(f)
  BY <1>4, <1>6 DEF NoSpace, Cancelled, DiskFull, Refused
<1>7. CASE Chunk(f)
  <2>1. part[f] + 1 \in Nat /\ part[f] + 1 <= Size[f]
    <3>1. part[f] \in Nat /\ Size[f] \in Nat
      BY SizeAssumption
    <3>2. part[f] < Size[f]
      BY <1>7 DEF Chunk
    <3> QED
      BY <3>1, <3>2
  <2>2. part' \in [Files -> Nat] /\ \A g \in Files : part'[g] <= Size[g]
    BY <1>7, <2>1 DEF Chunk
  <2> QED
    BY <1>7, <2>2 DEF Chunk
<1>8. CASE Finish(f)
  <2>1. Size[f] \in Nat /\ 0 <= Size[f]
    BY SizeAssumption
  <2>2. /\ copy' \in [Files -> Nat] /\ \A g \in Files : copy'[g] <= Size[g]
        /\ part' \in [Files -> Nat] /\ \A g \in Files : part'[g] <= Size[g]
    BY <1>8, <2>1 DEF Finish
  <2>3. /\ queue' \in Seq(Files) /\ reachable' \in [Files -> BOOLEAN]
        /\ worker' \in [Workers -> Files \cup {NoFile}] /\ cancelled' \in [Files -> BOOLEAN]
        /\ at' \in [Files -> {"none", "queued", "head", "stream"} \cup Waits]
    BY <1>8, <1>2 DEF Finish, End
  <2> QED
    BY <2>2, <2>3
<1>9. CASE Mismatch(f)
  <2>1. Size[f] \in Nat /\ 0 <= Size[f]
    BY SizeAssumption
  <2>2. /\ part' \in [Files -> Nat] /\ \A g \in Files : part'[g] <= Size[g]
        /\ copy' = copy
    BY <1>9, <2>1 DEF Mismatch
  <2>3. /\ queue' \in Seq(Files) /\ reachable' \in [Files -> BOOLEAN]
        /\ worker' \in [Workers -> Files \cup {NoFile}] /\ cancelled' \in [Files -> BOOLEAN]
        /\ at' \in [Files -> {"none", "queued", "head", "stream"} \cup Waits]
    BY <1>9, <1>2 DEF Mismatch, End
  <2> QED
    BY <2>2, <2>3
<1> QED
  BY <1>5, <1>6, <1>7, <1>8, <1>9 DEF Work

LEMMA TypeStep ==
  ASSUME TypeOK, [Next]_vars
  PROVE  TypeOK'
<1> USE DEF TypeOK
<1>1. CASE UNCHANGED vars
  BY <1>1 DEF vars
<1>2. ASSUME NEW f \in Files, StartDownload(f) \/ CancelDownload(f) PROVE TypeOK'
  <2>1. CASE StartDownload(f)
    <3>1. Append(queue, f) \in Seq(Files)
      OBVIOUS
    <3> QED
      BY <2>1, <3>1 DEF StartDownload
  <2>2. CASE CancelDownload(f)
    BY <2>2 DEF CancelDownload
  <2> QED
    BY <1>2, <2>1, <2>2
<1>3. ASSUME NEW f \in Files, Discard(f) PROVE TypeOK'
  <2>1. Size[f] \in Nat /\ 0 <= Size[f]
    BY SizeAssumption
  <2>2. part' \in [Files -> Nat] /\ \A g \in Files : part'[g] <= Size[g]
    BY <1>3, <2>1 DEF Discard
  <2> QED
    BY <1>3, <2>2 DEF Discard
<1>4. ASSUME NEW w \in Workers, Take(w) PROVE TypeOK'
  <2>1. Head(queue) \in Files /\ Tail(queue) \in Seq(Files)
    BY <1>4 DEF Take
  <2> QED
    BY <1>4, <2>1 DEF Take
<1>5. ASSUME NEW f \in Files, Goes(f) \/ Returns(f) PROVE TypeOK'
  BY <1>5 DEF Goes, Returns
<1> QED
  BY <1>1, <1>2, <1>3, <1>4, <1>5, WorkType DEF Next

\* Every queue, worker, place and byte count is of its type, and neither a .part
\* nor a finished file is longer than the file that the host serves (the
\* variables of DownloadManager and the course of _download_worker).
THEOREM PoolTypeCorrect == Spec => []TypeOK
<1>1. Init => TypeOK
  BY SizeAssumption DEF Init, TypeOK
<1>2. TypeOK /\ [Next]_vars => TypeOK'
  BY TypeStep
<1> QED
  BY <1>1, <1>2, PTL DEF Spec

(***************************************************************************)
(* The line and the workers.                                               *)
(***************************************************************************)
\* A file that begins where it was not joins the end of the line.
LEMMA PlacesStart ==
  ASSUME PoolInv, NEW f \in Files, StartDownload(f)
  PROVE  LineOK' /\ WorkersOK'
<1> USE DEF PoolInv
<1>1. /\ queue \in Seq(Files) /\ Len(queue) \in Nat
      /\ at[f] = "none" /\ at' = [at EXCEPT ![f] = "queued"] /\ worker' = worker
      /\ queue' = Append(queue, f)
  BY DEF StartDownload, TypeOK
<1>2. /\ Len(queue') = Len(queue) + 1 /\ queue'[Len(queue) + 1] = f
      /\ \A i \in 1..Len(queue) : queue'[i] = queue[i] /\ queue[i] \in Files
  BY <1>1
<1>3. /\ \A g \in Files : at'[g] = IF g = f THEN "queued" ELSE at[g]
      /\ at'[f] = "queued"
  BY <1>1 DEF TypeOK
<1>4. \A i \in 1..Len(queue) : queue[i] # f
  BY <1>1 DEF LineOK
<1>5. LineOK'
  <2>1. \A i \in 1..Len(queue') : i \in 1..Len(queue) \/ i = Len(queue) + 1
    BY <1>1, <1>2
  <2>2. \A i, k \in 1..Len(queue') : queue'[i] = queue'[k] => i = k
    BY <1>2, <1>4, <2>1 DEF LineOK
  <2>3. \A i \in 1..Len(queue') : at'[queue'[i]] = "queued"
    BY <1>2, <1>3, <2>1 DEF LineOK
  <2>4. 1..Len(queue) \subseteq 1..Len(queue') /\ Len(queue) + 1 \in 1..Len(queue')
    BY <1>1, <1>2
  <2>5. \A g \in Files : at'[g] = "queued" => \E i \in 1..Len(queue') : queue'[i] = g
    BY <1>2, <1>3, <2>4 DEF LineOK
  <2> QED
    BY <2>2, <2>3, <2>5 DEF LineOK
<1>6. WorkersOK'
  <2>1. \A w \in Workers : worker[w] # NoFile => worker[w] \in Files /\ worker[w] # f
    BY <1>1 DEF WorkersOK, Begun, Waits, TypeOK
  <2>2. \A g \in Files : at'[g] \in Begun => at[g] \in Begun
    BY <1>3 DEF Begun, Waits
  <2> QED
    BY <1>1, <1>3, <2>1, <2>2 DEF WorkersOK
<1> QED
  BY <1>5, <1>6

\* The head of the line goes to a worker that has none.
LEMMA PlacesTake ==
  ASSUME PoolInv, NEW w \in Workers, Take(w)
  PROVE  LineOK' /\ WorkersOK'
<1> USE DEF PoolInv
<1> DEFINE f == Head(queue)
<1>1. /\ queue \in Seq(Files) /\ Len(queue) \in Nat /\ Len(queue) >= 1
      /\ queue' = Tail(queue) /\ worker[w] = NoFile
      /\ worker' = [worker EXCEPT ![w] = f] /\ at' = [at EXCEPT ![f] = "head"]
  BY DEF Take, TypeOK
<1>2. /\ f = queue[1] /\ f \in Files /\ Len(queue') = Len(queue) - 1
      /\ \A i \in 1..Len(queue') : queue'[i] = queue[i + 1]
      /\ \A i \in 1..Len(queue) : queue[i] \in Files
  BY <1>1
<1> HIDE DEF f
<1>3. /\ \A g \in Files : at'[g] = IF g = f THEN "head" ELSE at[g]
      /\ \A v \in Workers : worker'[v] = IF v = w THEN f ELSE worker[v]
  BY <1>1, <1>2 DEF TypeOK
<1>4. at[f] = "queued"
  BY <1>1, <1>2 DEF LineOK
<1>5. LineOK'
  <2>1. \A i \in 1..Len(queue') : i + 1 \in 1..Len(queue) /\ i + 1 # 1
    BY <1>1, <1>2
  <2>2. \A i \in 1..Len(queue') : queue'[i] # f /\ queue'[i] \in Files
    BY <1>1, <1>2, <2>1 DEF LineOK
  <2>3. \A i, k \in 1..Len(queue') : queue'[i] = queue'[k] => i = k
    <3> SUFFICES ASSUME NEW i \in 1..Len(queue'), NEW k \in 1..Len(queue'), queue'[i] = queue'[k]
                 PROVE  i = k
      OBVIOUS
    <3>1. queue[i + 1] = queue[k + 1]
      BY <1>2
    <3>2. i + 1 \in 1..Len(queue) /\ k + 1 \in 1..Len(queue)
      BY <2>1
    <3>3. i + 1 = k + 1
      BY <3>1, <3>2 DEF LineOK
    <3> QED
      BY <3>3
  <2>4. \A i \in 1..Len(queue') : at'[queue'[i]] = "queued"
    BY <1>2, <1>3, <2>1, <2>2 DEF LineOK
  <2>5. ASSUME NEW g \in Files, at'[g] = "queued"
        PROVE  \E i \in 1..Len(queue') : queue'[i] = g
    <3>1. g # f /\ at[g] = "queued"
      BY <1>3, <2>5
    <3>2. PICK i \in 1..Len(queue) : queue[i] = g
      BY <3>1 DEF LineOK
    <3>3. i - 1 \in 1..Len(queue') /\ (i - 1) + 1 = i
      BY <1>1, <1>2, <3>1, <3>2
    <3> QED
      BY <1>2, <3>2, <3>3
  <2> QED
    BY <2>3, <2>4, <2>5 DEF LineOK
<1>6. WorkersOK'
  <2>1. \A v \in Workers : worker[v] # NoFile => worker[v] \in Files /\ worker[v] # f
    BY ZenonT(40), <1>4 DEF WorkersOK, Begun, Waits, TypeOK
  <2>2. f # NoFile
    BY <1>2, FilesAssumption
  <2>3. \A v \in Workers : worker'[v] # NoFile => at'[worker'[v]] \in Begun
    BY <1>2, <1>3, <2>1 DEF WorkersOK, Begun
  <2>4. \A u, v \in Workers : worker'[u] = worker'[v] /\ worker'[u] # NoFile => u = v
    BY <1>3, <2>1, <2>2 DEF WorkersOK
  <2>5. ASSUME NEW g \in Files, at'[g] \in Begun
        PROVE  \E v \in Workers : worker'[v] = g
    <3>1. CASE g = f
      BY <1>3, <3>1
    <3>2. CASE g # f
      <4>1. PICK v \in Workers : worker[v] = g
        BY <1>3, <2>5, <3>2 DEF WorkersOK
      <4>2. v # w
        BY <1>1, <4>1, FilesAssumption
      <4> QED
        BY <1>3, <4>1, <4>2
    <3> QED
      BY <3>1, <3>2
  <2> QED
    BY <2>3, <2>4, <2>5 DEF WorkersOK
<1> QED
  BY <1>5, <1>6

\* A file that ends was at a worker, which has none afterwards.
LEMMA PlacesEnd ==
  ASSUME PoolInv, NEW f \in Files, at[f] \in Begun, End(f)
  PROVE  LineOK' /\ WorkersOK'
<1> USE DEF PoolInv
<1>1. /\ queue' = queue /\ \A i \in 1..Len(queue) : queue[i] \in Files
      /\ \A g \in Files : at'[g] = IF g = f THEN "none" ELSE at[g]
      /\ \A w \in Workers : worker'[w] = IF worker[w] = f THEN NoFile ELSE worker[w]
  BY DEF End, TypeOK
<1>2. LineOK'
  <2>1. \A i \in 1..Len(queue) : queue[i] # f
    BY DEF LineOK, Begun, Waits
  <2> QED
    BY <1>1, <2>1 DEF LineOK
<1>3. WorkersOK'
  <2>1. \A w \in Workers : worker[w] \in Files \cup {NoFile}
    BY DEF TypeOK
  <2>2. \A w \in Workers : worker'[w] # NoFile =>
           worker'[w] = worker[w] /\ worker[w] \in Files /\ worker[w] # f
    BY <1>1, <2>1
  <2>3. \A g \in Files : at'[g] \in Begun => g # f /\ at[g] \in Begun
    BY <1>1 DEF Begun, Waits
  <2> QED
    BY <1>1, <2>1, <2>2, <2>3 DEF WorkersOK
<1> QED
  BY <1>2, <1>3

\* A worker that goes on has the file it had.
LEMMA PlacesStep ==
  ASSUME PoolInv, NEW f \in Files, at[f] \in Begun, NEW next \in Begun, Step(f, next)
  PROVE  LineOK' /\ WorkersOK'
<1> USE DEF PoolInv
<1>1. /\ queue' = queue /\ worker' = worker /\ \A i \in 1..Len(queue) : queue[i] \in Files
      /\ \A g \in Files : at'[g] = IF g = f THEN next ELSE at[g]
      /\ \A w \in Workers : worker[w] \in Files \cup {NoFile}
  BY DEF Step, TypeOK
<1>2. next # "queued" /\ at[f] # "queued"
  BY DEF Begun, Waits
<1>3. LineOK'
  BY <1>1, <1>2 DEF LineOK
<1>4. WorkersOK'
  BY <1>1 DEF WorkersOK
<1> QED
  BY <1>3, <1>4

LEMMA PlacesStay ==
  ASSUME PoolInv, UNCHANGED <<queue, worker, at>>
  PROVE  LineOK' /\ WorkersOK'
BY DEF PoolInv, LineOK, WorkersOK

LEMMA InvStep ==
  ASSUME PoolInv, [Next]_vars
  PROVE  PoolInv'
<1>t. TypeOK'
  BY TypeStep DEF PoolInv
<1>1. CASE UNCHANGED vars
  BY <1>t, <1>1, PlacesStay DEF vars, PoolInv
<1>2. ASSUME NEW f \in Files, StartDownload(f) PROVE PoolInv'
  BY <1>t, <1>2, PlacesStart DEF PoolInv
<1>3. ASSUME NEW f \in Files,
             CancelDownload(f) \/ Discard(f) \/ Goes(f) \/ Returns(f) \/ Chunk(f)
      PROVE  PoolInv'
  <2>1. UNCHANGED <<queue, worker, at>>
    BY <1>3 DEF CancelDownload, Discard, Goes, Returns, Chunk
  <2> QED
    BY <1>t, <2>1, PlacesStay DEF PoolInv
<1>4. ASSUME NEW w \in Workers, Take(w) PROVE PoolInv'
  BY <1>t, <1>4, PlacesTake DEF PoolInv
<1>5. ASSUME NEW f \in Files, HeadAnswered(f) \/ HostAway(f) \/ Waited(f) PROVE PoolInv'
  <2>1. at[f] \in Begun /\ \E next \in Begun : Step(f, next)
    BY <1>5 DEF HeadAnswered, HostAway, Waited, Begun, Waits
  <2> QED
    BY <1>t, <2>1, PlacesStep DEF PoolInv
<1>6. ASSUME NEW f \in Files,
             NoSpace(f) \/ Cancelled(f) \/ DiskFull(f) \/ Refused(f) \/ Mismatch(f) \/ Finish(f)
      PROVE  PoolInv'
  <2>1. at[f] \in Begun /\ End(f)
    BY <1>6 DEF NoSpace, Cancelled, DiskFull, Refused, Mismatch, Finish, Begun
  <2> QED
    BY <1>t, <2>1, PlacesEnd DEF PoolInv
<1> QED
  BY <1>1, <1>2, <1>3, <1>4, <1>5, <1>6 DEF Next, Work

(***************************************************************************)
(* Counting.                                                               *)
(***************************************************************************)
LEMMA OneOrNone ==
  ASSUME NEW S, \A x, y \in S : x = y
  PROVE  Cardinality(S) = IF S = {} THEN 0 ELSE 1
<1>1. CASE S = {}
  BY <1>1, FS_EmptySet
<1>2. CASE S # {}
  <2>1. PICK x : S = {x}
    BY <1>2
  <2> QED
    BY <2>1, FS_Singleton
<1> QED
  BY <1>1, <1>2

LEMMA PlacesCounted ==
  ASSUME PoolInv
  PROVE  EachInOnePlace
<1> SUFFICES ASSUME NEW f \in Files
             PROVE  Cardinality({i \in DOMAIN queue : queue[i] = f})
                      + Cardinality({w \in Workers : worker[w] = f})
                        = IF at[f] = "none" THEN 0 ELSE 1
  BY DEF EachInOnePlace
<1> DEFINE L == {i \in DOMAIN queue : queue[i] = f}
           W == {w \in Workers : worker[w] = f}
<1>1. DOMAIN queue = 1..Len(queue) /\ f # NoFile
  BY FilesAssumption DEF PoolInv, TypeOK
<1>2. Cardinality(L) = IF L = {} THEN 0 ELSE 1
  <2>1. \A x, y \in L : x = y
    BY <1>1 DEF PoolInv, LineOK
  <2> QED
    BY <2>1, OneOrNone
<1>3. Cardinality(W) = IF W = {} THEN 0 ELSE 1
  <2>1. \A x, y \in W : x = y
    BY <1>1 DEF PoolInv, WorkersOK
  <2> QED
    BY <2>1, OneOrNone
<1>4. L # {} <=> at[f] = "queued"
  BY <1>1 DEF PoolInv, LineOK
<1>5. W # {} <=> at[f] \in Begun
  BY <1>1 DEF PoolInv, WorkersOK
<1>6. at[f] \in {"none", "queued"} \cup Begun /\ "queued" \notin Begun /\ "none" \notin Begun
  BY DEF PoolInv, TypeOK, Begun, Waits
<1> HIDE DEF L, W
<1>7. Cardinality(L) + Cardinality(W) = IF at[f] = "none" THEN 0 ELSE 1
  BY <1>2, <1>3, <1>4, <1>5, <1>6
<1> QED
  BY <1>7 DEF L, W

LEMMA InitPoolInv == Init => PoolInv
<1> SUFFICES ASSUME Init PROVE PoolInv
  OBVIOUS
<1>1. TypeOK
  BY SizeAssumption DEF Init, TypeOK
<1>2. LineOK
  BY DEF Init, LineOK
<1>3. WorkersOK
  BY DEF Init, WorkersOK, Begun, Waits
<1> QED
  BY <1>1, <1>2, <1>3 DEF PoolInv

-----------------------------------------------------------------------------
(***************************************************************************)
(* The disk. Each worker compares the free space with its own needs once,  *)
(* so that together they may promise more than there is; how much more is  *)
(* bounded by what the others were writing when the last one looked.       *)
(*                                                                         *)
(* What is on the disk is a fold over a set. Facts about it need induction *)
(* over finite sets: the smallest counterexample is refuted.               *)
(***************************************************************************)
LEMMA NaturalsAreWellFounded ==
  ASSUME NEW T, T \subseteq Nat, T # {}
  PROVE  \E x \in T : \A y \in T : ~ (<<y, x>> \in OpToRel(<, Nat))
<1>1. IsWellFoundedOn(OpToRel(<, Nat), Nat)
  BY NatLessThanWellFounded
<1> QED
  BY <1>1, WFMin

LEMMA LessIsRelated ==
  ASSUME NEW x \in Nat, NEW y \in Nat, y < x
  PROVE  <<y, x>> \in OpToRel(<, Nat)
BY DEF OpToRel

LEMMA LeastNatural ==
  ASSUME NEW T, T \subseteq Nat, T # {}
  PROVE  \E x \in T : \A y \in T : x <= y
<1>1. PICK x \in T : \A y \in T : ~ (<<y, x>> \in OpToRel(<, Nat))
  BY NaturalsAreWellFounded
<1>2. \A y \in T : ~ y < x
  BY <1>1, LessIsRelated
<1> QED
  BY <1>2

\* Of the sets that have some property one has no proper subset that has it.
LEMMA SmallestSubset ==
  ASSUME NEW T, IsFiniteSet(T), NEW Bad, Bad \subseteq SUBSET T, Bad # {}
  PROVE  \E s \in Bad : \A r \in Bad : r \subseteq s => r = s
<1> DEFINE N == {Cardinality(s) : s \in Bad}
<1>1. \A s \in Bad : IsFiniteSet(s) /\ Cardinality(s) \in Nat
  BY FS_Subset, FS_CardinalityType
<1>2. N \subseteq Nat /\ N # {}
  BY <1>1
<1>3. PICK n \in N : \A m \in N : n <= m
  BY <1>2, LeastNatural
<1>4. PICK s \in Bad : n = Cardinality(s)
  OBVIOUS
<1>5. ASSUME NEW r \in Bad, r \subseteq s, r # s
      PROVE  FALSE
  <2>1. Cardinality(r) < Cardinality(s)
    BY <1>1, <1>5, FS_Subset
  <2>2. n <= Cardinality(r)
    BY <1>3
  <2> QED
    BY <2>1, <2>2, <1>1, <1>4
<1> QED
  BY <1>5

(***************************************************************************)
(* What the files take up.                                                 *)
(***************************************************************************)
\* The function that FoldSet chooses, with the element that it takes out.
Picked(s) == CHOOSE x \in s : TRUE
IsUse(g, p, c, T) ==
  g = [s \in SUBSET T |->
         IF s = {} THEN 0 ELSE g[s \ {Picked(s)}] + p[Picked(s)] + c[Picked(s)]]
UseOf(p, c, T) == (CHOOSE g : IsUse(g, p, c, T))[T]

LEMMA UsedIs == Used = UseOf(part, copy, Files)
BY DEF Used, FoldSet, MapThenFoldSet, UseOf, IsUse, Picked

LEMMA PickedIn ==
  ASSUME NEW s, s # {}
  PROVE  Picked(s) \in s
BY DEF Picked

\* ... and on the sets of at most n elements.
UseUpTo(h, p, c, T, n) ==
  h = [s \in {r \in SUBSET T : Cardinality(r) <= n} |->
         IF s = {} THEN 0 ELSE h[s \ {Picked(s)}] + p[Picked(s)] + c[Picked(s)]]

LEMMA UseExists ==
  ASSUME NEW T, IsFiniteSet(T), NEW p, NEW c
  PROVE  \E g : IsUse(g, p, c, T)
<1> DEFINE Small(n) == {r \in SUBSET T : Cardinality(r) <= n}
           B == {n \in Nat : ~ \E h : UseUpTo(h, p, c, T, n)}
<1>1. \A s \in SUBSET T : /\ IsFiniteSet(s) /\ Cardinality(s) \in Nat
                          /\ (Cardinality(s) = 0) = (s = {})
  BY FS_Subset, FS_CardinalityType, FS_EmptySet
<1>2. ASSUME NEW s \in SUBSET T, s # {}
      PROVE  /\ s \ {Picked(s)} \in SUBSET T
             /\ Cardinality(s \ {Picked(s)}) = Cardinality(s) - 1
  BY <1>1, <1>2, PickedIn, FS_RemoveElement
<1>3. B = {}
  <2> SUFFICES ASSUME B # {} PROVE FALSE
    OBVIOUS
  <2>1. PICK n \in B : \A m \in B : n <= m
    BY LeastNatural
  <2>2. CASE n = 0
    <3> DEFINE h == [s \in Small(0) |-> 0]
    <3>1. \A s \in Small(0) : s = {}
      BY <1>1
    <3>2. UseUpTo(h, p, c, T, 0)
      BY <3>1 DEF UseUpTo
    <3> QED
      BY <2>1, <2>2, <3>2
  <2>3. CASE n # 0
    <3>1. n - 1 \in Nat /\ ~ n <= n - 1
      BY <2>3
    <3>2. PICK h : UseUpTo(h, p, c, T, n - 1)
      BY <2>1, <3>1
    <3> DEFINE k == [s \in Small(n) |->
                       IF s = {} THEN 0
                       ELSE h[s \ {Picked(s)}] + p[Picked(s)] + c[Picked(s)]]
    <3>3. ASSUME NEW s \in Small(n - 1)
          PROVE  h[s] = k[s]
      <4>1. s \in Small(n)
        BY <1>1, <3>1
      <4>2. h[s] = IF s = {} THEN 0
                   ELSE h[s \ {Picked(s)}] + p[Picked(s)] + c[Picked(s)]
        BY <3>2 DEF UseUpTo
      <4> QED
        BY <4>1, <4>2
    <3>4. ASSUME NEW s \in Small(n), s # {}
          PROVE  s \ {Picked(s)} \in Small(n - 1)
      BY <1>1, <1>2, <3>1, <3>4
    <3>5. \A s \in Small(n) :
            k[s] = IF s = {} THEN 0
                   ELSE k[s \ {Picked(s)}] + p[Picked(s)] + c[Picked(s)]
      BY <3>3, <3>4
    <3>6. UseUpTo(k, p, c, T, n)
      BY <3>5, Zenon DEF UseUpTo
    <3> QED
      BY <2>1, <3>6
  <2> QED
    BY <2>2, <2>3
<1>4. PICK h : UseUpTo(h, p, c, T, Cardinality(T))
  <2>1. Cardinality(T) \in Nat
    BY FS_CardinalityType
  <2> QED
    BY <1>3, <2>1
<1>5. Small(Cardinality(T)) = SUBSET T
  BY FS_Subset
<1>6. IsUse(h, p, c, T)
  BY <1>4, <1>5 DEF UseUpTo, IsUse
<1> QED
  BY <1>6

LEMMA UseFound ==
  ASSUME NEW T, IsFiniteSet(T), NEW p, NEW c
  PROVE  \E g : IsUse(g, p, c, T) /\ UseOf(p, c, T) = g[T]
<1>1. \E g : IsUse(g, p, c, T)
  BY UseExists
<1>2. IsUse(CHOOSE g : IsUse(g, p, c, T), p, c, T)
  BY <1>1
<1> QED
  BY <1>2 DEF UseOf

LEMMA UseStep ==
  ASSUME NEW T, NEW p, NEW c, NEW g, IsUse(g, p, c, T), NEW s \in SUBSET T
  PROVE  g[s] = IF s = {} THEN 0
                ELSE g[s \ {Picked(s)}] + p[Picked(s)] + c[Picked(s)]
BY DEF IsUse

LEMMA UseIsNatural ==
  ASSUME NEW T, IsFiniteSet(T), NEW p \in [T -> Nat], NEW c \in [T -> Nat],
         NEW g, IsUse(g, p, c, T)
  PROVE  \A s \in SUBSET T : g[s] \in Nat
<1> DEFINE Bad == {s \in SUBSET T : g[s] \notin Nat}
<1> SUFFICES ASSUME Bad # {} PROVE FALSE
  OBVIOUS
<1>1. PICK s \in Bad : \A r \in Bad : r \subseteq s => r = s
  <2>1. Bad \subseteq SUBSET T /\ Bad # {}
    OBVIOUS
  <2> HIDE DEF Bad
  <2> QED
    BY <2>1, SmallestSubset
<1>2. s # {}
  <2>1. s \in SUBSET T /\ g[s] \notin Nat
    BY <1>1
  <2>2. g[s] = IF s = {} THEN 0
               ELSE g[s \ {Picked(s)}] + p[Picked(s)] + c[Picked(s)]
    BY <2>1, UseStep
  <2> QED
    BY <2>1, <2>2
<1>3. Picked(s) \in s
  BY <1>2, PickedIn
<1>4. g[s \ {Picked(s)}] \in Nat
  BY <1>1, <1>3
<1>5. g[s] = g[s \ {Picked(s)}] + p[Picked(s)] + c[Picked(s)]
  BY <1>2, UseStep
<1>6. g[s] \in Nat
  BY <1>3, <1>4, <1>5
<1> QED
  BY <1>1, <1>6

\* A file that takes up more takes up as much more of the disk.
LEMMA UseOfOne ==
  ASSUME NEW T, IsFiniteSet(T), NEW f \in T,
         NEW p \in [T -> Nat], NEW c \in [T -> Nat],
         NEW q \in [T -> Nat], NEW d \in [T -> Nat],
         \A x \in T : x # f => q[x] = p[x] /\ d[x] = c[x]
  PROVE  UseOf(q, d, T) = UseOf(p, c, T) + (q[f] + d[f]) - (p[f] + c[f])
<1>1. PICK g : IsUse(g, p, c, T) /\ UseOf(p, c, T) = g[T]
  BY UseFound
<1>2. PICK h : IsUse(h, q, d, T) /\ UseOf(q, d, T) = h[T]
  BY UseFound
<1>3. \A s \in SUBSET T : g[s] \in Nat /\ h[s] \in Nat
  BY <1>1, <1>2, UseIsNatural
<1> DEFINE more == (q[f] + d[f]) - (p[f] + c[f])
           Bad == {s \in SUBSET T : h[s] # g[s] + (IF f \in s THEN more ELSE 0)}
<1>4. Bad = {}
  <2> SUFFICES ASSUME Bad # {} PROVE FALSE
    OBVIOUS
  <2>1. PICK s \in Bad : \A r \in Bad : r \subseteq s => r = s
    <3>1. Bad \subseteq SUBSET T /\ Bad # {}
      OBVIOUS
    <3> HIDE DEF Bad
    <3> QED
      BY <3>1, SmallestSubset
  <2> DEFINE x == Picked(s)
             r == s \ {x}
  <2>2. s \in SUBSET T
    BY <2>1
  <2>3. /\ g[s] = IF s = {} THEN 0 ELSE g[r] + p[x] + c[x]
        /\ h[s] = IF s = {} THEN 0 ELSE h[r] + q[x] + d[x]
    BY SMTT(30), <1>1, <1>2, <2>2, UseStep
  <2>4. s # {} => x \in s
    BY PickedIn
  <2> HIDE DEF x
  <2>5. CASE s = {}
    BY <2>1, <2>3, <2>5
  <2>6. CASE s # {}
    <3>1. r \in SUBSET T /\ r # s /\ r \subseteq s /\ x \in T
      BY <2>2, <2>4, <2>6
    <3>2. h[r] = g[r] + (IF f \in r THEN more ELSE 0)
      BY <2>1, <3>1
    <3>3. g[r] \in Nat /\ h[r] \in Nat /\ p[x] \in Nat /\ c[x] \in Nat
          /\ q[x] \in Nat /\ d[x] \in Nat
          /\ p[f] \in Nat /\ c[f] \in Nat /\ q[f] \in Nat /\ d[f] \in Nat
      BY <1>3, <3>1
    <3>4. CASE x = f
      <4>1. f \in s /\ f \notin r
        BY <2>4, <2>6, <3>4
      <4>2. h[r] = g[r]
        BY <3>2, <4>1, <3>3
      <4>3. h[s] = g[s] + more
        BY <2>3, <2>6, <3>3, <3>4, <4>2
      <4> QED
        BY <2>1, <4>1, <4>3
    <3>5. CASE x # f
      <4>1. f \in s <=> f \in r
        BY <3>5
      <4>2. q[x] = p[x] /\ d[x] = c[x]
        BY <3>1, <3>5
      <4>3. h[s] = g[s] + (IF f \in s THEN more ELSE 0)
        BY <2>3, <2>6, <3>2, <3>3, <4>1, <4>2
      <4> QED
        BY <2>1, <4>3
    <3> QED
      BY <3>4, <3>5
  <2> QED
    BY <2>5, <2>6
<1>5. T \notin Bad
  BY <1>4
<1>6. h[T] = g[T] + more
  BY <1>5
<1> QED
  BY <1>1, <1>2, <1>6

LEMMA UseOfNothing ==
  ASSUME NEW T, IsFiniteSet(T), NEW p, NEW c, \A x \in T : p[x] = 0 /\ c[x] = 0
  PROVE  UseOf(p, c, T) = 0
<1>1. PICK g : IsUse(g, p, c, T) /\ UseOf(p, c, T) = g[T]
  BY UseFound
<1> DEFINE Bad == {s \in SUBSET T : g[s] # 0}
<1>2. Bad = {}
  <2> SUFFICES ASSUME Bad # {} PROVE FALSE
    OBVIOUS
  <2>1. PICK s \in Bad : \A r \in Bad : r \subseteq s => r = s
    <3>1. Bad \subseteq SUBSET T /\ Bad # {}
      OBVIOUS
    <3> HIDE DEF Bad
    <3> QED
      BY <3>1, SmallestSubset
  <2>2. s \in SUBSET T /\ g[s] # 0
    BY <2>1
  <2>3. g[s] = IF s = {} THEN 0 ELSE g[s \ {Picked(s)}] + p[Picked(s)] + c[Picked(s)]
    BY <1>1, <2>2, UseStep
  <2>4. s # {} /\ Picked(s) \in s
    BY <2>2, <2>3, PickedIn
  <2>5. g[s \ {Picked(s)}] = 0 /\ p[Picked(s)] = 0 /\ c[Picked(s)] = 0
    BY <2>1, <2>2, <2>4
  <2> QED
    BY <2>2, <2>3, <2>4, <2>5
<1>3. T \notin Bad
  BY <1>2
<1> QED
  BY <1>1, <1>3

\* Files of which some take up more, and none of them more than M more.
LEMMA UseOfSome ==
  ASSUME NEW T, IsFiniteSet(T), NEW S \in SUBSET T, NEW M \in Nat,
         NEW p \in [T -> Nat], NEW c \in [T -> Nat], NEW q \in [T -> Nat],
         \A x \in T : p[x] <= q[x] /\ q[x] <= p[x] + (IF x \in S THEN M ELSE 0)
  PROVE  /\ UseOf(p, c, T) <= UseOf(q, c, T)
         /\ UseOf(q, c, T) <= UseOf(p, c, T) + Cardinality(S) * M
         /\ UseOf(p, c, T) \in Nat /\ UseOf(q, c, T) \in Nat
<1>1. PICK g : IsUse(g, p, c, T) /\ UseOf(p, c, T) = g[T]
  BY UseFound
<1>2. PICK h : IsUse(h, q, c, T) /\ UseOf(q, c, T) = h[T]
  BY UseFound
<1>3. \A s \in SUBSET T : g[s] \in Nat /\ h[s] \in Nat
  BY <1>1, <1>2, UseIsNatural
<1> DEFINE Bound(s) == Cardinality(s \cap S) * M
           Bad == {s \in SUBSET T : ~ (g[s] <= h[s] /\ h[s] <= g[s] + Bound(s))}
<1>4. ASSUME NEW s \in SUBSET T
      PROVE  /\ IsFiniteSet(s \cap S) /\ Cardinality(s \cap S) \in Nat
             /\ Bound(s) \in Nat
  <2>1. s \cap S \subseteq T
    OBVIOUS
  <2>2. IsFiniteSet(s \cap S) /\ Cardinality(s \cap S) \in Nat
    BY <2>1, FS_Subset, FS_CardinalityType
  <2>3. \A n \in Nat : n * M \in Nat
    OBVIOUS
  <2> QED
    BY <2>2, <2>3
<1>5. Bad = {}
  <2> SUFFICES ASSUME Bad # {} PROVE FALSE
    OBVIOUS
  <2>1. PICK s \in Bad : \A r \in Bad : r \subseteq s => r = s
    <3>1. Bad \subseteq SUBSET T /\ Bad # {}
      OBVIOUS
    <3> HIDE DEF Bad
    <3> QED
      BY <3>1, SmallestSubset
  <2> DEFINE x == Picked(s)
             r == s \ {x}
  <2>2. s \in SUBSET T /\ ~ (g[s] <= h[s] /\ h[s] <= g[s] + Bound(s))
    BY <2>1
  <2>3. /\ g[s] = IF s = {} THEN 0 ELSE g[r] + p[x] + c[x]
        /\ h[s] = IF s = {} THEN 0 ELSE h[r] + q[x] + c[x]
    <3>1. s \in SUBSET T
      BY <2>2
    <3> HIDE DEF Bad, Bound
    <3>2. g[s] = IF s = {} THEN 0 ELSE g[r] + p[x] + c[x]
      BY <1>1, <3>1, UseStep
    <3>3. h[s] = IF s = {} THEN 0 ELSE h[r] + q[x] + c[x]
      BY <1>2, <3>1, UseStep
    <3> QED
      BY <3>2, <3>3
  <2>4. s # {} => x \in s
    BY PickedIn
  <2> HIDE DEF x
  <2>5. s # {}
    <3>1. Bound(s) \in Nat
      BY <1>4, <2>2
    <3> HIDE DEF Bound
    <3> QED
      BY <2>2, <2>3, <3>1
  <2>6. r \in SUBSET T /\ r # s /\ r \subseteq s /\ x \in T
    BY <2>2, <2>4, <2>5
  <2>7. g[r] <= h[r] /\ h[r] <= g[r] + Bound(r)
    BY <2>1, <2>6
  <2>8. g[r] \in Nat /\ h[r] \in Nat /\ p[x] \in Nat /\ c[x] \in Nat /\ q[x] \in Nat
    BY <1>3, <2>6
  <2>9. Bound(s) = Bound(r) + (IF x \in S THEN M ELSE 0)
    <3>1. CASE x \in S
      <4>1. r \cap S = (s \cap S) \ {x} /\ x \in s \cap S
        BY <2>4, <2>5, <3>1
      <4>2. Cardinality(r \cap S) = Cardinality(s \cap S) - 1
        <5>1. IsFiniteSet(s \cap S)
          BY <1>4, <2>2
        <5>2. Cardinality((s \cap S) \ {x}) = Cardinality(s \cap S) - 1
          BY <4>1, <5>1, FS_RemoveElement
        <5> QED
          BY <4>1, <5>2
      <4>3. \A n \in Nat : n * M = (n - 1) * M + M
        OBVIOUS
      <4>4. Cardinality(s \cap S) \in Nat
        BY <1>4, <2>2
      <4>5. Cardinality(s \cap S) * M = (Cardinality(s \cap S) - 1) * M + M
        BY <4>3, <4>4
      <4> QED
        BY <3>1, <4>2, <4>5
    <3>2. CASE x \notin S
      <4>1. r \cap S = s \cap S
        BY <3>2
      <4>2. Bound(r) = Bound(s) /\ Bound(s) \in Nat
        BY <1>4, <2>2, <4>1
      <4> QED
        BY <3>2, <4>2
    <3> QED
      BY <3>1, <3>2
  <2>10. p[x] <= q[x] /\ q[x] <= p[x] + (IF x \in S THEN M ELSE 0)
    BY <2>6
  <2>11. Bound(s) \in Nat /\ Bound(r) \in Nat
    BY <1>4, <2>2, <2>6
  <2>12. g[s] = g[r] + p[x] + c[x] /\ h[s] = h[r] + q[x] + c[x]
    BY <2>3, <2>5
  <2> HIDE DEF Bound
  <2>13. g[s] <= h[s] /\ h[s] <= g[s] + Bound(s)
    BY <2>7, <2>8, <2>9, <2>10, <2>11, <2>12
  <2> QED
    BY <2>2, <2>13
<1>6. T \notin Bad /\ T \in SUBSET T /\ T \cap S = S
  BY <1>5
<1>7. g[T] <= h[T] /\ h[T] <= g[T] + Cardinality(S) * M
  BY <1>6
<1> QED
  BY <1>1, <1>2, <1>3, <1>6, <1>7

(***************************************************************************)
(* What is on the disk, and what the transfers under way may still add.    *)
(***************************************************************************)
Transfers == {f \in Files : at[f] \in {"stream", "wait"}}
Claim == [f \in Files |-> IF f \in Transfers THEN Size[f] ELSE part[f]]
Promised == UseOf(Claim, copy, Files)

DiskInv(M) ==
  /\ Used <= Capacity
  /\ Promised + Buffer <= Capacity + (Cardinality(Workers) - 1) * M

LEMMA ClaimType ==
  ASSUME TypeOK
  PROVE  /\ Claim \in [Files -> Nat] /\ part \in [Files -> Nat] /\ copy \in [Files -> Nat]
         /\ \A f \in Files : part[f] <= Claim[f] /\ Claim[f] <= Size[f]
         /\ \A f \in Files : Size[f] \in Nat
BY SizeAssumption DEF TypeOK, Claim

LEMMA DiskIsNatural ==
  ASSUME TypeOK
  PROVE  Used \in Nat /\ Promised \in Nat
<1>1. \E g : IsUse(g, part, copy, Files) /\ UseOf(part, copy, Files) = g[Files]
  BY FilesAssumption, UseFound
<1>2. \E g : IsUse(g, Claim, copy, Files) /\ UseOf(Claim, copy, Files) = g[Files]
  BY FilesAssumption, UseFound
<1> QED
  BY <1>1, <1>2, UseIsNatural, FilesAssumption, ClaimType, UsedIs DEF Promised

LEMMA WorkersLess ==
  ASSUME Workers # {}, NEW M \in Nat
  PROVE  /\ Cardinality(Workers) - 1 \in Nat
         /\ (Cardinality(Workers) - 1) * M \in Nat
<1>1. Cardinality(Workers) \in Nat /\ Cardinality(Workers) # 0
  BY WorkersAssumption, FS_CardinalityType, FS_EmptySet
<1>2. \A n \in Nat : n * M \in Nat
  OBVIOUS
<1> QED
  BY <1>1, <1>2

\* A worker that is to begin leaves one slot fewer to the transfers.
\* The files that have a worker.
AtWorkers == {f \in Files : Running(f)}

LEMMA AtWorkersAre ==
  ASSUME PoolInv
  PROVE  AtWorkers = {worker[w] : w \in {v \in Workers : worker[v] # NoFile}}
BY FilesAssumption DEF AtWorkers, Running, PoolInv, TypeOK

LEMMA OthersTransfer ==
  ASSUME PoolInv, NEW f \in Files, at[f] = "head"
  PROVE  /\ IsFiniteSet(Transfers)
         /\ Cardinality(Transfers) \in Nat
         /\ Cardinality(Transfers) <= Cardinality(Workers) - 1
<1>1. IsFiniteSet(AtWorkers) /\ Cardinality(AtWorkers) <= Cardinality(Workers)
  <2> DEFINE Busy == {v \in Workers : worker[v] # NoFile}
             image == [v \in Busy |-> worker[v]]
  <2>1. IsFiniteSet(Busy) /\ Cardinality(Busy) <= Cardinality(Workers)
    BY WorkersAssumption, FS_Subset
  <2>2. AtWorkers = {image[v] : v \in Busy}
    BY AtWorkersAre
  <2>3. image \in Surjection(Busy, AtWorkers)
    BY <2>2 DEF Surjection
  <2>4. IsFiniteSet(AtWorkers) /\ Cardinality(AtWorkers) <= Cardinality(Busy)
    BY <2>1, <2>3, FS_Surjection
  <2>5. /\ Cardinality(AtWorkers) \in Nat /\ Cardinality(Busy) \in Nat
        /\ Cardinality(Workers) \in Nat
    BY <2>1, <2>4, WorkersAssumption, FS_CardinalityType
  <2> QED
    BY <2>1, <2>4, <2>5
<1>2. Transfers \subseteq AtWorkers \ {f}
  BY DEF Transfers, AtWorkers, Running, PoolInv, WorkersOK, Begun, Waits
<1>3. f \in AtWorkers
  BY DEF AtWorkers, Running, PoolInv, WorkersOK, Begun
<1>4. /\ IsFiniteSet(AtWorkers \ {f})
      /\ Cardinality(AtWorkers \ {f}) = Cardinality(AtWorkers) - 1
  BY <1>1, <1>3, FS_RemoveElement
<1>5. IsFiniteSet(Transfers) /\ Cardinality(Transfers) <= Cardinality(AtWorkers \ {f})
  BY <1>2, <1>4, FS_Subset
<1>6. /\ Cardinality(Transfers) \in Nat /\ Cardinality(AtWorkers) \in Nat
      /\ Cardinality(Workers) \in Nat
  BY <1>1, <1>5, WorkersAssumption, FS_CardinalityType
<1> QED
  BY <1>1, <1>4, <1>5, <1>6

\* The transfers may add no more than M chunks each.
LEMMA PromisedIsUsed ==
  ASSUME TypeOK, NEW M \in Nat, \A f \in Files : Size[f] <= M
  PROVE  /\ Used <= Promised
         /\ Promised <= Used + Cardinality(Transfers) * M
<1>1. \A f \in Files : part[f] <= Claim[f]
                       /\ Claim[f] <= part[f] + (IF f \in Transfers THEN M ELSE 0)
  BY ClaimType DEF Claim
<1>2. Transfers \in SUBSET Files
  BY DEF Transfers
<1> QED
  BY <1>1, <1>2, ClaimType, FilesAssumption, UseOfSome, UsedIs DEF Promised

\* What one file claims and has changes the whole by as much.
LEMMA UseOfOneFile ==
  ASSUME NEW f \in Files,
         NEW p \in [Files -> Nat], NEW c \in [Files -> Nat],
         NEW q \in [Files -> Nat], NEW d \in [Files -> Nat],
         \A x \in Files : x # f => q[x] = p[x] /\ d[x] = c[x]
  PROVE  UseOf(q, d, Files) = UseOf(p, c, Files) + (q[f] + d[f]) - (p[f] + c[f])
BY UseOfOne, FilesAssumption

LEMMA PromisedStep ==
  ASSUME TypeOK, TypeOK', NEW f \in Files,
         \A g \in Files : g # f => Claim'[g] = Claim[g] /\ copy'[g] = copy[g]
  PROVE  Promised' = Promised + (Claim'[f] + copy'[f]) - (Claim[f] + copy[f])
<1>1. Claim' \in [Files -> Nat] /\ copy' \in [Files -> Nat]
  BY SizeAssumption DEF TypeOK, Claim, Transfers
<1>2. Claim \in [Files -> Nat] /\ copy \in [Files -> Nat]
  BY ClaimType
<1>3. UseOf(Claim', copy', Files)
        = UseOf(Claim, copy, Files) + (Claim'[f] + copy'[f]) - (Claim[f] + copy[f])
  BY <1>1, <1>2, UseOfOneFile
<1> QED
  BY <1>3 DEF Promised

LEMMA UsedStep ==
  ASSUME TypeOK, TypeOK', NEW f \in Files,
         \A g \in Files : g # f => part'[g] = part[g] /\ copy'[g] = copy[g]
  PROVE  Used' = Used + (part'[f] + copy'[f]) - (part[f] + copy[f])
<1>1. Used' = UseOf(part', copy', Files)
  BY DEF Used, FoldSet, MapThenFoldSet, UseOf, IsUse, Picked
<1>2. /\ part' \in [Files -> Nat] /\ copy' \in [Files -> Nat]
      /\ part \in [Files -> Nat] /\ copy \in [Files -> Nat]
  BY DEF TypeOK
<1>3. UseOf(part', copy', Files)
        = UseOf(part, copy, Files) + (part'[f] + copy'[f]) - (part[f] + copy[f])
  BY <1>2, UseOfOneFile
<1> QED
  BY <1>1, <1>3, UsedIs

\* Steps that neither claim anything nor end a download.
LEMMA DiskStays ==
  ASSUME TypeOK, TypeOK', NEW M \in Nat, DiskInv(M), Claim' = Claim, copy' = copy, part' = part
  PROVE  DiskInv(M)'
<1>1. Promised' = Promised
  BY DEF Promised
<1>2. Used' = Used
  BY DEF Used, FoldSet, MapThenFoldSet
<1> QED
  BY <1>1, <1>2 DEF DiskInv

\* A download that ends, or bytes that are thrown away, take up no more.
LEMMA DiskFreed ==
  ASSUME TypeOK, TypeOK', Workers # {}, NEW M \in Nat, DiskInv(M), NEW f \in Files,
         \A g \in Files : g # f => /\ part'[g] = part[g] /\ copy'[g] = copy[g]
                                   /\ at'[g] = at[g],
         f \notin Transfers', part'[f] + copy'[f] <= part[f] + copy[f]
  PROVE  DiskInv(M)'
<1>1. \A g \in Files : g # f => Claim'[g] = Claim[g]
  BY DEF Claim, Transfers
<1>2. Claim'[f] = part'[f] /\ part[f] <= Claim[f]
  BY ClaimType DEF Claim
<1>3. /\ part[f] \in Nat /\ copy[f] \in Nat /\ Claim[f] \in Nat
      /\ part'[f] \in Nat /\ copy'[f] \in Nat
  BY ClaimType DEF TypeOK
<1>4. Used' = Used + (part'[f] + copy'[f]) - (part[f] + copy[f])
  BY UsedStep
<1>5. Promised' = Promised + (Claim'[f] + copy'[f]) - (Claim[f] + copy[f])
  BY <1>1, PromisedStep
<1>6. Used \in Nat /\ Promised \in Nat /\ Capacity \in Nat /\ Buffer \in Nat
  BY DiskIsNatural, SizeAssumption
<1>7. Used' <= Used /\ Promised' <= Promised /\ Used' \in Int /\ Promised' \in Int
  BY <1>2, <1>3, <1>4, <1>5, <1>6
<1>8. (Cardinality(Workers) - 1) * M \in Nat
  BY WorkersLess
<1>9. Used' <= Capacity
  BY <1>6, <1>7 DEF DiskInv
<1>10. Promised' + Buffer <= Capacity + (Cardinality(Workers) - 1) * M
  BY <1>6, <1>7, <1>8 DEF DiskInv
<1> QED
  BY <1>9, <1>10 DEF DiskInv

\* The disk-space check.
LEMMA DiskClaimed ==
  ASSUME PoolInv, TypeOK', Workers # {}, NEW M \in Nat, \A g \in Files : Size[g] <= M,
         DiskInv(M), NEW f \in Files, HeadAnswered(f)
  PROVE  DiskInv(M)'
<1>1. /\ at[f] = "head" /\ at' = [at EXCEPT ![f] = "stream"] /\ copy' = copy /\ part' = part
      /\ Free >= Size[f] - part[f] + Buffer /\ TypeOK
  BY DEF HeadAnswered, Step, PoolInv
<1>2. Used' = Used
  BY <1>1 DEF Used, FoldSet, MapThenFoldSet
<1>3. \A g \in Files : g # f => Claim'[g] = Claim[g] /\ copy'[g] = copy[g]
  BY <1>1 DEF Claim, Transfers, TypeOK
<1>4. Claim[f] = part[f] /\ Claim'[f] = Size[f]
  BY <1>1 DEF Claim, Transfers, TypeOK
<1>5. /\ part[f] \in Nat /\ copy[f] \in Nat /\ Size[f] \in Nat /\ part[f] <= Size[f]
      /\ Used \in Nat /\ Promised \in Nat /\ Capacity \in Nat /\ Buffer \in Nat
  BY <1>1, ClaimType, DiskIsNatural, SizeAssumption DEF TypeOK
<1>6. Promised' = Promised + (Size[f] + copy[f]) - (part[f] + copy[f])
  BY <1>1, <1>3, <1>4, PromisedStep
<1>7. Promised <= Used + (Cardinality(Workers) - 1) * M
  <2>1. Promised <= Used + Cardinality(Transfers) * M
    BY <1>1, PromisedIsUsed
  <2>2. /\ Cardinality(Transfers) \in Nat /\ Cardinality(Workers) - 1 \in Nat
        /\ Cardinality(Transfers) <= Cardinality(Workers) - 1
    BY <1>1, OthersTransfer, WorkersLess
  <2>3. \A m, n \in Nat : m <= n => m * M <= n * M /\ m * M \in Nat /\ n * M \in Nat
    OBVIOUS
  <2>4. /\ Cardinality(Transfers) * M <= (Cardinality(Workers) - 1) * M
        /\ Cardinality(Transfers) * M \in Nat /\ (Cardinality(Workers) - 1) * M \in Nat
    BY <2>2, <2>3
  <2> QED
    BY <1>5, <2>1, <2>4
<1>8. Used + (Size[f] - part[f]) + Buffer <= Capacity
  BY <1>1, <1>5 DEF Free, DiskInv
<1>9. (Cardinality(Workers) - 1) * M \in Nat
  BY WorkersLess
<1>10. Promised' + Buffer <= Capacity + (Cardinality(Workers) - 1) * M
  BY <1>5, <1>6, <1>7, <1>8, <1>9
<1> QED
  BY <1>2, <1>10 DEF DiskInv

\* A chunk was claimed before; there is room for it.
LEMMA DiskChunk ==
  ASSUME TypeOK, TypeOK', NEW M \in Nat, DiskInv(M), NEW f \in Files, Chunk(f)
  PROVE  DiskInv(M)'
<1>1. /\ at[f] = "stream" /\ at' = at /\ copy' = copy
      /\ part' = [part EXCEPT ![f] = part[f] + 1] /\ Free > 0
  BY DEF Chunk
<1>2. Claim' = Claim
  <2>1. Transfers' = Transfers /\ f \in Transfers
    BY <1>1 DEF Transfers
  <2>2. \A g \in Files : g # f => part'[g] = part[g]
    BY <1>1 DEF TypeOK
  <2> QED
    BY <2>1, <2>2 DEF Claim
<1>3. Promised' = Promised
  BY <1>1, <1>2 DEF Promised
<1>4. Used' = Used + (part'[f] + copy'[f]) - (part[f] + copy[f])
  BY <1>1, UsedStep DEF TypeOK
<1>5. /\ part'[f] = part[f] + 1 /\ part[f] \in Nat /\ copy[f] \in Nat
      /\ Used \in Nat /\ Capacity \in Nat
  BY <1>1, DiskIsNatural, SizeAssumption DEF TypeOK
<1>6. Used' <= Capacity
  BY <1>1, <1>4, <1>5 DEF Free
<1> QED
  BY <1>3, <1>6 DEF DiskInv

LEMMA DiskStep ==
  ASSUME PoolInv, [Next]_vars, Workers # {}, NEW M \in Nat, \A f \in Files : Size[f] <= M,
         DiskInv(M)
  PROVE  DiskInv(M)'
<1>t. TypeOK /\ TypeOK'
  BY TypeStep DEF PoolInv
<1>1. CASE UNCHANGED vars
  <2>1. Claim' = Claim /\ copy' = copy /\ part' = part
    BY <1>1 DEF vars, Claim, Transfers
  <2> QED
    BY <1>t, <2>1, DiskStays
<1>2. ASSUME NEW f \in Files,
             StartDownload(f) \/ CancelDownload(f) \/ Goes(f) \/ Returns(f)
               \/ HostAway(f) \/ Waited(f)
      PROVE  DiskInv(M)'
  <2>1. Transfers' = Transfers /\ copy' = copy /\ part' = part
    BY <1>t, <1>2 DEF StartDownload, CancelDownload, Goes, Returns, HostAway, Waited, Step,
                      Transfers, Waits, TypeOK
  <2>2. Claim' = Claim
    BY <2>1 DEF Claim
  <2> QED
    BY <1>t, <2>1, <2>2, DiskStays
<1>3. ASSUME NEW w \in Workers, Take(w) PROVE DiskInv(M)'
  <2>1. Head(queue) \in Files /\ at[Head(queue)] = "queued"
    BY <1>3 DEF Take, PoolInv, TypeOK, LineOK
  <2>2. Transfers' = Transfers /\ copy' = copy /\ part' = part
    BY <1>t, <1>3, <2>1 DEF Take, Transfers, TypeOK
  <2>3. Claim' = Claim
    BY <2>2 DEF Claim
  <2> QED
    BY <1>t, <2>2, <2>3, DiskStays
<1>4. ASSUME NEW f \in Files, NoSpace(f) \/ Cancelled(f) \/ DiskFull(f) \/ Refused(f)
      PROVE  DiskInv(M)'
  <2>1. End(f) /\ UNCHANGED <<part, copy>>
    BY <1>4 DEF NoSpace, Cancelled, DiskFull, Refused
  <2>2. \A g \in Files : /\ part'[g] = part[g] /\ copy'[g] = copy[g]
                         /\ part[g] + copy[g] \in Nat
                         /\ at'[g] = IF g = f THEN "none" ELSE at[g]
    BY <1>t, <2>1 DEF End, TypeOK
  <2>3. f \notin Transfers'
    BY <2>2 DEF Transfers
  <2> QED
    BY <1>t, <2>2, <2>3, DiskFreed
<1>5. ASSUME NEW f \in Files, Finish(f) PROVE DiskInv(M)'
  <2>1. \A g \in Files : /\ part'[g] = IF g = f THEN 0 ELSE part[g]
                         /\ copy'[g] = IF g = f THEN part[f] ELSE copy[g]
                         /\ at'[g] = IF g = f THEN "none" ELSE at[g]
                         /\ part[g] \in Nat /\ copy[g] \in Nat
    BY <1>t, <1>5 DEF Finish, End, TypeOK
  <2>2. f \notin Transfers' /\ part'[f] + copy'[f] <= part[f] + copy[f]
    BY <2>1 DEF Transfers
  <2> QED
    BY <1>t, <2>1, <2>2, DiskFreed
<1>6. ASSUME NEW f \in Files, Discard(f) PROVE DiskInv(M)'
  <2>1. \A g \in Files : /\ part'[g] = IF g = f THEN 0 ELSE part[g]
                         /\ copy'[g] = copy[g] /\ at'[g] = at[g]
                         /\ part[g] \in Nat /\ copy[g] \in Nat
    BY <1>t, <1>6 DEF Discard, TypeOK
  <2>2. f \notin Transfers' /\ part'[f] + copy'[f] <= part[f] + copy[f]
    BY <1>6, <2>1 DEF Transfers, Discard
  <2> QED
    BY <1>t, <2>1, <2>2, DiskFreed
<1>9. ASSUME NEW f \in Files, Mismatch(f) PROVE DiskInv(M)'
  <2>1. \A g \in Files : /\ part'[g] = IF g = f THEN 0 ELSE part[g]
                         /\ copy'[g] = copy[g]
                         /\ at'[g] = IF g = f THEN "none" ELSE at[g]
                         /\ part[g] \in Nat /\ copy[g] \in Nat
    BY <1>t, <1>9 DEF Mismatch, End, TypeOK
  <2>2. f \notin Transfers' /\ part'[f] + copy'[f] <= part[f] + copy[f]
    BY <2>1 DEF Transfers
  <2> QED
    BY <1>t, <2>1, <2>2, DiskFreed
<1>7. ASSUME NEW f \in Files, HeadAnswered(f) PROVE DiskInv(M)'
  BY <1>t, <1>7, DiskClaimed
<1>8. ASSUME NEW f \in Files, Chunk(f) PROVE DiskInv(M)'
  BY <1>t, <1>8, DiskChunk
<1> QED
  BY <1>1, <1>2, <1>3, <1>4, <1>5, <1>6, <1>7, <1>8, <1>9 DEF Next, Work

LEMMA InitDisk ==
  ASSUME Init, Workers # {}, Buffer <= Capacity, NEW M \in Nat
  PROVE  DiskInv(M)
<1>1. \A f \in Files : part[f] = 0 /\ copy[f] = 0 /\ Claim[f] = 0
  BY DEF Init, Claim, Transfers
<1>2. Used = 0 /\ Promised = 0
  BY <1>1, UseOfNothing, UsedIs, FilesAssumption DEF Promised
<1>3. Capacity \in Nat /\ Buffer \in Nat /\ (Cardinality(Workers) - 1) * M \in Nat
  BY SizeAssumption, WorkersLess
<1> QED
  BY <1>2, <1>3 DEF DiskInv

\* Each worker compares the free space with its own needs once. What all of them
\* write together leaves the buffer free, but for what the other workers may be
\* writing, whose files have M chunks at most (the check in _download_worker).
THEOREM OverrunBounded ==
  ASSUME Workers # {}, Buffer <= Capacity, NEW M \in Nat, \A f \in Files : Size[f] <= M
  PROVE  Spec => []OverrunIsBounded(M)
<1>1. Init => PoolInv /\ DiskInv(M)
  BY InitPoolInv, InitDisk
<1>2. PoolInv /\ DiskInv(M) /\ [Next]_vars => PoolInv' /\ DiskInv(M)'
  BY InvStep, DiskStep
<1>3. PoolInv /\ DiskInv(M) => OverrunIsBounded(M)
  <2> SUFFICES ASSUME PoolInv, DiskInv(M) PROVE OverrunIsBounded(M)
    OBVIOUS
  <2>1. TypeOK
    BY DEF PoolInv
  <2>2. Used <= Promised /\ Used \in Nat /\ Promised \in Nat
    BY <2>1, PromisedIsUsed, DiskIsNatural
  <2>3. Capacity \in Nat /\ Buffer \in Nat /\ (Cardinality(Workers) - 1) * M \in Nat
    BY SizeAssumption, WorkersLess
  <2> QED
    BY <2>2, <2>3 DEF DiskInv, OverrunIsBounded
<1> QED
  BY <1>1, <1>2, <1>3, PTL DEF Spec

\* Some number of chunks is enough for every file.
LEMMA SizesBounded == \E M \in Nat : \A f \in Files : Size[f] <= M
<1> DEFINE nothing == [f \in Files |-> 0]
           all == UseOf(Size, nothing, Files)
<1>1. Size \in [Files -> Nat] /\ nothing \in [Files -> Nat]
  BY SizeAssumption
<1>2. \A p \in [Files -> Nat] : UseOf(p, nothing, Files) \in Nat
  BY <1>1, UseFound, UseIsNatural, FilesAssumption
<1>3. ASSUME NEW f \in Files PROVE Size[f] <= all
  <2> DEFINE others == [Size EXCEPT ![f] = 0]
  <2>1. /\ others \in [Files -> Nat] /\ others[f] = 0 /\ nothing[f] = 0
        /\ \A g \in Files : g # f => Size[g] = others[g] /\ nothing[g] = nothing[g]
    BY <1>1
  <2>2. UseOf(others, nothing, Files) \in Nat /\ all \in Nat /\ Size[f] \in Nat
    BY <1>1, <1>2, <2>1
  <2> HIDE DEF others, nothing
  <2>3. all = UseOf(others, nothing, Files)
                + (Size[f] + nothing[f]) - (others[f] + nothing[f])
    BY <1>1, <2>1, UseOfOneFile
  <2> HIDE DEF all
  <2> QED
    BY <2>1, <2>2, <2>3
<1> QED
  BY <1>1, <1>2, <1>3

\* With one worker the check does what it is there for: the buffer stays free.
THEOREM OneWorkerKeepsTheBuffer ==
  ASSUME Cardinality(Workers) = 1, Buffer <= Capacity
  PROVE  Spec => []DiskNotFilled
<1>1. PICK M \in Nat : \A f \in Files : Size[f] <= M
  BY SizesBounded
<1>2. Workers # {}
  BY FS_EmptySet
<1>3. Spec => []OverrunIsBounded(M)
  BY <1>1, <1>2, OverrunBounded
<1>4. Spec => []TypeOK
  BY PoolTypeCorrect
<1>5. TypeOK /\ OverrunIsBounded(M) => DiskNotFilled
  <2> SUFFICES ASSUME TypeOK, OverrunIsBounded(M) PROVE DiskNotFilled
    OBVIOUS
  <2>1. Used \in Nat /\ Capacity \in Nat /\ Buffer \in Nat /\ (1 - 1) * M = 0
    BY DiskIsNatural, SizeAssumption
  <2>2. Used + Buffer <= Capacity
    BY <2>1 DEF OverrunIsBounded
  <2> QED
    BY <2>1, <2>2 DEF DiskNotFilled, Free
<1> QED
  BY <1>3, <1>4, <1>5, PTL

\* A download that was accepted is once in the line of the executor or at one of
\* its workers, and at neither when it is over: none is lost, and none runs twice
\* (start_download, the executor, and the end of _download_worker).
THEOREM NoneLostNoneTwice == Spec => []EachInOnePlace
BY InitPoolInv, InvStep, PlacesCounted, PTL DEF Spec

=============================================================================
