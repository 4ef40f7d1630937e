----------------------------- MODULE FanoutProofs -----------------------------
(***************************************************************************)
(* Theorems about Fanout, for any number of threads, connections and       *)
(* changes: no announced change that a connected page has not been sent is *)
(* forgotten.                                                              *)
(*                                                                         *)
(* The first part says what list.remove does to the list of connections.   *)
(* A whole list of the dead is taken out by a recursive function, so that  *)
(* this part needs an induction, which is one over the natural numbers:    *)
(* the least counterexample is refuted.                                    *)
(***************************************************************************)
EXTENDS Fanout, SequenceTheorems, WellFoundedInduction, TLAPS

(***************************************************************************)
(* Least elements.                                                         *)
(***************************************************************************)
LEMMA NaturalsAreWellFounded ==
    ASSUME NEW T, T \subseteq Nat, T # {}
    PROVE  \E x \in T : \A y \in T : ~ (<<y, x>> \in OpToRel(<, Nat))
<1>1. IsWellFoundedOn(OpToRel(<, Nat), Nat)  BY NatLessThanWellFounded
<1> QED BY <1>1, WFMin

LEMMA LessIsRelated ==
    ASSUME NEW x \in Nat, NEW y \in Nat, y < x
    PROVE  <<y, x>> \in OpToRel(<, Nat)
BY DEF OpToRel

LEMMA LeastNatural ==
    ASSUME NEW T, T \subseteq Nat, T # {}
    PROVE  \E x \in T : \A y \in T : x <= y
<1>1. PICK x \in T : \A y \in T : ~ (<<y, x>> \in OpToRel(<, Nat))
    BY NaturalsAreWellFounded
<1>2. \A y \in T : ~ y < x  BY <1>1, LessIsRelated
<1> QED BY <1>2

(***************************************************************************)
(* Removing from a list.                                                   *)
(***************************************************************************)
LEMMA RemoveAtFacts ==
    ASSUME NEW S, NEW s \in Seq(S), NEW i \in 1 .. Len(s)
    PROVE  /\ RemoveAt(s, i) \in Seq(S)
           /\ Len(RemoveAt(s, i)) = Len(s) - 1
           /\ \A j \in 1 .. Len(s) - 1 :
                  RemoveAt(s, i)[j] = IF j < i THEN s[j] ELSE s[j + 1]
<1> DEFINE a == SubSeq(s, 1, i - 1)
           b == SubSeq(s, i + 1, Len(s))
<1>1. /\ a \in Seq(S) /\ Len(a) = i - 1
      /\ \A j \in 1 .. i - 1 : a[j] = s[j]
    BY DEF a
<1>2. /\ b \in Seq(S) /\ Len(b) = Len(s) - i
      /\ \A j \in 1 .. Len(s) - i : b[j] = s[i + j]
    BY DEF b
<1>3. RemoveAt(s, i) = a \o b  BY DEF RemoveAt
<1> HIDE DEF a, b
<1>4. a \o b \in Seq(S) /\ Len(a \o b) = Len(s) - 1
  <2>1. a \o b \in Seq(S) /\ Len(a \o b) = Len(a) + Len(b)
      BY <1>1, <1>2, ConcatProperties, Zenon
  <2>2. Len(s) \in Nat  OBVIOUS
  <2>3. Len(a) + Len(b) = Len(s) - 1  BY <1>1, <1>2, <2>2
  <2> QED BY <2>1, <2>3
<1>5. \A j \in 1 .. Len(s) - 1 : (a \o b)[j] = IF j < i THEN s[j] ELSE s[j + 1]
  <2> TAKE j \in 1 .. Len(s) - 1
  <2>1. CASE j < i  BY <1>1, <1>2, <2>1
  <2>2. CASE ~ j < i
    <3>1. (a \o b)[j] = b[j - (i - 1)]  BY <1>1, <1>2, <2>2
    <3>2. b[j - (i - 1)] = s[j + 1]  BY <1>2, <2>2
    <3> QED BY <3>1, <3>2, <2>2
  <2> QED BY <2>1, <2>2
<1> QED BY <1>3, <1>4, <1>5

\* From a list without repetitions exactly the element named is gone.
LEMMA RemoveFirstFacts ==
    ASSUME NEW S, NEW s \in Seq(S), IsInjective(s), NEW e
    PROVE  /\ RemoveFirst(s, e) \in Seq(S)
           /\ IsInjective(RemoveFirst(s, e))
           /\ Range(RemoveFirst(s, e)) = Range(s) \ {e}
<1>1. CASE ~ \E i \in 1 .. Len(s) : s[i] = e
  <2>1. RemoveFirst(s, e) = s  BY <1>1 DEF RemoveFirst
  <2>2. e \notin Range(s)  BY <1>1 DEF Range
  <2> QED BY <2>1, <2>2
<1>2. CASE \E i \in 1 .. Len(s) : s[i] = e
  <2> DEFINE I == {i \in 1 .. Len(s) : s[i] = e}
             k == SelectInSeq(s, LAMBDA v : v = e)
             t == RemoveAt(s, k)
  <2>1. I # {} /\ I \subseteq Nat  BY <1>2
  <2>2. k = Min(I)  BY <2>1 DEF SelectInSeq
  <2>3. k \in I  BY <2>1, <2>2, LeastNatural DEF Min
  <2>4. RemoveFirst(s, e) = t  BY <1>2 DEF RemoveFirst
  <2>5. k \in 1 .. Len(s) /\ s[k] = e  BY <2>3
  <2> HIDE DEF k
  <2>6. /\ t \in Seq(S) /\ Len(t) = Len(s) - 1
        /\ \A j \in 1 .. Len(s) - 1 : t[j] = IF j < k THEN s[j] ELSE s[j + 1]
      BY <2>5, RemoveAtFacts
  <2> HIDE DEF t
  <2>7. DOMAIN s = 1 .. Len(s) /\ DOMAIN t = 1 .. Len(s) - 1  BY <2>6
  <2>8. IsInjective(t)
    <3> SUFFICES ASSUME NEW x \in DOMAIN t, NEW y \in DOMAIN t, t[x] = t[y]
                 PROVE  x = y
        BY DEF IsInjective
    <3>1. \A p, q \in 1 .. Len(s) : s[p] = s[q] => p = q  BY <2>7 DEF IsInjective
    <3> QED BY <2>6, <2>7, <2>5, <3>1
  <2>9. ASSUME NEW c \in Range(t) PROVE c \in Range(s) \ {e}
    <3>1. PICK j \in 1 .. Len(s) - 1 : c = t[j]  BY <2>7 DEF Range
    <3>2. PICK p \in 1 .. Len(s) : c = s[p] /\ p # k
      <4>1. CASE j < k  BY <4>1, <3>1, <2>6, <2>5
      <4>2. CASE ~ j < k  BY <4>2, <3>1, <2>6, <2>5
      <4> QED BY <4>1, <4>2
    <3>3. s[p] # s[k]  BY <3>2, <2>5, <2>7 DEF IsInjective
    <3> QED BY <3>2, <3>3, <2>5, <2>7 DEF Range
  <2>10. ASSUME NEW c \in Range(s), c # e PROVE c \in Range(t)
    <3>1. PICK p \in 1 .. Len(s) : c = s[p]  BY <2>7 DEF Range
    <3>2. p # k  BY <3>1, <2>10, <2>5
    <3>3. \E j \in 1 .. Len(s) - 1 : c = t[j]
      <4>1. CASE p < k
        <5>1. p \in 1 .. Len(s) - 1 /\ t[p] = s[p]  BY <4>1, <2>5, <2>6
        <5> QED BY <5>1, <3>1
      <4>2. CASE p > k
        <5>1. p - 1 \in 1 .. Len(s) - 1 /\ t[p - 1] = s[p]  BY <4>2, <2>5, <2>6
        <5> QED BY <5>1, <3>1
      <4> QED BY <4>1, <4>2, <3>2, <2>5
    <3> QED BY <3>3, <2>7 DEF Range
  <2> QED BY <2>4, <2>6, <2>8, <2>9, <2>10
<1> QED BY <1>1, <1>2

\* The function that WithoutFirst chooses, on an initial segment of dead.
IsRest(f, s, dead, m) ==
    f = [n \in 0 .. m |-> IF n = 0 THEN s ELSE RemoveFirst(f[n - 1], dead[n])]

LEMMA RestExists ==
    ASSUME NEW s, NEW dead, NEW m \in Nat
    PROVE  \E f : IsRest(f, s, dead, m)
<1> DEFINE T == {k \in Nat : ~ \E f : IsRest(f, s, dead, k)}
<1> SUFFICES ASSUME T # {} PROVE FALSE  OBVIOUS
<1>1. PICK k \in T : \A y \in T : k <= y  BY LeastNatural
<1>2. CASE k = 0
  <2>1. IsRest([n \in 0 .. 0 |-> s], s, dead, 0)  BY DEF IsRest
  <2> QED BY <1>1, <1>2, <2>1
<1>3. CASE k # 0
  <2>1. k - 1 \in Nat /\ ~ k <= k - 1  BY <1>3
  <2>2. PICK f : IsRest(f, s, dead, k - 1)  BY <1>1, <2>1
  <2> DEFINE g == [n \in 0 .. k |-> IF n = k THEN RemoveFirst(f[k - 1], dead[k])
                                   ELSE f[n]]
  <2>3. ASSUME NEW n \in 0 .. k
        PROVE  g[n] = IF n = 0 THEN s ELSE RemoveFirst(g[n - 1], dead[n])
    <3>1. CASE n = k
      <4>1. g[n] = RemoveFirst(f[k - 1], dead[k])  BY <3>1
      <4>2. g[n - 1] = f[k - 1]  BY <3>1, <1>3
      <4> QED BY <3>1, <1>3, <4>1, <4>2
    <3>2. CASE n # k
      <4>1. n \in 0 .. k - 1  BY <3>2
      <4>2. g[n] = f[n]  BY <3>2
      <4>3. n # 0 => g[n - 1] = f[n - 1]  BY <3>2
      <4>4. f[n] = IF n = 0 THEN s ELSE RemoveFirst(f[n - 1], dead[n])
          BY <4>1, <2>2 DEF IsRest
      <4> QED BY <4>2, <4>3, <4>4
    <3> QED BY <3>1, <3>2
  <2>4. IsRest(g, s, dead, k)  BY <2>3, Zenon DEF IsRest
  <2> QED BY <2>4, <1>1
<1> QED BY <1>2, <1>3

\* Exactly the dead are gone, in whatever order and however often they are named.
LEMMA WithoutFirstFacts ==
    ASSUME NEW S, NEW s \in Seq(S), IsInjective(s), NEW dead \in Seq(S)
    PROVE  /\ WithoutFirst(s, dead) \in Seq(S)
           /\ IsInjective(WithoutFirst(s, dead))
           /\ Range(WithoutFirst(s, dead)) = Range(s) \ Range(dead)
<1> DEFINE f == CHOOSE g : IsRest(g, s, dead, Len(dead))
           Good(n) == /\ f[n] \in Seq(S) /\ IsInjective(f[n])
                      /\ Range(f[n]) = Range(s) \ {dead[i] : i \in 1 .. n}
           T == {n \in Nat : n <= Len(dead) /\ ~ Good(n)}
<1>1. WithoutFirst(s, dead) = f[Len(dead)]  BY DEF WithoutFirst, IsRest
<1>2. IsRest(f, s, dead, Len(dead))
  <2>1. Len(dead) \in Nat  OBVIOUS
  <2>2. \E g : IsRest(g, s, dead, Len(dead))  BY <2>1, RestExists, Zenon
  <2> QED BY <2>2, Zenon
<1> HIDE DEF f
<1>3. \A n \in 0 .. Len(dead) :
          f[n] = IF n = 0 THEN s ELSE RemoveFirst(f[n - 1], dead[n])
    BY <1>2 DEF IsRest
<1>4. T = {}
  <2> SUFFICES ASSUME T # {} PROVE FALSE  OBVIOUS
  <2>1. PICK k \in T : \A y \in T : k <= y  BY LeastNatural
  <2>2. k \in 0 .. Len(dead)  BY <2>1
  <2>3. CASE k = 0
    <3>1. f[0] = s  BY <1>3, <2>2, <2>3
    <3>2. {dead[i] : i \in 1 .. 0} = {}  OBVIOUS
    <3> QED BY <2>1, <2>3, <3>1, <3>2
  <2>4. CASE k # 0
    <3>1. k - 1 \in Nat /\ k - 1 <= Len(dead) /\ ~ k <= k - 1  BY <2>2, <2>4
    <3>2. Good(k - 1)  BY <2>1, <3>1
    <3>3. f[k] = RemoveFirst(f[k - 1], dead[k])  BY <1>3, <2>2, <2>4
    <3>4. /\ f[k] \in Seq(S) /\ IsInjective(f[k])
          /\ Range(f[k]) = Range(f[k - 1]) \ {dead[k]}
        BY <3>2, <3>3, RemoveFirstFacts
    <3>5. {dead[i] : i \in 1 .. k} = {dead[i] : i \in 1 .. k - 1} \cup {dead[k]}
        BY <2>2, <2>4
    <3>6. Good(k)  BY <3>2, <3>4, <3>5
    <3> QED BY <3>6, <2>1
  <2> QED BY <2>3, <2>4
<1>5. Good(Len(dead))
  <2>1. Len(dead) \in Nat /\ Len(dead) <= Len(dead)  OBVIOUS
  <2>2. Len(dead) \notin T  BY <1>4
  <2> QED BY <2>1, <2>2
<1>6. Range(dead) = {dead[i] : i \in 1 .. Len(dead)}  BY DEF Range
<1> QED BY <1>1, <1>5, <1>6

-----------------------------------------------------------------------------
(***************************************************************************)
(* NothingMissed is not inductive: a broadcast that begins must find the   *)
(* page among the registered, and none that ends may take it out.          *)
(***************************************************************************)
Connected(c) == link[c] \in {"open", "stalled"}

Registration ==
    \A c \in Clients :
        /\ Connected(c) => c \in Range(active)
        /\ link[c] = "new" => c \notin Range(active) /\ stage[c] = "none"

DeadIsLost ==
    \A cast \in casts : \A i \in DOMAIN cast.dead : link[cast.dead[i]] = "lost"

IInv ==
    /\ TypeOK /\ version <= MaxVersion
    /\ Registration
    /\ DeadIsLost
    /\ NothingMissed

(***************************************************************************)
(* The threads.                                                            *)
(***************************************************************************)
LEMMA InitIInv == Init => IInv
<1> SUFFICES ASSUME Init PROVE IInv  OBVIOUS
<1> USE MaxVersionAssumption DEF Init
<1>1. TypeOK /\ version <= MaxVersion  BY DEF TypeOK, IsInjective
<1>2. Registration /\ DeadIsLost  BY DEF Registration, DeadIsLost, Connected, Range
<1>3. NothingMissed  BY DEF NothingMissed
<1> QED BY <1>1, <1>2, <1>3 DEF IInv

\* A change by whomever keeps what is on its way, if it is announced in due course.
LEMMA ChangeIInv ==
    ASSUME IInv, version < MaxVersion, version' = version + 1,
           announced' \in {announced, version'},
           due' \in [Threads -> 0 .. version'], held' \in [Threads -> 0 .. version'],
           announced' = announced => UNCHANGED <<due, held>>,
           announced' = version' => \E t \in Threads : due'[t] = version' \/ held'[t] = version',
           UNCHANGED <<waiting, casts, active, link, stage, snapshot, shown, best>>
    PROVE  IInv'
<1>1. /\ version \in Nat /\ version >= 1 /\ version' \in Nat \ {0} /\ version' <= MaxVersion
      /\ announced \in 1 .. version
    BY MaxVersionAssumption DEF IInv, TypeOK
<1>2. 0 .. version \subseteq 0 .. version' /\ 1 .. version \subseteq 1 .. version'
    BY <1>1
<1>3. TypeOK'
  <2>1. waiting' \in Seq(1 .. version')
    <3>1. waiting \in Seq(1 .. version)  BY DEF IInv, TypeOK
    <3> QED BY <1>2, <3>1, SeqMonotonic
  <2>2. announced' \in 1 .. version'  BY <1>1, <1>2
  <2>3. \A cast \in casts' : cast \in Casts /\ cast.row <= version'
      BY <1>1 DEF IInv, TypeOK, Casts, Versions
  <2>4. /\ snapshot' \in [Clients -> 0 .. version']
        /\ shown' \in [Clients -> 0 .. version']
        /\ best' \in [Clients -> 0 .. version']
      BY <1>2 DEF IInv, TypeOK
  <2> QED BY <1>1, <2>1, <2>2, <2>3, <2>4 DEF IInv, TypeOK
<1>4. Registration' /\ DeadIsLost'
    BY DEF IInv, Registration, DeadIsLost, Connected
<1>5. NothingMissed'
  <2>1. CASE announced' = version'
    <3>1. PICK t \in Threads : due'[t] = version' \/ held'[t] = version'  BY <2>1
    <3>2. due'[t] >= announced' \/ held'[t] >= announced'  BY <1>1, <2>1, <3>1
    <3> QED BY <3>2 DEF NothingMissed, OnItsWay
  <2>2. CASE announced' = announced
      BY <2>2 DEF IInv, NothingMissed, OnItsWay
  <2> QED BY <2>1, <2>2
<1> QED BY <1>1, <1>3, <1>4, <1>5 DEF IInv

LEMMA AnnouncedIInv == ASSUME IInv, NEW t \in Threads, Start(t) \/ Change(t) PROVE IInv'
<1>1. /\ version \in Nat /\ version' = version + 1 /\ announced' = version'
      /\ held \in [Threads -> 0 .. version] /\ due \in [Threads -> 0 .. version]
    BY DEF IInv, TypeOK, Start, Change
<1>2. /\ [held EXCEPT ![t] = version'] \in [Threads -> 0 .. version']
      /\ [due EXCEPT ![t] = version'] \in [Threads -> 0 .. version']
      /\ held \in [Threads -> 0 .. version'] /\ due \in [Threads -> 0 .. version']
    BY <1>1
<1>3. announced' # announced  BY <1>1 DEF IInv, TypeOK
<1>4. CASE Start(t)
  <2>1. held' = [held EXCEPT ![t] = version'] /\ due' = due  BY <1>4 DEF Start
  <2>2. held'[t] = version'  BY <1>1, <2>1
  <2>3. version < MaxVersion
        /\ UNCHANGED <<waiting, casts, active, link, stage, snapshot, shown, best>>
      BY <1>4 DEF Start
  <2> QED BY <1>1, <1>2, <1>3, <2>1, <2>2, <2>3, ChangeIInv
<1>5. CASE Change(t)
  <2>1. due' = [due EXCEPT ![t] = version'] /\ held' = held  BY <1>5 DEF Change
  <2>2. due'[t] = version'  BY <1>1, <2>1
  <2>3. version < MaxVersion
        /\ UNCHANGED <<waiting, casts, active, link, stage, snapshot, shown, best>>
      BY <1>5 DEF Change
  <2> QED BY <1>1, <1>2, <1>3, <2>1, <2>2, <2>3, ChangeIInv
<1> QED BY <1>4, <1>5

LEMMA ScanIInv == ASSUME IInv, Scan PROVE IInv'
<1>1. /\ version \in Nat /\ version' = version + 1 /\ announced' # version'
      /\ due' \in [Threads -> 0 .. version'] /\ held' \in [Threads -> 0 .. version']
    BY DEF IInv, TypeOK, Scan
<1> QED BY <1>1, ChangeIInv DEF Scan

LEMMA CopyRowIInv == ASSUME IInv, NEW t \in Threads, CopyRow(t) PROVE IInv'
<1> USE DEF CopyRow
<1>1. /\ version \in Nat \ {0} /\ announced \in 1 .. version
      /\ held \in [Threads -> 0 .. version] /\ due \in [Threads -> 0 .. version]
    BY DEF IInv, TypeOK
<1>2. held'[t] >= announced /\ \A u \in Threads \ {t} : held'[u] = held[u] /\ due'[u] = due[u]
    BY <1>1
<1>3. TypeOK'  BY <1>1 DEF IInv, TypeOK
<1>4. Registration' /\ DeadIsLost'
    BY DEF IInv, Registration, DeadIsLost, Connected
<1>5. NothingMissed'  BY <1>2 DEF NothingMissed, OnItsWay
<1> QED BY <1>3, <1>4, <1>5 DEF IInv

LEMMA BroadcastIInv == ASSUME IInv, NEW t \in Threads, Broadcast(t) PROVE IInv'
<1> USE DEF Broadcast
<1>1. /\ version \in Nat /\ held[t] \in 1 .. version /\ waiting \in Seq(1 .. version)
      /\ held \in [Threads -> 0 .. version]
    BY DEF IInv, TypeOK
<1>2. /\ waiting' \in Seq(1 .. version) /\ Len(waiting') = Len(waiting) + 1
      /\ \A i \in 1 .. Len(waiting) : waiting'[i] = waiting[i]
      /\ waiting'[Len(waiting) + 1] = held[t]
    BY <1>1, AppendProperties
<1>3. TypeOK'  BY <1>1, <1>2 DEF IInv, TypeOK
<1>4. Registration' /\ DeadIsLost'
    BY DEF IInv, Registration, DeadIsLost, Connected
<1>5. NothingMissed'
  <2> SUFFICES ASSUME NEW c \in Clients, Connected(c), ~ best[c] >= announced
               PROVE  OnItsWay(c, announced)'
      BY DEF NothingMissed, Connected
  <2>1. OnItsWay(c, announced)  BY DEF IInv, NothingMissed, Connected
  <2>4. CASE \E u \in Threads : due[u] >= announced  BY <2>4 DEF OnItsWay
  <2>2. CASE \E u \in Threads : held[u] >= announced
    <3>1. PICK u \in Threads : held[u] >= announced  BY <2>2
    <3>2. CASE u = t
      <4>1. waiting'[Len(waiting) + 1] >= announced  BY <1>2, <3>1, <3>2
      <4>2. Len(waiting) + 1 \in DOMAIN waiting'  BY <1>1, <1>2
      <4> QED BY <4>1, <4>2 DEF OnItsWay
    <3>3. CASE u # t  BY <1>1, <3>1, <3>3 DEF OnItsWay
    <3> QED BY <3>2, <3>3
  <2>3. CASE \E i \in DOMAIN waiting : waiting[i] >= announced
    <3>1. PICK i \in DOMAIN waiting : waiting[i] >= announced  BY <2>3
    <3>2. i \in DOMAIN waiting' /\ waiting'[i] >= announced  BY <1>1, <1>2, <3>1
    <3> QED BY <3>2 DEF OnItsWay
  <2> QED BY <2>1, <2>2, <2>3, <2>4 DEF OnItsWay
<1> QED BY <1>3, <1>4, <1>5 DEF IInv

LEMMA BeginCastIInv == ASSUME IInv, BeginCast PROVE IInv'
<1> USE DEF BeginCast
<1> DEFINE new == [row |-> Head(waiting), left |-> active, dead |-> <<>>]
<1>1. /\ version \in Nat /\ version >= 1 /\ version <= MaxVersion
      /\ waiting \in Seq(1 .. version) /\ waiting # <<>>
      /\ active \in Seq(Clients)
    BY DEF IInv, TypeOK
<1>2. /\ Head(waiting) \in 1 .. version /\ Head(waiting) = waiting[1]
      /\ waiting' \in Seq(1 .. version) /\ Len(waiting') = Len(waiting) - 1
      /\ \A i \in 1 .. Len(waiting) - 1 : waiting'[i] = waiting[i + 1]
    BY <1>1
<1>3. new \in Casts /\ new.row <= version
    BY <1>1, <1>2, MaxVersionAssumption DEF Casts, Versions
<1>4. casts' \subseteq casts \cup {new}  OBVIOUS
<1>5. TypeOK'
  <2>1. \A cast \in casts' : cast \in Casts /\ cast.row <= version
      BY <1>3, <1>4 DEF IInv, TypeOK
  <2> QED BY <1>2, <2>1 DEF IInv, TypeOK
<1>6. Registration'  BY DEF IInv, Registration, Connected
<1>7. DeadIsLost'  BY <1>4 DEF IInv, DeadIsLost
<1>8. NothingMissed'
  <2> SUFFICES ASSUME NEW c \in Clients, Connected(c), ~ best[c] >= announced
               PROVE  OnItsWay(c, announced)'
      BY DEF NothingMissed, Connected
  <2>1. OnItsWay(c, announced)  BY DEF IInv, NothingMissed, Connected
  <2>2. CASE \E i \in DOMAIN waiting : waiting[i] >= announced
    <3>1. PICK i \in DOMAIN waiting : waiting[i] >= announced  BY <2>2
    <3>2. CASE i = 1
      <4>1. c \in Range(active)  BY DEF IInv, Registration
      <4>2. active # <<>>  BY <4>1 DEF Range
      <4>3. new \in casts'  BY <4>2
      <4>4. new.row >= announced /\ c \in Range(new.left)  BY <1>2, <3>1, <3>2, <4>1
      <4> QED BY <4>3, <4>4 DEF OnItsWay
    <3>3. CASE i # 1
      <4>1. i - 1 \in 1 .. Len(waiting) - 1  BY SMTT(30), <1>1, <3>1, <3>3
      <4>2. i - 1 \in DOMAIN waiting' /\ waiting'[i - 1] >= announced
        <5>1. DOMAIN waiting' = 1 .. Len(waiting) - 1  BY <1>2
        <5>2. waiting'[i - 1] = waiting[i]
          <6>1. (i - 1) + 1 = i  BY <1>1, <3>1
          <6> QED BY <1>2, <4>1, <6>1
        <5> QED BY <3>1, <4>1, <5>1, <5>2
      <4> QED BY <4>2 DEF OnItsWay
    <3> QED BY <3>2, <3>3
  <2>3. CASE \E cast \in casts : cast.row >= announced /\ c \in Range(cast.left)
      BY <2>3 DEF OnItsWay
  <2> QED BY <2>1, <2>2, <2>3 DEF OnItsWay
<1> QED BY <1>1, <1>5, <1>6, <1>7, <1>8 DEF IInv

(***************************************************************************)
(* The broadcasts.                                                         *)
(***************************************************************************)
LEMMA CastType ==
    ASSUME IInv, NEW cast \in casts
    PROVE  /\ cast = [row |-> cast.row, left |-> cast.left, dead |-> cast.dead]
           /\ cast.row \in Versions /\ cast.row <= version
           /\ cast.left \in Seq(Clients) /\ cast.dead \in Seq(Clients)
BY DEF IInv, TypeOK, Casts

LEMMA TailFacts ==
    ASSUME NEW S, NEW s \in Seq(S), s # <<>>
    PROVE  /\ Head(s) \in S /\ Tail(s) \in Seq(S)
           /\ Range(s) = {Head(s)} \cup Range(Tail(s))
<1>1. /\ Head(s) \in S /\ Head(s) = s[1] /\ Tail(s) \in Seq(S)
      /\ Len(Tail(s)) = Len(s) - 1
      /\ \A i \in 1 .. Len(s) - 1 : Tail(s)[i] = s[i + 1]
    OBVIOUS
<1>2. DOMAIN s = 1 .. Len(s) /\ DOMAIN Tail(s) = 1 .. Len(s) - 1 /\ Len(s) \in Nat \ {0}
    BY <1>1
<1>3. ASSUME NEW c \in Range(s) PROVE c = Head(s) \/ c \in Range(Tail(s))
  <2>1. PICK i \in 1 .. Len(s) : c = s[i]  BY <1>2 DEF Range
  <2>2. i = 1 \/ (i - 1 \in 1 .. Len(s) - 1 /\ Tail(s)[i - 1] = s[i])  BY <1>1, <1>2
  <2> QED BY <2>1, <2>2, <1>1, <1>2 DEF Range
<1>4. ASSUME NEW c \in Range(Tail(s)) PROVE c \in Range(s)
  <2>1. PICK i \in 1 .. Len(s) - 1 : c = Tail(s)[i]  BY <1>2 DEF Range
  <2>2. i + 1 \in 1 .. Len(s) /\ s[i + 1] = c  BY <1>1, <1>2, <2>1
  <2> QED BY <2>2, <1>2 DEF Range
<1>5. Head(s) \in Range(s)  BY <1>1, <1>2 DEF Range
<1> QED BY <1>1, <1>3, <1>4, <1>5

LEMMA LaterFacts ==
    ASSUME NEW v \in Nat, NEW w \in Nat
    PROVE  Later(v, w) \in {v, w} /\ Later(v, w) >= v /\ Later(v, w) >= w
BY DEF Later

LEMMA TellFacts ==
    ASSUME IInv, NEW c \in Clients, NEW row \in 0 .. version, Tell(c, row)
    PROVE  /\ shown' \in [Clients -> 0 .. version]
           /\ best' \in [Clients -> 0 .. version]
           /\ best'[c] >= row
           /\ \A d \in Clients : best'[d] >= best[d]
<1>1. /\ version \in Nat /\ shown \in [Clients -> 0 .. version]
      /\ best \in [Clients -> 0 .. version]
    BY DEF IInv, TypeOK
<1>2. /\ Later(best[c], row) \in 0 .. version
      /\ Later(best[c], row) >= best[c] /\ Later(best[c], row) >= row
    BY <1>1, LaterFacts
<1>3. best' = [best EXCEPT ![c] = Later(best[c], row)]  BY DEF Tell
<1> QED BY <1>1, <1>2, <1>3 DEF Tell

LEMMA SendIInv == ASSUME IInv, NEW cast \in casts, Send(cast) PROVE IInv'
<1> DEFINE h == Head(cast.left)
           next == [cast EXCEPT !.left = Tail(@)]
<1>1. /\ version \in Nat /\ version <= MaxVersion /\ cast.row \in 1 .. version
      /\ announced \in 1 .. version
      /\ best \in [Clients -> 0 .. version]
    BY CastType DEF IInv, TypeOK, Versions
<1>2. /\ h \in Clients /\ Tail(cast.left) \in Seq(Clients)
      /\ Range(cast.left) = {h} \cup Range(Tail(cast.left))
    BY CastType, TailFacts DEF Send
<1>3. /\ next \in Casts /\ next.row = cast.row
      /\ next.left = Tail(cast.left) /\ next.dead = cast.dead
  <2>1. cast \in Casts  BY DEF IInv, TypeOK
  <2> QED BY <1>2, <2>1 DEF Casts
<1> HIDE DEF next
<1>4. casts' = (casts \ {cast}) \cup {next}  BY DEF Send, Proceed, next
<1>5. /\ shown' \in [Clients -> 0 .. version]
      /\ best' \in [Clients -> 0 .. version]
      /\ best'[h] >= cast.row
      /\ \A d \in Clients : best'[d] >= best[d]
    BY <1>1, <1>2, TellFacts DEF Send
<1>6. TypeOK'
  <2>1. next \in Casts /\ next.row <= version  BY <1>3, CastType
  <2>2. \A k \in casts' : k \in Casts /\ k.row <= version
      BY <1>4, <2>1 DEF IInv, TypeOK
  <2> QED BY <1>5, <2>2 DEF IInv, TypeOK, Send
<1>7. Registration'  BY DEF IInv, Registration, Connected, Send
<1>8. DeadIsLost'  BY <1>3, <1>4 DEF IInv, DeadIsLost, Send
<1>9. NothingMissed'
  <2> SUFFICES ASSUME NEW c \in Clients, Connected(c), ~ best'[c] >= announced
               PROVE  OnItsWay(c, announced)'
      BY DEF NothingMissed, Connected, Send
  <2>1. ~ best[c] >= announced  BY <1>1, <1>5
  <2>2. OnItsWay(c, announced)  BY <2>1 DEF IInv, NothingMissed, Connected
  <2>3. CASE \E k \in casts : k.row >= announced /\ c \in Range(k.left)
    <3>1. PICK k \in casts : k.row >= announced /\ c \in Range(k.left)  BY <2>3
    <3>2. CASE k # cast  BY <3>1, <3>2, <1>4 DEF OnItsWay, Send
    <3>3. CASE k = cast
      <4>1. c # h  BY <3>1, <3>3, <1>1, <1>5
      <4>2. next.row >= announced /\ c \in Range(next.left)
          BY <3>1, <3>3, <4>1, <1>2, <1>3
      <4> QED BY <4>2, <1>4 DEF OnItsWay, Send
    <3> QED BY <3>2, <3>3
  <2> QED BY <2>2, <2>3 DEF OnItsWay, Send
<1> QED BY <1>1, <1>6, <1>7, <1>8, <1>9 DEF IInv, Send

LEMMA SendFailsIInv == ASSUME IInv, NEW cast \in casts, SendFails(cast) PROVE IInv'
<1> DEFINE h == Head(cast.left)
           next == [cast EXCEPT !.left = Tail(@), !.dead = Append(@, h)]
<1>1. /\ h \in Clients /\ Tail(cast.left) \in Seq(Clients)
      /\ Range(cast.left) = {h} \cup Range(Tail(cast.left))
    BY CastType, TailFacts DEF SendFails
<1>2. /\ Append(cast.dead, h) \in Seq(Clients)
      /\ DOMAIN Append(cast.dead, h) = 1 .. Len(cast.dead) + 1
      /\ \A i \in 1 .. Len(cast.dead) : Append(cast.dead, h)[i] = cast.dead[i]
      /\ Append(cast.dead, h)[Len(cast.dead) + 1] = h
    BY <1>1, CastType
<1>3. /\ next \in Casts /\ next.row = cast.row
      /\ next.left = Tail(cast.left) /\ next.dead = Append(cast.dead, h)
  <2>1. cast \in Casts  BY DEF IInv, TypeOK
  <2> QED BY <1>1, <1>2, <2>1 DEF Casts
<1>4. casts' = (casts \ {cast}) \cup {next}  BY DEF SendFails, Proceed
<1> HIDE DEF next
<1>5. TypeOK'
  <2>1. next \in Casts /\ next.row <= version
      BY <1>3, CastType
  <2>2. \A k \in casts' : k \in Casts /\ k.row <= version
      BY <1>4, <2>1 DEF IInv, TypeOK
  <2> QED BY <2>2 DEF IInv, TypeOK, SendFails
<1>6. Registration'  BY DEF IInv, Registration, Connected, SendFails
<1>7. DeadIsLost'
  <2>1. link[h] = "lost"  BY DEF SendFails
  <2>2. \A i \in 1 .. Len(cast.dead) : link[cast.dead[i]] = "lost"
      BY CastType DEF IInv, DeadIsLost
  <2>3. \A i \in DOMAIN next.dead : link[next.dead[i]] = "lost"
    <3> SUFFICES ASSUME NEW i \in 1 .. Len(cast.dead) + 1
                 PROVE  link[Append(cast.dead, h)[i]] = "lost"
        BY <1>2, <1>3
    <3>1. Len(cast.dead) \in Nat  BY CastType
    <3>2. i \in 1 .. Len(cast.dead) \/ i = Len(cast.dead) + 1  BY <3>1
    <3> QED BY <3>2, <1>2, <2>1, <2>2
  <2> QED BY <1>4, <2>3 DEF IInv, DeadIsLost, SendFails
<1>8. NothingMissed'
  <2> SUFFICES ASSUME NEW c \in Clients, Connected(c), ~ best[c] >= announced
               PROVE  OnItsWay(c, announced)'
      BY DEF NothingMissed, Connected, SendFails
  <2>1. OnItsWay(c, announced)  BY DEF IInv, NothingMissed, Connected
  <2>2. CASE \E k \in casts : k.row >= announced /\ c \in Range(k.left)
    <3>1. PICK k \in casts : k.row >= announced /\ c \in Range(k.left)  BY <2>2
    <3>2. CASE k # cast  BY <3>1, <3>2, <1>4 DEF OnItsWay, SendFails
    <3>3. CASE k = cast
      <4>1. c # h  BY DEF Connected, SendFails
      <4>2. next.row >= announced /\ c \in Range(next.left)
          BY <3>1, <3>3, <4>1, <1>1, <1>3
      <4> QED BY <4>2, <1>4 DEF OnItsWay, SendFails
    <3> QED BY <3>2, <3>3
  <2> QED BY <2>1, <2>2 DEF OnItsWay, SendFails
<1> QED BY <1>5, <1>6, <1>7, <1>8 DEF IInv, SendFails

LEMMA EndCastIInv == ASSUME IInv, NEW cast \in casts, EndCast(cast) PROVE IInv'
<1>1. active \in Seq(Clients) /\ IsInjective(active) /\ cast.dead \in Seq(Clients)
    BY CastType DEF IInv, TypeOK
<1>2. /\ active' \in Seq(Clients) /\ IsInjective(active')
      /\ Range(active') = Range(active) \ Range(cast.dead)
    BY <1>1, WithoutFirstFacts DEF EndCast
<1>3. casts' \subseteq casts  BY DEF EndCast
<1>4. TypeOK'
  <2>1. \A k \in casts' : k \in Casts /\ k.row <= version  BY <1>3 DEF IInv, TypeOK
  <2> QED BY <1>2, <2>1 DEF IInv, TypeOK, EndCast
<1>5. Registration'
  <2>1. \A c \in Range(cast.dead) : link[c] = "lost"  BY DEF IInv, DeadIsLost, Range
  <2> QED BY <1>2, <2>1 DEF IInv, Registration, Connected, EndCast
<1>6. DeadIsLost'  BY <1>3 DEF IInv, DeadIsLost, EndCast
<1>7. NothingMissed'
  <2>1. \A c : c \notin Range(cast.left)  BY DEF EndCast, Range
  <2> QED BY <2>1 DEF IInv, NothingMissed, OnItsWay, EndCast
<1> QED BY <1>4, <1>5, <1>6, <1>7 DEF IInv, EndCast

(***************************************************************************)
(* The endpoint and the connections.                                       *)
(***************************************************************************)
LEMMA ConnectIInv == ASSUME IInv, NEW c \in Clients, Connect(c) PROVE IInv'
<1> USE DEF Connect
<1>1. active \in Seq(Clients) /\ IsInjective(active) /\ c \notin Range(active)
    BY DEF IInv, TypeOK, Registration
<1>2. /\ active' \in Seq(Clients)
      /\ DOMAIN active = 1 .. Len(active) /\ Len(active) \in Nat
      /\ DOMAIN active' = 1 .. Len(active) + 1
      /\ \A i \in 1 .. Len(active) : active'[i] = active[i]
      /\ active'[Len(active) + 1] = c
    BY <1>1
<1>3. IsInjective(active')
  <2> SUFFICES ASSUME NEW i \in DOMAIN active', NEW j \in DOMAIN active',
                      active'[i] = active'[j]
               PROVE  i = j
      BY DEF IsInjective
  <2>1. \A k \in 1 .. Len(active) : active[k] # c  BY <1>1, <1>2 DEF Range
  <2>2. \A k, l \in 1 .. Len(active) : active[k] = active[l] => k = l
      BY <1>1, <1>2 DEF IsInjective
  <2>3. /\ i \in 1 .. Len(active) \/ i = Len(active) + 1
        /\ j \in 1 .. Len(active) \/ j = Len(active) + 1
      BY <1>2
  <2> QED BY <1>2, <2>1, <2>2, <2>3
<1>4. Range(active') = Range(active) \cup {c}
  <2>1. \A d \in Range(active') : d \in Range(active) \cup {c}
    <3> SUFFICES ASSUME NEW i \in DOMAIN active'
                 PROVE  active'[i] \in Range(active) \cup {c}
        BY DEF Range
    <3>1. i \in 1 .. Len(active) \/ i = Len(active) + 1  BY <1>2
    <3> QED BY <3>1, <1>2 DEF Range
  <2>2. \A d \in Range(active) : d \in Range(active')
    <3> SUFFICES ASSUME NEW i \in DOMAIN active PROVE active[i] \in Range(active')
        BY DEF Range
    <3>1. i \in DOMAIN active' /\ active'[i] = active[i]  BY <1>2
    <3> QED BY <3>1 DEF Range
  <2>3. c \in Range(active')
    <3>1. Len(active) + 1 \in DOMAIN active'  BY <1>2
    <3> QED BY <3>1, <1>2 DEF Range
  <2> QED BY <2>1, <2>2, <2>3
<1>5. TypeOK'  BY <1>2, <1>3 DEF IInv, TypeOK
<1>6. Registration'  BY <1>4 DEF IInv, TypeOK, Registration, Connected
<1>7. DeadIsLost'
  <2> SUFFICES ASSUME NEW k \in casts, NEW i \in DOMAIN k.dead
               PROVE  link'[k.dead[i]] = "lost"
      BY DEF DeadIsLost
  <2>1. link[k.dead[i]] = "lost"  BY DEF IInv, DeadIsLost
  <2> QED BY <2>1 DEF IInv, TypeOK
<1>8. NothingMissed'
  <2> SUFFICES ASSUME NEW d \in Clients, Connected(d)', ~ best[d] >= announced
               PROVE  OnItsWay(d, announced)'
      BY DEF NothingMissed, Connected
  <2>1. CASE d = c  BY <2>1 DEF IInv, TypeOK, OnItsWay
  <2>2. CASE d # c
    <3>1. Connected(d)  BY <2>2 DEF IInv, TypeOK, Connected
    <3>2. OnItsWay(d, announced)  BY <3>1 DEF IInv, NothingMissed, Connected
    <3>3. stage'[d] = stage[d]  BY <2>2 DEF IInv, TypeOK
    <3> QED BY <3>2, <3>3 DEF OnItsWay
  <2> QED BY <2>1, <2>2
<1> QED BY <1>5, <1>6, <1>7, <1>8 DEF IInv

LEMMA TakeSnapshotIInv == ASSUME IInv, NEW c \in Clients, TakeSnapshot(c) PROVE IInv'
<1> USE DEF TakeSnapshot
<1>1. version \in Nat  BY DEF IInv, TypeOK
<1>2. TypeOK'  BY <1>1 DEF IInv, TypeOK
<1>3. Registration' /\ DeadIsLost'
    BY DEF IInv, TypeOK, Registration, DeadIsLost, Connected
<1>4. NothingMissed'
  <2> SUFFICES ASSUME NEW d \in Clients, Connected(d), ~ best[d] >= announced
               PROVE  OnItsWay(d, announced)'
      BY DEF NothingMissed, Connected
  <2>1. CASE d = c  BY <1>1, <2>1 DEF IInv, TypeOK, OnItsWay
  <2>2. CASE d # c
    <3>1. OnItsWay(d, announced)  BY DEF IInv, NothingMissed, Connected
    <3>2. stage'[d] = stage[d] /\ snapshot'[d] = snapshot[d]
        BY <2>2 DEF IInv, TypeOK
    <3> QED BY <3>1, <3>2 DEF OnItsWay
  <2> QED BY <2>1, <2>2
<1> QED BY <1>2, <1>3, <1>4 DEF IInv

LEMMA SendSnapshotIInv == ASSUME IInv, NEW c \in Clients, SendSnapshot(c) PROVE IInv'
<1> USE DEF SendSnapshot
<1>1. /\ version \in Nat /\ announced \in 1 .. version /\ snapshot[c] \in 0 .. version
      /\ best \in [Clients -> 0 .. version] /\ snapshot \in [Clients -> 0 .. version]
    BY DEF IInv, TypeOK
<1>2. /\ shown' \in [Clients -> 0 .. version]
      /\ best' \in [Clients -> 0 .. version]
      /\ best'[c] >= snapshot[c]
      /\ \A d \in Clients : best'[d] >= best[d]
    BY <1>1, TellFacts
<1>6. snapshot' \in [Clients -> 0 .. version]  BY <1>1
<1>3. TypeOK'  BY <1>2, <1>6 DEF IInv, TypeOK
<1>4. Registration' /\ DeadIsLost'
    BY DEF IInv, TypeOK, Registration, DeadIsLost, Connected
<1>5. NothingMissed'
  <2> SUFFICES ASSUME NEW d \in Clients, Connected(d), ~ best'[d] >= announced
               PROVE  OnItsWay(d, announced)'
      BY DEF NothingMissed, Connected
  <2>1. ~ best[d] >= announced  BY <1>1, <1>2
  <2>2. OnItsWay(d, announced)  BY <2>1 DEF IInv, NothingMissed, Connected
  <2>3. CASE d = c
    <3>1. stage[d] = "taken" /\ ~ snapshot[d] >= announced  BY <1>1, <1>2, <2>3
    <3> QED BY <2>2, <3>1 DEF OnItsWay
  <2>4. CASE d # c
    <3>1. stage'[d] = stage[d] /\ snapshot'[d] = snapshot[d]
        BY <2>4 DEF IInv, TypeOK
    <3> QED BY <2>2, <3>1 DEF OnItsWay
  <2> QED BY <2>3, <2>4
<1> QED BY <1>3, <1>4, <1>5 DEF IInv

LEMMA SnapshotFailsIInv == ASSUME IInv, NEW c \in Clients, SnapshotFails(c) PROVE IInv'
<1> USE DEF SnapshotFails
<1>1. TypeOK'  BY DEF IInv, TypeOK
<1>2. Registration' /\ DeadIsLost'
    BY DEF IInv, TypeOK, Registration, DeadIsLost, Connected
<1>3. NothingMissed'
  <2> SUFFICES ASSUME NEW d \in Clients, Connected(d), ~ best[d] >= announced
               PROVE  OnItsWay(d, announced)'
      BY DEF NothingMissed, Connected
  <2>1. OnItsWay(d, announced)  BY DEF IInv, NothingMissed, Connected
  <2>2. d # c  BY DEF Connected
  <2>3. stage'[d] = stage[d] /\ snapshot'[d] = snapshot[d]
      BY <2>2 DEF IInv, TypeOK
  <2> QED BY <2>1, <2>3 DEF OnItsWay
<1> QED BY <1>1, <1>2, <1>3 DEF IInv

LEMMA DisconnectIInv == ASSUME IInv, NEW c \in Clients, Disconnect(c) PROVE IInv'
<1> USE DEF Disconnect
<1>1. active \in Seq(Clients) /\ IsInjective(active)  BY DEF IInv, TypeOK
<1>2. /\ active' \in Seq(Clients) /\ IsInjective(active')
      /\ Range(active') = Range(active) \ {c}
    BY <1>1, RemoveFirstFacts
<1>3. TypeOK'  BY <1>2 DEF IInv, TypeOK
<1>4. Registration'  BY <1>2 DEF IInv, TypeOK, Registration, Connected
<1>5. DeadIsLost'  BY DEF IInv, DeadIsLost
<1>6. NothingMissed'
  <2> SUFFICES ASSUME NEW d \in Clients, Connected(d), ~ best[d] >= announced
               PROVE  OnItsWay(d, announced)'
      BY DEF NothingMissed, Connected
  <2>1. OnItsWay(d, announced)  BY DEF IInv, NothingMissed, Connected
  <2>2. d # c  BY DEF Connected
  <2>3. stage'[d] = stage[d]  BY <2>2 DEF IInv, TypeOK
  <2> QED BY <2>1, <2>3 DEF OnItsWay
<1> QED BY <1>3, <1>4, <1>5, <1>6 DEF IInv

LEMMA LinkIInv == ASSUME IInv, NEW c \in Clients, Lose(c) \/ Stall(c) PROVE IInv'
<1> USE DEF Lose, Stall
<1>1. /\ link \in [Clients -> {"new", "open", "stalled", "lost"}]
      /\ link' \in [Clients -> {"new", "open", "stalled", "lost"}]
      /\ \A d \in Clients : Connected(d)' => Connected(d)
      /\ \A d \in Clients : link'[d] = "new" => link[d] = "new"
      /\ \A d \in Clients : link[d] = "lost" => link'[d] = "lost"
    BY DEF IInv, TypeOK, Connected
<1>2. UNCHANGED <<version, announced, due, held, waiting, casts, active, stage, snapshot>>
    OBVIOUS
<1>3. /\ shown' \in [Clients -> 0 .. version]
      /\ best' \in [Clients -> 0 .. version]
      /\ \A d \in Clients : Connected(d)' => best'[d] = best[d]
  <2>1. /\ version \in Nat /\ shown \in [Clients -> 0 .. version]
        /\ best \in [Clients -> 0 .. version]
        /\ link \in [Clients -> {"new", "open", "stalled", "lost"}]
      BY DEF IInv, TypeOK
  <2>2. CASE Stall(c)  BY <2>1, <2>2 DEF Connected
  <2>3. CASE Lose(c)
    <3>1. /\ [shown EXCEPT ![c] = 0] \in [Clients -> 0 .. version]
          /\ [best EXCEPT ![c] = 0] \in [Clients -> 0 .. version]
        BY <2>1
    <3>2. ~ Connected(c)'  BY <2>1, <2>3 DEF Connected
    <3> QED BY <2>1, <2>3, <3>1, <3>2
  <2> QED BY <2>2, <2>3
<1>4. TypeOK'  BY <1>1, <1>2, <1>3 DEF IInv, TypeOK
<1>5. Registration'  BY <1>1, <1>2 DEF IInv, Registration
<1>6. DeadIsLost'
  <2> SUFFICES ASSUME NEW k \in casts, NEW i \in DOMAIN k.dead
               PROVE  link'[k.dead[i]] = "lost"
      BY <1>2 DEF DeadIsLost
  <2>1. k.dead[i] \in Clients  BY CastType
  <2> QED BY <1>1, <2>1 DEF IInv, DeadIsLost
<1>7. NothingMissed'
    BY <1>1, <1>2, <1>3 DEF IInv, NothingMissed, OnItsWay, Connected
<1> QED BY <1>2, <1>4, <1>5, <1>6, <1>7 DEF IInv

LEMMA StutterIInv == ASSUME IInv, UNCHANGED vars PROVE IInv'
BY DEF vars, IInv, TypeOK, Registration, DeadIsLost, NothingMissed, OnItsWay, Connected

LEMMA NextIInv == ASSUME IInv, [Next]_vars PROVE IInv'
<1>1. ASSUME NEW t \in Threads, Start(t) \/ Change(t) \/ CopyRow(t) \/ Broadcast(t)
      PROVE  IInv'
    BY <1>1, AnnouncedIInv, CopyRowIInv, BroadcastIInv
<1>6. CASE Scan  BY <1>6, ScanIInv
<1>2. CASE BeginCast  BY <1>2, BeginCastIInv
<1>3. CASE Cast  BY <1>3, SendIInv, SendFailsIInv, EndCastIInv DEF Cast
<1>4. ASSUME NEW c \in Clients, Connect(c) \/ Endpoint(c) \/ Lose(c) \/ Stall(c)
      PROVE  IInv'
    BY <1>4, ConnectIInv, TakeSnapshotIInv, SendSnapshotIInv, SnapshotFailsIInv,
       DisconnectIInv, LinkIInv DEF Endpoint
<1>5. CASE UNCHANGED vars  BY <1>5, StutterIInv
<1> QED BY <1>1, <1>2, <1>3, <1>4, <1>5, <1>6 DEF Next

\* A connected page is registered once, a broadcast takes out only those whose
\* sends have failed, and an announced change that a page has not been sent is on
\* its way to it (ConnectionManager and ws_endpoint).
THEOREM InductiveInvariant == Spec => []IInv
BY InitIInv, NextIInv, PTL DEF Spec

\* No connection is registered twice, and no page is ever shown a row that has not
\* been (ConnectionManager._active, connectWs).
THEOREM TypeCorrect == Spec => []TypeOK
<1>1. IInv => TypeOK  BY DEF IInv
<1> QED BY <1>1, InductiveInvariant, PTL

\* No announced change falls between the registration of a page, its snapshot and
\* the broadcasts, whichever pages go away meanwhile (ws_endpoint, broadcast).
THEOREM NothingIsMissed == Spec => []NothingMissed
<1>1. IInv => NothingMissed  BY DEF IInv
<1> QED BY <1>1, InductiveInvariant, PTL

\* Once every announced change has been handed over and every broadcast has ended,
\* each page that is connected and has its snapshot was sent a row no older than
\* the last of them. What a scan changed after it is not in it (EveryChangeIsSent),
\* and what the page shows may be older (ShownIsCurrent).
AllAreTold ==
    Quiet => \A c \in Clients : Connected(c) /\ stage[c] = "served" => best[c] >= announced

THEOREM QuietPagesAreTold == Spec => []AllAreTold
<1>1. IInv => AllAreTold
  <2> SUFFICES ASSUME IInv, Quiet, NEW c \in Clients, Connected(c), stage[c] = "served"
               PROVE  best[c] >= announced
      BY DEF AllAreTold
  <2>1. announced \in Nat \ {0}  BY DEF IInv, TypeOK
  <2>2. ~ OnItsWay(c, announced)
    <3>1. \A t \in Threads : ~ due[t] >= announced /\ ~ held[t] >= announced
        BY <2>1 DEF Quiet, Idle
    <3>2. DOMAIN waiting = {} /\ casts = {}  BY DEF Quiet
    <3> QED BY <3>1, <3>2 DEF OnItsWay
  <2> QED BY <2>2 DEF IInv, NothingMissed, Connected
<1> QED BY <1>1, InductiveInvariant, PTL

=============================================================================
