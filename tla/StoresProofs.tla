----------------------------- MODULE StoresProofs -----------------------------
(***************************************************************************)
(* Theorems about Stores, for any number of threads and keys. The presets  *)
(* are safe because whoever is busy holds the lock (PresetsInv), and knows *)
(* what it is about to write; the files written from memory are right      *)
(* after a change that nothing overlapped, because it knows what it has    *)
(* written so far (Progress), whatever lay on disk when it began.          *)
(***************************************************************************)
EXTENDS Stores, TLAPS

Busy(t) == pc[t] # "idle"
WholeOrNone(f) == f.state \in {"absent", "whole"}

\* What a thread with the lock is about to write.
Handed(t) ==
  /\ task[t].data.state = "whole"
  /\ \/ task[t].then = "load" /\ task[t].data.content = acked
     \/ task[t].then = "saved"
        /\ task[t].data.content = Result(task[t].op, task[t].key, acked)

\* What the next list shows is what the changes saved so far come to.
Settled == WholeOrNone(file) /\ (file.old => Exists(file)) /\ Visible = acked

PresetsInv ==
  store = "presets" =>
    /\ \A t \in Threads : pc[t] \in {"idle", "load", "open", "write", "saved"}
    /\ \A t \in Threads : Busy(t) => lock = t
    /\ \A t \in Threads : pc[t] \in {"open", "write"} => task[t].then \in {"load", "saved"}
    /\ ~disturbed =>
         /\ \A t \in Threads : pc[t] \in {"open", "write"} => Handed(t)
         /\ \A t \in Threads : pc[t] = "write" => task[t].handle = "file" /\ file = Empty
         /\ (\A t \in Threads : pc[t] # "write") => Settled

\* A change that runs alone, and what it knows at each place.
Alone(t) == Busy(t) /\ task[t].alone
Then == IF store = "manifest" THEN "replace" ELSE "saved"
Progress(t) ==
  /\ pc[t] = "iterating" => task[t].keys = Present(memory)
  /\ pc[t] \in {"open", "write"} => task[t].data = Whole(Stored(memory)) /\ task[t].then = Then
  /\ pc[t] = "write" => task[t].handle = Target /\ At(Target) = Empty
  /\ pc[t] = "replace" => store = "manifest" /\ tmp = Whole(Stored(memory))
  /\ pc[t] = "saved" => file = Whole(Stored(memory))

MemoryInv ==
  InMemory =>
    /\ \A t \in Threads : pc[t] # "load"
    /\ \A t \in Threads : pc[t] \in {"open", "write"} => task[t].then \in {"replace", "saved"}
    /\ store = "urls" => \A k \in Keys : memory[k] = 0 => Bundled[k] = 0
    /\ \A t \in Threads : Alone(t) => Progress(t) /\ \A s \in Threads \ {t} : ~Busy(s)
    /\ ~disturbed => \A t \in Threads : Busy(t) => task[t].alone
    /\ ~disturbed /\ AllIdle => Loaded(file) = memory
    /\ store = "manifest" /\ ~disturbed => WholeOrNone(file)

StoresInv == TypeOK /\ WholeOrNone(legacy) /\ PresetsInv /\ MemoryInv

(***************************************************************************)
(* Types.                                                                  *)
(***************************************************************************)
Stages == {"idle", "load", "iterate", "iterating", "open", "write", "replace", "saved"}

LEMMA FileTypes ==
  /\ Nothing \in Contents /\ Bundled \in Contents
  /\ NoFile \in Files /\ Empty \in Files /\ Torn \in Files
  /\ \A content \in Contents : Whole(content) \in Files /\ OldNamed(content) \in Files
<1>1. Nothing \in Contents /\ Bundled \in Contents
  BY DEF Nothing, Bundled, Contents
<1> QED
  BY <1>1 DEF NoFile, Empty, Torn, Whole, OldNamed, Files

LEMMA ContentTypes ==
  ASSUME NEW content \in Contents
  PROVE  /\ Stored(content) \in Contents
         /\ \A op, key : Result(op, key, content) \in Contents
<1>1. Stored(content) \in Contents
  BY DEF Stored, Custom, Contents
<1>2. ASSUME NEW op, NEW key PROVE Result(op, key, content) \in Contents
  <2>1. \A v \in 0..2 : [content EXCEPT ![key] = v] \in Contents
    BY DEF Contents
  <2> QED
    BY <2>1 DEF Result
<1> QED
  BY <1>1, <1>2

LEMMA LoadedType ==
  ASSUME NEW f \in Files
  PROVE  f.content \in Contents /\ Loaded(f) \in Contents
BY FileTypes DEF Loaded, Files, Contents

LEMMA TaskTypes ==
  /\ NoTask \in Tasks
  /\ \A op \in {"list", "create", "update", "delete", "change"}, key \in Keys, a \in BOOLEAN :
       [NoTask EXCEPT !.op = op, !.key = key, !.alone = a] \in Tasks
  /\ \A r \in Tasks : [r EXCEPT !.alone = FALSE] \in Tasks
  /\ \A r \in Tasks, ks \in SUBSET Keys : [r EXCEPT !.keys = ks] \in Tasks
  /\ \A r \in Tasks, h \in {"none", "file", "tmp", "gone"} : [r EXCEPT !.handle = h] \in Tasks
  /\ \A r \in Tasks, f \in Files, n \in {"idle", "load", "saved", "replace"} :
       [r EXCEPT !.data = f, !.then = n, !.keys = {}] \in Tasks
<1>1. NoTask \in Tasks
  BY FileTypes DEF NoTask, Tasks
<1>2. \A op \in {"list", "create", "update", "delete", "change"}, key \in Keys, a \in BOOLEAN :
        [NoTask EXCEPT !.op = op, !.key = key, !.alone = a] \in Tasks
  BY <1>1 DEF Tasks
<1>3. \A r \in Tasks : [r EXCEPT !.alone = FALSE] \in Tasks
  BY DEF Tasks
<1>4. \A r \in Tasks, ks \in SUBSET Keys : [r EXCEPT !.keys = ks] \in Tasks
  BY DEF Tasks
<1>5. \A r \in Tasks, h \in {"none", "file", "tmp", "gone"} : [r EXCEPT !.handle = h] \in Tasks
  BY DEF Tasks
<1>6. \A r \in Tasks, f \in Files, n \in {"idle", "load", "saved", "replace"} :
        [r EXCEPT !.data = f, !.then = n, !.keys = {}] \in Tasks
  BY DEF Tasks
<1> QED
  BY <1>1, <1>2, <1>3, <1>4, <1>5, <1>6

LEMMA HandType ==
  ASSUME TypeOK, NEW t \in Threads, NEW data \in Files,
         NEW then \in {"idle", "load", "saved", "replace"}, Hand(t, data, then)
  PROVE  /\ pc' = [pc EXCEPT ![t] = "open"] /\ pc' \in [Threads -> Stages]
         /\ task' \in [Threads -> Tasks]
         /\ task'[t].data = data /\ task'[t].then = then /\ task'[t].op = task[t].op
         /\ task'[t].key = task[t].key /\ task'[t].alone = task[t].alone
         /\ \A s \in Threads \ {t} : task'[s] = task[s]
<1>1. task' = [task EXCEPT ![t] = [@ EXCEPT !.data = data, !.then = then, !.keys = {}]]
  BY DEF Hand, TypeOK, Tasks
<1>2. pc' = [pc EXCEPT ![t] = "open"] /\ pc' \in [Threads -> Stages]
  BY DEF Hand, TypeOK, Stages
<1>3. task[t] \in Tasks /\ task'[t] = [task[t] EXCEPT !.data = data, !.then = then, !.keys = {}]
  BY <1>1 DEF TypeOK
<1>4. task'[t] \in Tasks
  BY <1>3 DEF Tasks
<1>5. task' \in [Threads -> Tasks] /\ \A s \in Threads \ {t} : task'[s] = task[s]
  BY <1>1, <1>4 DEF TypeOK
<1>6. /\ task'[t].data = data /\ task'[t].then = then /\ task'[t].op = task[t].op
      /\ task'[t].key = task[t].key /\ task'[t].alone = task[t].alone
  BY <1>3 DEF Tasks
<1> QED
  BY <1>2, <1>5, <1>6

LEMMA BeginType ==
  ASSUME TypeOK, NEW t \in Threads, NEW key \in Keys, NEW next \in Stages,
         NEW op \in {"list", "create", "update", "delete", "change"}, Begin(t, op, key, next)
  PROVE  /\ pc' = [pc EXCEPT ![t] = next] /\ pc' \in [Threads -> Stages]
         /\ task' \in [Threads -> Tasks]
         /\ task'[t].alone = AllIdle
         /\ \A s \in Threads \ {t} : ~task'[s].alone
         /\ ops' \in 0..MaxOps
<1>1. pc' = [pc EXCEPT ![t] = next] /\ pc' \in [Threads -> Stages]
  BY DEF Begin, TypeOK, Stages
<1>2. AllIdle \in BOOLEAN
  BY DEF AllIdle
<1> DEFINE mine == [NoTask EXCEPT !.op = op, !.key = key, !.alone = AllIdle]
           left(s) == [task[s] EXCEPT !.alone = FALSE]
<1>3. mine \in Tasks /\ mine.alone = AllIdle
  BY <1>2, TaskTypes DEF NoTask
<1>4. \A s \in Threads : left(s) \in Tasks /\ ~left(s).alone
  <2> SUFFICES ASSUME NEW s \in Threads PROVE left(s) \in Tasks /\ ~left(s).alone
    OBVIOUS
  <2>1. task[s] \in Tasks
    BY DEF TypeOK
  <2>2. left(s) \in Tasks
    BY <2>1, TaskTypes
  <2>3. ~left(s).alone
    BY <2>1 DEF Tasks
  <2> QED
    BY <2>2, <2>3
<1>5. task' = [s \in Threads |-> IF s = t THEN mine ELSE left(s)]
  BY DEF Begin
<1> HIDE DEF mine, left
<1>6. task' \in [Threads -> Tasks] /\ task'[t].alone = AllIdle
      /\ \A s \in Threads \ {t} : ~task'[s].alone
  BY <1>3, <1>4, <1>5
<1>7. ops' \in 0..MaxOps
  BY StoreBoundsAssumption DEF Begin, TypeOK
<1> QED
  BY <1>1, <1>6, <1>7

LEMMA EndType ==
  ASSUME TypeOK, NEW t \in Threads, End(t)
  PROVE  pc' \in [Threads -> Stages] /\ task' \in [Threads -> Tasks]
BY TaskTypes DEF End, TypeOK, Stages

LEMMA FailType ==
  ASSUME TypeOK, Fail
  PROVE  failures' \in 0..MaxFailures
BY StoreBoundsAssumption DEF Fail, TypeOK

LEMMA TypeParts ==
  ASSUME TypeOK
  PROVE  /\ store \in {"presets", "urls", "manifest"}
         /\ file \in Files /\ tmp \in Files /\ legacy \in Files
         /\ memory \in Contents /\ acked \in Contents
         /\ pc \in [Threads -> Stages] /\ task \in [Threads -> Tasks]
         /\ \A t \in Threads : task[t].data \in Files /\ task[t].alone \in BOOLEAN
                               /\ task[t].then \in {"idle", "load", "saved", "replace"}
         /\ ops \in 0..MaxOps /\ failures \in 0..MaxFailures /\ disturbed \in BOOLEAN
         /\ lock \in Threads \cup {NoOne}
BY DEF TypeOK, Stages, Tasks

LEMMA TypeInductive == TypeOK /\ [Next]_vars => TypeOK'
<1> SUFFICES ASSUME TypeOK, [Next]_vars PROVE TypeOK'
  OBVIOUS
<1> DEFINE Locks == lock' \in Threads \cup {NoOne}
           Flow == pc' \in [Threads -> Stages] /\ task' \in [Threads -> Tasks]
           Disk == file' \in Files /\ tmp' \in Files /\ legacy' \in Files
           Data == memory' \in Contents /\ acked' \in Contents
           Rest == /\ store' \in {"presets", "urls", "manifest"} /\ disturbed' \in BOOLEAN
                   /\ ops' \in 0..MaxOps /\ failures' \in 0..MaxFailures
<1>q. Locks /\ Flow /\ Disk /\ Data /\ Rest => TypeOK'
  BY DEF TypeOK, Stages
<1>p. /\ store \in {"presets", "urls", "manifest"}
      /\ file \in Files /\ tmp \in Files /\ legacy \in Files
      /\ memory \in Contents /\ acked \in Contents
      /\ pc \in [Threads -> Stages] /\ task \in [Threads -> Tasks]
      /\ ops \in 0..MaxOps /\ failures \in 0..MaxFailures /\ disturbed \in BOOLEAN
      /\ lock \in Threads \cup {NoOne}
  BY TypeParts
<1> HIDE DEF Locks, Flow, Disk, Data, Rest
<1>1. CASE UNCHANGED vars
  BY <1>1 DEF vars, TypeOK
<1>2. ASSUME NEW t \in Threads, NEW key \in Keys, NEW op \in {"list", "create", "update", "delete"},
             Acquire(t, op, key)
      PROVE  TypeOK'
  <2>1. Flow /\ ops' \in 0..MaxOps
    BY <1>2, BeginType DEF Acquire, Stages, Flow
  <2> QED
    BY <1>2, <1>p, <1>q, <2>1 DEF Acquire, Locks, Disk, Data, Rest
<1>3. ASSUME NEW t \in Threads, NEW key \in Keys, NEW value \in 1..2, Change(t, key, value)
      PROVE  TypeOK'
  <2>1. Flow /\ ops' \in 0..MaxOps
    BY <1>3, BeginType DEF Change, Stages, Flow
  <2>2. Data
    BY <1>3, <1>p DEF Change, Data, Contents
  <2> QED
    BY <1>3, <1>p, <1>q, <2>1, <2>2 DEF Change, Locks, Disk, Rest
<1>14. ASSUME NEW t \in Threads, NEW key \in Keys, NEW value \in 1..2, RefusedChange(t, key, value)
       PROVE  TypeOK'
  <2>1. \A s \in Threads : [task[s] EXCEPT !.alone = FALSE] \in Tasks
    BY <1>p, TaskTypes
  <2>2. Flow
    BY <1>14, <1>p, <2>1 DEF RefusedChange, Flow
  <2>3. Data
    BY <1>14, <1>p DEF RefusedChange, Data, Contents
  <2>4. ops' \in 0..MaxOps
    BY <1>14, <1>p, StoreBoundsAssumption DEF RefusedChange
  <2> QED
    BY <1>14, <1>p, <1>q, <2>2, <2>3, <2>4 DEF RefusedChange, Locks, Disk, Rest
<1>4. ASSUME NEW t \in Threads, LoadLegacy(t) \/ LoadBundled(t) \/ Migrate(t) \/ Iterated(t)
      PROVE  TypeOK'
  <2>1. PICK data \in Files, then \in {"idle", "load", "saved", "replace"} : Hand(t, data, then)
    BY <1>4, <1>p, FileTypes, ContentTypes, LoadedType
       DEF LoadLegacy, LoadBundled, Migrate, Iterated
  <2>2. Flow
    BY <2>1, HandType DEF Flow
  <2> QED
    BY <1>4, <1>p, <1>q, <2>2
       DEF LoadLegacy, LoadBundled, Migrate, Iterated, Locks, Disk, Data, Rest
<1>5. ASSUME NEW t \in Threads, Load(t) PROVE TypeOK'
  <2> DEFINE result == Result(task[t].op, task[t].key, file.content)
  <2>1. Whole(result) \in Files
    BY <1>p, FileTypes, ContentTypes, LoadedType
  <2>2. (lock' = NoOne /\ End(t)) \/ (lock' = lock /\ Hand(t, Whole(result), "saved"))
    BY <1>5 DEF Load
  <2> HIDE DEF result
  <2>3. Flow /\ Locks
    BY <1>p, <2>1, <2>2, EndType, HandType DEF Flow, Locks
  <2> QED
    BY <1>5, <1>p, <1>q, <2>3 DEF Load, Disk, Data, Rest
<1>6. ASSUME NEW t \in Threads, Iterate(t) PROVE TypeOK'
  <2>1. Present(memory) \in SUBSET Keys
    BY DEF Present
  <2>2. task' = [task EXCEPT ![t] = [@ EXCEPT !.keys = Present(memory)]]
    BY <1>6 DEF Iterate
  <2>3. Flow
    <3>1. [task[t] EXCEPT !.keys = Present(memory)] \in Tasks
      BY <1>p, <2>1, TaskTypes
    <3> QED
      BY <1>6, <1>p, <2>2, <3>1 DEF Iterate, Flow, Stages
  <2> QED
    BY <1>6, <1>p, <1>q, <2>3 DEF Iterate, Locks, Disk, Data, Rest
<1>7. ASSUME NEW t \in Threads, IterationFails(t) \/ Saved(t) PROVE TypeOK'
  <2>1. Flow
    BY <1>7, EndType DEF IterationFails, Saved, Flow
  <2> QED
    BY <1>7, <1>p, <1>q, <2>1 DEF IterationFails, Saved, Locks, Disk, Data, Rest
<1>8. ASSUME NEW t \in Threads, OpenFile(t) PROVE TypeOK'
  <2>1. task' = [task EXCEPT ![t] = [@ EXCEPT !.handle = Target]]
    BY <1>8 DEF OpenFile
  <2>2. Flow
    <3>1. Target \in {"none", "file", "tmp", "gone"}
      BY DEF Target
    <3>2. [task[t] EXCEPT !.handle = Target] \in Tasks
      BY <1>p, <3>1, TaskTypes
    <3> QED
      BY <1>8, <1>p, <2>1, <3>2 DEF OpenFile, Flow, Stages
  <2>3. Disk
    BY <1>8, <1>p, FileTypes DEF OpenFile, Put, Disk
  <2> QED
    BY <1>8, <1>p, <1>q, <2>2, <2>3 DEF OpenFile, Locks, Data, Rest
<1>9. ASSUME NEW t \in Threads, WriteFile(t) PROVE TypeOK'
  <2>1. task' = [task EXCEPT ![t] = [@ EXCEPT !.handle = "none"]]
    BY <1>9 DEF WriteFile
  <2>2. Flow
    <3>1. [task[t] EXCEPT !.handle = "none"] \in Tasks
      BY <1>p, TaskTypes
    <3> QED
      BY <1>9, <1>p, <2>1, <3>1, TypeParts DEF WriteFile, Flow, Stages
  <2>3. Disk
    BY <1>9, <1>p, FileTypes, TypeParts DEF WriteFile, Put, Disk
  <2>4. Data
    BY <1>9, <1>p, ContentTypes DEF WriteFile, Data
  <2> QED
    BY <1>9, <1>p, <1>q, <2>2, <2>3, <2>4 DEF WriteFile, Locks, Rest
<1>10. ASSUME NEW t \in Threads, Replace(t) \/ NothingToReplace(t) PROVE TypeOK'
  <2>1. \A s \in Threads : task'[s] = task[s] \/ \E h \in {"none", "file", "tmp", "gone"} :
                             task'[s] = [task[s] EXCEPT !.handle = h]
    BY <1>10, <1>p DEF Replace, NothingToReplace, Tasks
  <2>2. DOMAIN task' = Threads /\ task' = [s \in Threads |-> task'[s]]
    BY <1>10, <1>p DEF Replace, NothingToReplace
  <2>3. \A s \in Threads : task'[s] \in Tasks
    <3> SUFFICES ASSUME NEW s \in Threads PROVE task'[s] \in Tasks
      OBVIOUS
    <3>1. task[s] \in Tasks
      BY <1>p
    <3>2. \A h \in {"none", "file", "tmp", "gone"} : [task[s] EXCEPT !.handle = h] \in Tasks
      BY <3>1, TaskTypes
    <3> QED
      BY <2>1, <3>1, <3>2
  <2>4. Flow
    BY <1>10, <1>p, <2>2, <2>3 DEF Replace, NothingToReplace, Flow, Stages
  <2>5. Disk
    BY <1>10, <1>p, FileTypes DEF Replace, NothingToReplace, Disk
  <2> QED
    BY <1>10, <1>p, <1>q, <2>4, <2>5 DEF Replace, NothingToReplace, Locks, Data, Rest
<1>11. ASSUME NEW t \in Threads, LoadFails(t) PROVE TypeOK'
  <2> DEFINE result == Result(task[t].op, task[t].key, Nothing)
  <2>1. Whole(result) \in Files
    BY FileTypes, ContentTypes
  <2>2. (lock' = NoOne /\ End(t)) \/ (lock' = lock /\ Hand(t, Whole(result), "saved"))
    BY <1>11 DEF LoadFails
  <2> HIDE DEF result
  <2>3. Flow /\ Locks
    BY <1>p, <2>1, <2>2, EndType, HandType DEF Flow, Locks
  <2> QED
    BY <1>11, <1>p, <1>q, <2>3, FailType DEF LoadFails, Disk, Data, Rest
<1>12. ASSUME NEW t \in Threads, WriteFails(t) PROVE TypeOK'
  <2>1. Flow
    BY <1>12, EndType DEF WriteFails, Flow
  <2> QED
    BY <1>12, <1>p, <1>q, <2>1, FailType DEF WriteFails, Locks, Disk, Data, Rest
<1>13. CASE Crash
  <2>1. Flow
    BY <1>13, TaskTypes DEF Crash, Flow, Stages
  <2>2. Data
    BY <1>13, <1>p, LoadedType DEF Crash, Data
  <2> QED
    BY <1>13, <1>p, <1>q, <2>1, <2>2, FailType DEF Crash, Locks, Disk, Rest
<1> QED
  BY <1>1, <1>2, <1>3, <1>4, <1>5, <1>6, <1>7, <1>8, <1>9, <1>10, <1>11, <1>12, <1>13, <1>14 DEF Next

(***************************************************************************)
(* The presets: whoever is busy holds the lock.                            *)
(***************************************************************************)
LEMMA Exclusive ==
  ASSUME PresetsInv, store = "presets", NEW t \in Threads, Busy(t)
  PROVE  lock = t /\ \A s \in Threads \ {t} : pc[s] = "idle"
BY DEF PresetsInv, Busy

\* A step of the thread with the lock, which stays busy or releases it.
LEMMA PresetsStep ==
  ASSUME TypeOK, PresetsInv, store = "presets", UNCHANGED store, NEW t \in Threads,
         NEW place \in {"idle", "load", "open", "write", "saved"},
         pc' = [pc EXCEPT ![t] = place],
         \A s \in Threads \ {t} : pc[s] = "idle",
         place # "idle" => lock' = t,
         place \in {"open", "write"} => task'[t].then \in {"load", "saved"},
         ~disturbed' =>
           /\ place \in {"open", "write"} => Handed(t)'
           /\ place = "write" => task'[t].handle = "file" /\ file' = Empty
           /\ place # "write" => Settled'
  PROVE  PresetsInv'
<1>1. pc'[t] = place /\ \A s \in Threads \ {t} : pc'[s] = "idle"
  BY DEF TypeOK
<1> QED
  BY <1>1 DEF PresetsInv, Busy

LEMMA Contained ==
  /\ Empty.state = "empty" /\ Nothing = Empty.content
  /\ \A c : Whole(c).state = "whole" /\ Whole(c).content = c
BY DEF Empty, Whole

LEMMA PresetsWrite ==
  ASSUME TypeOK, PresetsInv, store = "presets", NEW t \in Threads, WriteFile(t)
  PROVE  PresetsInv'
<1>1. pc[t] = "write" /\ pc' = [pc EXCEPT ![t] = task[t].then] /\ UNCHANGED <<store, lock, disturbed>>
  BY DEF WriteFile
<1>2. lock = t /\ \A s \in Threads \ {t} : pc[s] = "idle"
  BY <1>1, Exclusive DEF Busy
<1>3. task[t].then \in {"load", "saved"}
  BY <1>1 DEF PresetsInv
<1>4. ASSUME ~disturbed
      PROVE  Settled'
  <2>1. Handed(t) /\ task[t].handle = "file" /\ file = Empty
    BY <1>1, <1>4 DEF PresetsInv
  <2>2. file' = task[t].data
    BY <2>1 DEF WriteFile, Put, At
  <2>3. acked' = IF task[t].then = "saved" THEN Result(task[t].op, task[t].key, acked) ELSE acked
    BY DEF WriteFile
  <2>4. file'.state = "whole" /\ file'.content = acked'
    BY <2>1, <2>2, <2>3 DEF Handed
  <2> QED
    BY <2>4 DEF Settled, WholeOrNone, Visible, Exists
<1> QED
  BY <1>1, <1>2, <1>3, <1>4, PresetsStep

LEMMA StoreFixed == [Next]_vars => store' = store
<1>1. ASSUME NEW t \in Threads, NEW key \in Keys,
             \/ \E op \in {"list", "create", "update", "delete"} : Acquire(t, op, key)
             \/ \E value \in 1..2 : Change(t, key, value) \/ RefusedChange(t, key, value)
      PROVE  store' = store
  BY <1>1 DEF Acquire, Change, RefusedChange
<1>2. ASSUME NEW t \in Threads,
             \/ LoadLegacy(t) \/ LoadBundled(t) \/ Migrate(t) \/ Load(t)
             \/ Iterate(t) \/ Iterated(t) \/ IterationFails(t) \/ Saved(t)
             \/ OpenFile(t) \/ WriteFile(t) \/ Replace(t) \/ NothingToReplace(t)
             \/ LoadFails(t) \/ WriteFails(t)
      PROVE  store' = store
  BY <1>2
     DEF LoadLegacy, LoadBundled, Migrate, Load, Iterate, Iterated, IterationFails, Saved,
         OpenFile, WriteFile, Replace, NothingToReplace, LoadFails, WriteFails
<1> QED
  BY <1>1, <1>2 DEF Next, vars, Crash

LEMMA PresetsInductive ==
  TypeOK /\ WholeOrNone(legacy) /\ PresetsInv /\ [Next]_vars => PresetsInv'
<1> SUFFICES ASSUME TypeOK, WholeOrNone(legacy), PresetsInv, [Next]_vars PROVE PresetsInv'
  OBVIOUS
<1> SUFFICES ASSUME store = "presets" PROVE PresetsInv'
  BY StoreFixed DEF PresetsInv
<1>0. \A t \in Threads : pc[t] \in {"idle", "load", "open", "write", "saved"}
  BY DEF PresetsInv
<1>h. \A t \in Threads : ~disturbed /\ pc[t] \in {"load", "open", "saved"} => Settled
  <2> SUFFICES ASSUME NEW t \in Threads, ~disturbed, pc[t] \in {"load", "open", "saved"}
               PROVE  Settled
    OBVIOUS
  <2>1. \A s \in Threads : pc[s] # "write"
    BY Exclusive DEF Busy
  <2> QED
    BY <2>1 DEF PresetsInv
<1>1. CASE UNCHANGED vars
  BY <1>1 DEF vars, PresetsInv, Busy, Settled, Handed, Visible, WholeOrNone, Exists, Result
<1>2. ASSUME NEW t \in Threads, NEW key \in Keys, NEW op \in {"list", "create", "update", "delete"},
             Acquire(t, op, key)
      PROVE  PresetsInv'
  <2>1. lock = NoOne /\ lock' = t /\ pc' = [pc EXCEPT ![t] = "load"]
        /\ UNCHANGED <<store, file, legacy, acked, disturbed>>
    BY <1>2 DEF Acquire, Begin
  <2>2. \A s \in Threads : pc[s] = "idle"
    BY <2>1, ThreadsAssumption DEF PresetsInv, Busy, NoOne
  <2>3. ~disturbed => Settled
    BY <2>2 DEF PresetsInv
  <2> QED
    BY <2>1, <2>2, <2>3, PresetsStep DEF Settled, WholeOrNone, Visible, Exists
<1>3. ASSUME NEW t \in Threads, LoadLegacy(t) \/ LoadBundled(t) \/ Migrate(t)
      PROVE  PresetsInv'
  <2>1. pc[t] = "load" /\ UNCHANGED <<store, file, legacy, lock, acked, disturbed>>
    BY <1>3 DEF LoadLegacy, LoadBundled, Migrate
  <2>2. lock = t /\ \A s \in Threads \ {t} : pc[s] = "idle"
    BY <2>1, Exclusive DEF Busy
  <2>3. PICK data \in Files :
          Hand(t, data, "load") /\ (~disturbed => data.state = "whole" /\ data.content = acked)
    <3>1. CASE LoadLegacy(t)
      BY <1>h, <2>1, <3>1, TypeParts DEF LoadLegacy, Settled, Visible, WholeOrNone, Exists
    <3>2. CASE LoadBundled(t)
      BY <1>h, <2>1, <3>2, FileTypes, Contained DEF LoadBundled, Settled, Visible
    <3>3. CASE Migrate(t)
      <4>1. file.old /\ Hand(t, Whole(file.content), "load")
        BY <3>3 DEF Migrate
      <4>2. ~disturbed => Exists(file)
        BY <1>h, <2>1, <4>1 DEF Settled
      <4> QED
        BY <1>h, <2>1, <4>1, <4>2, FileTypes, LoadedType, TypeParts, Contained DEF Settled, Visible
    <3> QED
      BY <1>3, <3>1, <3>2, <3>3
  <2>4. pc' = [pc EXCEPT ![t] = "open"] /\ task'[t].data = data /\ task'[t].then = "load"
    BY <2>3, HandType
  <2> QED
    BY <1>h, <2>1, <2>2, <2>3, <2>4, PresetsStep
       DEF Handed, Settled, WholeOrNone, Visible, Exists

<1>4. ASSUME NEW t \in Threads, Load(t) PROVE PresetsInv'
  <2> DEFINE result == Result(task[t].op, task[t].key, file.content)
  <2>1. pc[t] = "load" /\ Exists(file) /\ UNCHANGED <<store, file, legacy, acked, disturbed>>
    BY <1>4 DEF Load
  <2>2. lock = t /\ \A s \in Threads \ {t} : pc[s] = "idle"
    BY <2>1, Exclusive DEF Busy
  <2>3. Settled' = Settled
    BY <2>1 DEF Settled, WholeOrNone, Visible, Exists
  <2> DEFINE saves == Saves(task[t].op, task[t].key, file.content)
  <2>4. CASE ~ saves
    <3>1. pc' = [pc EXCEPT ![t] = "idle"]
      BY <1>4, <2>4 DEF Load, End
    <3> QED
      BY <1>h, <2>1, <2>2, <2>3, <3>1, PresetsStep
  <2>5. CASE saves
    <3>1. lock' = lock /\ Hand(t, Whole(result), "saved")
      BY <1>4, <2>5 DEF Load
    <3>2. Whole(result) \in Files
      BY FileTypes, ContentTypes, LoadedType, TypeParts
    <3> HIDE DEF result
    <3>3. pc' = [pc EXCEPT ![t] = "open"] /\ task'[t].data = Whole(result)
          /\ task'[t].then = "saved" /\ task'[t].op = task[t].op /\ task'[t].key = task[t].key
      BY <3>1, <3>2, HandType
    <3>4. ~disturbed => result = Result(task[t].op, task[t].key, acked)
      BY <1>h, <2>1 DEF result, Settled, Visible
    <3>5. ~disturbed => Handed(t)'
      BY <2>1, <3>3, <3>4, Contained DEF Handed
    <3> QED
      BY <1>h, <2>1, <2>2, <2>3, <3>1, <3>3, <3>5, PresetsStep
  <2> QED
    BY <2>4, <2>5
<1>5. ASSUME NEW t \in Threads, OpenFile(t) PROVE PresetsInv'
  <2>1. pc[t] = "open" /\ pc' = [pc EXCEPT ![t] = "write"] /\ file' = Empty
        /\ UNCHANGED <<store, lock, acked, disturbed>>
    BY <1>5 DEF OpenFile, Put, Target
  <2>2. lock = t /\ \A s \in Threads \ {t} : pc[s] = "idle"
    BY <2>1, Exclusive DEF Busy
  <2>3. task'[t] = [task[t] EXCEPT !.handle = "file"]
    BY <1>5 DEF OpenFile, Target, TypeOK
  <2>4. task'[t].handle = "file" /\ task'[t].then = task[t].then /\ task'[t].data = task[t].data
        /\ task'[t].op = task[t].op /\ task'[t].key = task[t].key
    BY <2>3 DEF TypeOK, Tasks
  <2>5. task[t].then \in {"load", "saved"} /\ (~disturbed => Handed(t))
    BY <2>1 DEF PresetsInv
  <2> QED
    BY <2>1, <2>2, <2>4, <2>5, PresetsStep DEF Handed
<1>6. ASSUME NEW t \in Threads, Saved(t) PROVE PresetsInv'
  <2>1. pc[t] = "saved" /\ pc' = [pc EXCEPT ![t] = "idle"] /\ UNCHANGED <<store, file, legacy, acked>>
        /\ disturbed' = disturbed
    BY <1>6 DEF Saved, End, InMemory, TypeOK
  <2>2. \A s \in Threads \ {t} : pc[s] = "idle"
    BY <2>1, Exclusive DEF Busy
  <2> QED
    BY <1>h, <2>1, <2>2, PresetsStep DEF Settled, WholeOrNone, Visible, Exists
<1>7. ASSUME NEW t \in Threads, LoadFails(t) PROVE PresetsInv'
  <2> DEFINE result == Result(task[t].op, task[t].key, Nothing)
  <2>1. pc[t] \in {"open", "write"} /\ disturbed' /\ UNCHANGED store
    BY <1>7 DEF LoadFails
  <2>2. lock = t /\ \A s \in Threads \ {t} : pc[s] = "idle"
    BY <2>1, Exclusive DEF Busy
  <2> DEFINE saves == Saves(task[t].op, task[t].key, Nothing)
  <2>3. CASE ~ saves
    <3>1. pc' = [pc EXCEPT ![t] = "idle"]
      BY <1>7, <2>3 DEF LoadFails, End
    <3> QED
      BY <2>1, <2>2, <3>1, PresetsStep
  <2>4. CASE saves
    <3>1. lock' = lock /\ Hand(t, Whole(result), "saved")
      BY <1>7, <2>4 DEF LoadFails
    <3>2. Whole(result) \in Files
      BY FileTypes, ContentTypes
    <3> HIDE DEF result
    <3>3. pc' = [pc EXCEPT ![t] = "open"] /\ task'[t].then = "saved"
      BY <3>1, <3>2, HandType
    <3> QED
      BY <2>1, <2>2, <3>1, <3>3, PresetsStep
  <2> QED
    BY <2>3, <2>4
<1>8. ASSUME NEW t \in Threads, WriteFails(t) PROVE PresetsInv'
  <2>1. pc[t] \in {"open", "write"} /\ pc' = [pc EXCEPT ![t] = "idle"]
        /\ UNCHANGED <<store, file, legacy, acked>> /\ (~disturbed' => ~disturbed /\ pc[t] = "open")
    BY <1>8 DEF WriteFails, End
  <2>2. \A s \in Threads \ {t} : pc[s] = "idle"
    BY <2>1, Exclusive DEF Busy
  <2> QED
    BY <1>h, <2>1, <2>2, PresetsStep DEF Settled, WholeOrNone, Visible, Exists
<1>9. CASE Crash
  <2>1. (\A t \in Threads : pc'[t] = "idle") /\ UNCHANGED <<store, file, legacy, acked>>
        /\ (~disturbed' => ~disturbed /\ \A t \in Threads : pc[t] # "write")
    BY <1>9 DEF Crash
  <2> QED
    BY <2>1 DEF PresetsInv, Busy, Settled, WholeOrNone, Visible, Exists
<1>10. ASSUME NEW t \in Threads PROVE /\ ~Iterate(t) /\ ~Iterated(t) /\ ~IterationFails(t)
                                      /\ ~Replace(t) /\ ~NothingToReplace(t)
                                      /\ \A key, value : ~Change(t, key, value)
                                      /\ \A key, value : ~RefusedChange(t, key, value)
  BY <1>0 DEF Iterate, Iterated, IterationFails, Replace, NothingToReplace, Change, RefusedChange,
              InMemory
<1> QED
  BY <1>1, <1>2, <1>3, <1>4, <1>5, <1>6, <1>7, <1>8, <1>9, <1>10, PresetsWrite DEF Next

(***************************************************************************)
(* The files written from memory: a change that nothing overlapped.        *)
(***************************************************************************)
LEMMA LoadedStored ==
  ASSUME NEW content \in Contents, store = "urls" => \A k \in Keys : content[k] = 0 => Bundled[k] = 0
  PROVE  Loaded(Whole(Stored(content))) = content
<1>1. CASE store = "urls"
  <2>1. Whole(Stored(content)).content = Custom(content)
    BY <1>1, Contained DEF Stored
  <2>2. \A k \in Keys : (IF Custom(content)[k] = 0 THEN Bundled[k] ELSE Custom(content)[k]) = content[k]
    BY <1>1 DEF Custom
  <2>3. content = [k \in Keys |-> content[k]]
    BY DEF Contents
  <2> QED
    BY <1>1, <2>1, <2>2, <2>3 DEF Loaded
<1>2. CASE store # "urls"
  BY <1>2, Contained DEF Loaded, Stored
<1> QED
  BY <1>1, <1>2

\* A step of a busy thread that changes nothing in memory.
LEMMA MemoryStep ==
  ASSUME TypeOK, MemoryInv, InMemory, UNCHANGED <<store, memory>>, NEW t \in Threads, Busy(t),
         NEW place \in Stages \ {"load"}, pc' = [pc EXCEPT ![t] = place],
         \A s \in Threads \ {t} : task'[s].alone = task[s].alone /\ task'[s].then = task[s].then,
         place \in {"open", "write"} => task'[t].then \in {"replace", "saved"},
         place # "idle" => task'[t].alone = task[t].alone,
         task[t].alone /\ place # "idle" => Progress(t)',
         ~disturbed' => ~disturbed \/ (place = "idle" /\ task[t].alone),
         ~disturbed' /\ place = "idle" => Loaded(file)' = memory,
         ~disturbed' /\ store = "manifest" => WholeOrNone(file)'
  PROVE  MemoryInv'
<1>1. pc'[t] = place /\ \A s \in Threads \ {t} : pc'[s] = pc[s]
  BY DEF TypeOK
<1>2. \A s \in Threads :
        pc'[s] # "load" /\ (pc'[s] \in {"open", "write"} => task'[s].then \in {"replace", "saved"})
  BY <1>1 DEF MemoryInv
<1>3. ASSUME NEW s \in Threads, Alone(s)'
      PROVE  Progress(s)' /\ \A r \in Threads \ {s} : ~Busy(r)'
  <2>1. s = t
    BY <1>1, <1>3 DEF Alone, Busy, MemoryInv
  <2>2. Alone(t)
    BY <1>1, <1>3, <2>1 DEF Alone, Busy
  <2> QED
    BY <1>1, <1>3, <2>1, <2>2 DEF Alone, Busy, MemoryInv
<1>4. ASSUME ~disturbed', NEW s \in Threads, Busy(s)'
      PROVE  task'[s].alone
  <2>1. CASE s = t
    BY <1>1, <1>4, <2>1 DEF MemoryInv, Busy
  <2>2. CASE s # t
    <3>1. Busy(s)
      BY <1>1, <1>4, <2>2 DEF Busy
    <3> QED
      BY <1>4, <2>2, <3>1 DEF MemoryInv, Alone
  <2> QED
    BY <2>1, <2>2
<1>5. ~disturbed' /\ AllIdle' => Loaded(file)' = memory'
  BY <1>1 DEF AllIdle
<1> QED
  BY <1>2, <1>3, <1>4, <1>5 DEF MemoryInv

LEMMA HandleStep ==
  ASSUME TypeOK, NEW t \in Threads, NEW h \in {"none", "file", "tmp", "gone"},
         task' = [task EXCEPT ![t].handle = h]
  PROVE  /\ \A s \in Threads \ {t} : task'[s] = task[s]
         /\ task'[t].alone = task[t].alone /\ task'[t].data = task[t].data
         /\ task'[t].then = task[t].then /\ task'[t].handle = h
         /\ task'[t].keys = task[t].keys
<1>1. task'[t] = [task[t] EXCEPT !.handle = h] /\ task[t] \in Tasks
      /\ \A s \in Threads \ {t} : task'[s] = task[s]
  BY DEF TypeOK
<1> QED
  BY <1>1 DEF Tasks

LEMMA OpenStep ==
  ASSUME TypeOK, MemoryInv, InMemory, NEW t \in Threads, OpenFile(t)
  PROVE  MemoryInv'
<1>1. pc[t] = "open" /\ pc' = [pc EXCEPT ![t] = "write"] /\ Put(Target, Empty)
      /\ UNCHANGED <<store, memory, disturbed>>
      /\ task' = [task EXCEPT ![t].handle = Target]
  BY DEF OpenFile
<1>2. /\ \A s \in Threads \ {t} : task'[s] = task[s]
      /\ task'[t].alone = task[t].alone /\ task'[t].data = task[t].data
      /\ task'[t].then = task[t].then /\ task'[t].handle = Target
  BY ZenonT(40), <1>1, HandleStep DEF Target
<1>3. At(Target)' = Empty /\ (store = "manifest" => file' = file) /\ Target' = Target
  BY <1>1 DEF Put, At, Target, Empty, Nothing
<1>4. Busy(t) /\ pc'[t] = "write"
  BY <1>1 DEF Busy, TypeOK
<1>5. task[t].alone => Progress(t)'
  <2>1. SUFFICES ASSUME task[t].alone PROVE Progress(t)'
    OBVIOUS
  <2>2. task[t].data = Whole(Stored(memory)) /\ task[t].then = Then
    BY <1>1, <1>4, <2>1 DEF MemoryInv, Alone, Progress
  <2>3. (Whole(Stored(memory)))' = Whole(Stored(memory)) /\ Then' = Then
    BY <1>1 DEF Whole, Stored, Custom, Bundled, Then
  <2> QED
    BY <1>2, <1>3, <1>4, <2>2, <2>3 DEF Progress
<1>6. ~disturbed /\ store = "manifest" => WholeOrNone(file)'
  BY <1>3 DEF MemoryInv, WholeOrNone
<1>7. task[t].then \in {"replace", "saved"}
  BY <1>1 DEF MemoryInv
<1> QED
  BY <1>1, <1>2, <1>4, <1>5, <1>6, <1>7, MemoryStep DEF Stages

LEMMA WriteStep ==
  ASSUME TypeOK, MemoryInv, InMemory, NEW t \in Threads, WriteFile(t)
  PROVE  MemoryInv'
<1>1. pc[t] = "write" /\ pc' = [pc EXCEPT ![t] = task[t].then]
      /\ UNCHANGED <<store, memory, disturbed>>
      /\ task' = [task EXCEPT ![t].handle = "none"]
  BY DEF WriteFile
<1>2. /\ \A s \in Threads \ {t} : task'[s] = task[s]
      /\ task'[t].alone = task[t].alone
  BY <1>1, HandleStep
<1>3. task[t].then \in {"replace", "saved"}
  BY <1>1 DEF MemoryInv
<1>4. Busy(t) /\ pc'[t] = task[t].then
  BY <1>1 DEF Busy, TypeOK
<1>5. ASSUME task[t].alone
      PROVE  /\ task[t].then = Then /\ Put(Target, Whole(Stored(memory)))
  <2>1. Progress(t)
    BY <1>4, <1>5 DEF MemoryInv, Alone
  <2>2. /\ task[t].data = Whole(Stored(memory)) /\ task[t].then = Then
        /\ task[t].handle = Target /\ At(Target) = Empty
    BY <1>1, <2>1 DEF Progress
  <2> QED
    BY <2>2 DEF WriteFile
<1>6. task[t].alone => Progress(t)'
  <2>1. SUFFICES ASSUME task[t].alone PROVE Progress(t)'
    OBVIOUS
  <2>2. (Whole(Stored(memory)))' = Whole(Stored(memory)) /\ Then' = Then
    BY <1>1 DEF Whole, Stored, Custom, Bundled, Then
  <2>3. CASE store = "manifest"
    BY <1>1, <1>4, <1>5, <2>1, <2>2, <2>3 DEF Progress, Put, Target, Then
  <2>4. CASE store # "manifest"
    BY <1>1, <1>4, <1>5, <2>1, <2>2, <2>4 DEF Progress, Put, Target, Then
  <2> QED
    BY <2>3, <2>4
<1>7. ~disturbed /\ store = "manifest" => WholeOrNone(file)'
  <2>1. SUFFICES ASSUME ~disturbed, store = "manifest" PROVE WholeOrNone(file)'
    OBVIOUS
  <2>2. task[t].alone
    BY <1>4, <2>1 DEF MemoryInv
  <2>3. file' = file
    BY <1>5, <2>1, <2>2 DEF Put, Target
  <2> QED
    BY <2>1, <2>3 DEF MemoryInv, WholeOrNone
<1> QED
  BY <1>1, <1>2, <1>3, <1>4, <1>6, <1>7, MemoryStep DEF Stages

LEMMA IterateSteps ==
  ASSUME TypeOK, MemoryInv, InMemory, NEW t \in Threads,
         Iterate(t) \/ Iterated(t) \/ IterationFails(t)
  PROVE  MemoryInv'
<1>s. UNCHANGED <<store, file, memory, disturbed>> /\ Busy(t)
  BY DEF Iterate, Iterated, IterationFails, Busy
<1>m. (Whole(Stored(memory)))' = Whole(Stored(memory)) /\ Then' = Then
      /\ (Present(memory))' = Present(memory)
  BY <1>s DEF Whole, Stored, Custom, Bundled, Then, Present
<1>w. ~disturbed /\ store = "manifest" => WholeOrNone(file)'
  BY <1>s DEF MemoryInv, WholeOrNone
<1>1. CASE Iterate(t)
  <2>1. pc' = [pc EXCEPT ![t] = "iterating"] /\ task' = [task EXCEPT ![t].keys = Present(memory)]
    BY <1>1 DEF Iterate
  <2>2. task[t] \in Tasks /\ task'[t] = [task[t] EXCEPT !.keys = Present(memory)]
        /\ \A s \in Threads \ {t} : task'[s] = task[s]
    BY <2>1 DEF TypeOK
  <2>3. task'[t].keys = Present(memory) /\ task'[t].alone = task[t].alone
    BY <2>2 DEF Tasks
  <2>4. Progress(t)'
    BY <1>m, <2>1, <2>3 DEF Progress, TypeOK
  <2> QED
    BY <1>s, <1>w, <2>1, <2>2, <2>3, <2>4, MemoryStep DEF Stages
<1>2. CASE Iterated(t)
  <2> DEFINE data == Whole(Stored(memory))
  <2>1. Hand(t, data, Then)
    BY <1>2 DEF Iterated, Then
  <2>2. data \in Files
    BY FileTypes, ContentTypes, TypeParts
  <2> HIDE DEF data
  <2>3. /\ pc' = [pc EXCEPT ![t] = "open"] /\ task'[t].data = data /\ task'[t].then = Then
        /\ task'[t].alone = task[t].alone /\ \A s \in Threads \ {t} : task'[s] = task[s]
    BY <2>1, <2>2, HandType DEF Then
  <2>4. Progress(t)'
    BY <1>m, <2>3 DEF Progress, TypeOK, data
  <2> QED
    BY <1>s, <1>w, <2>3, <2>4, MemoryStep DEF Stages, Then
<1>3. CASE IterationFails(t)
  <2>1. pc' = [pc EXCEPT ![t] = "idle"] /\ \A s \in Threads \ {t} : task'[s] = task[s]
    BY <1>3 DEF IterationFails, End, TypeOK
  <2>2. ~task[t].alone
    BY <1>3, <1>s DEF IterationFails, MemoryInv, Alone, Progress
  <2>3. disturbed
    BY <1>s, <2>2 DEF MemoryInv
  <2> QED
    BY <1>s, <2>1, <2>2, <2>3, MemoryStep DEF Stages
<1> QED
  BY <1>1, <1>2, <1>3

LEMMA ReplaceStep ==
  ASSUME TypeOK, MemoryInv, InMemory, NEW t \in Threads, Replace(t) \/ NothingToReplace(t)
  PROVE  MemoryInv'
<1>1. pc[t] = "replace" /\ pc' = [pc EXCEPT ![t] = "saved"]
      /\ UNCHANGED <<store, memory, disturbed>> /\ Busy(t)
  BY DEF Replace, NothingToReplace, Busy
<1>2. \A s \in Threads : task'[s].alone = task[s].alone /\ task'[s].then = task[s].then
  <2>1. CASE Replace(t)
    <3>1. \A s \in Threads : task[s] \in Tasks
      BY DEF TypeOK
    <3>2. \A s \in Threads : task'[s] = [task[s] EXCEPT !.handle = CASE @ = "tmp" -> "file"
                                                                    [] @ = "file" -> "gone"
                                                                    [] OTHER -> @]
      BY <2>1 DEF Replace
    <3> QED
      BY ZenonT(40), <3>1, <3>2 DEF Tasks
  <2>2. CASE NothingToReplace(t)
    BY <2>2 DEF NothingToReplace
  <2> QED
    BY <2>1, <2>2
<1>3. ASSUME task[t].alone PROVE file' = Whole(Stored(memory))
  <2>1. tmp = Whole(Stored(memory))
    BY <1>1, <1>3 DEF MemoryInv, Alone, Progress
  <2>2. Exists(tmp)
    BY <2>1, Contained DEF Exists
  <2> QED
    BY <2>1, <2>2 DEF Replace, NothingToReplace
<1>4. (Whole(Stored(memory)))' = Whole(Stored(memory))
  BY <1>1 DEF Whole, Stored, Custom, Bundled
<1>5. task[t].alone => Progress(t)'
  BY <1>1, <1>3, <1>4 DEF Progress, TypeOK
<1>6. ~disturbed => WholeOrNone(file)'
  BY <1>1, <1>3, Contained DEF MemoryInv, WholeOrNone
<1> QED
  BY <1>1, <1>2, <1>5, <1>6, MemoryStep DEF Stages

LEMMA SavedStep ==
  ASSUME TypeOK, MemoryInv, InMemory, NEW t \in Threads, Saved(t)
  PROVE  MemoryInv'
<1>1. pc[t] = "saved" /\ pc' = [pc EXCEPT ![t] = "idle"] /\ UNCHANGED <<store, file, memory>>
      /\ Busy(t) /\ (~disturbed' => ~disturbed \/ task[t].alone)
      /\ \A s \in Threads \ {t} : task'[s] = task[s]
  BY DEF Saved, End, Busy, TypeOK
<1>2. ASSUME ~disturbed' PROVE file = Whole(Stored(memory))
  <2>1. task[t].alone
    BY <1>1, <1>2 DEF MemoryInv
  <2> QED
    BY <1>1, <2>1 DEF MemoryInv, Alone, Progress
<1>3. Loaded(Whole(Stored(memory))) = memory
  BY LoadedStored, TypeParts DEF MemoryInv
<1>4. ~disturbed' => Loaded(file)' = memory /\ WholeOrNone(file)'
  <2>1. Loaded(file)' = Loaded(file) /\ WholeOrNone(file)' = WholeOrNone(file)
    BY <1>1 DEF Loaded, Bundled, WholeOrNone
  <2> QED
    BY <1>2, <1>3, <2>1, Contained DEF WholeOrNone
<1> QED
  BY <1>1, <1>4, MemoryStep DEF Stages

LEMMA ChangeStep ==
  ASSUME TypeOK, MemoryInv, InMemory, NEW t \in Threads, NEW key \in Keys, NEW value \in 1..2,
         Change(t, key, value)
  PROVE  MemoryInv'
<1>1. Begin(t, "change", key, "iterate") /\ UNCHANGED <<store, file>>
      /\ memory' = [memory EXCEPT ![key] = value] /\ (disturbed' <=> disturbed \/ ~AllIdle)
  BY DEF Change
<1>2. /\ pc' = [pc EXCEPT ![t] = "iterate"] /\ task'[t].alone = AllIdle
      /\ \A s \in Threads \ {t} : ~task'[s].alone
  BY <1>1, BeginType DEF Stages
<1>3. pc'[t] = "iterate" /\ \A s \in Threads \ {t} : pc'[s] = pc[s]
  BY <1>2 DEF TypeOK
<1>4. \A s \in Threads \ {t} : task'[s].then = task[s].then
  <2>1. \A s \in Threads \ {t} : task[s] \in Tasks /\ task'[s] = [task[s] EXCEPT !.alone = FALSE]
    BY <1>1 DEF Begin, TypeOK
  <2> QED
    BY <2>1 DEF Tasks
<1>5. ASSUME store = "urls", NEW k \in Keys, memory'[k] = 0 PROVE Bundled[k] = 0
  <2>1. memory[k] = 0
    BY <1>1, <1>5, TypeParts DEF Contents
  <2> QED
    BY <1>5, <2>1 DEF MemoryInv
<1>6. ASSUME NEW s \in Threads, Alone(s)'
      PROVE  Progress(s)' /\ \A r \in Threads \ {s} : ~Busy(r)'
  <2>1. s = t /\ AllIdle
    BY <1>2, <1>6 DEF Alone
  <2> QED
    BY <1>3, <2>1 DEF Progress, AllIdle, Busy
<1>7. ~disturbed' => \A s \in Threads : Busy(s)' => task'[s].alone
  BY <1>1, <1>2, <1>3 DEF AllIdle, Busy
<1>8. \A s \in Threads :
        pc'[s] # "load" /\ (pc'[s] \in {"open", "write"} => task'[s].then \in {"replace", "saved"})
  BY <1>3, <1>4 DEF MemoryInv
<1>9. ~AllIdle' /\ (store' = "manifest" /\ ~disturbed' => WholeOrNone(file)')
  BY <1>1, <1>3 DEF AllIdle, MemoryInv, WholeOrNone
<1>10. (store = "urls")' => \A k \in Keys : memory'[k] = 0 => Bundled'[k] = 0
  BY <1>1, <1>5 DEF Bundled
<1> QED
  BY <1>6, <1>7, <1>8, <1>9, <1>10 DEF MemoryInv

LEMMA RefusedStep ==
  ASSUME TypeOK, MemoryInv, InMemory, NEW t \in Threads, NEW key \in Keys, NEW value \in 1..2,
         RefusedChange(t, key, value)
  PROVE  MemoryInv'
<1>1. UNCHANGED <<store, file, pc>> /\ disturbed' /\ memory' = [memory EXCEPT ![key] = value]
  BY DEF RefusedChange
<1>2. \A s \in Threads : task'[s].then = task[s].then /\ ~task'[s].alone
  <2>1. \A s \in Threads : task[s] \in Tasks /\ task'[s] = [task[s] EXCEPT !.alone = FALSE]
    BY DEF RefusedChange, TypeOK
  <2> QED
    BY <2>1 DEF Tasks
<1>3. ASSUME store = "urls", NEW k \in Keys, memory'[k] = 0 PROVE Bundled[k] = 0
  <2>1. memory[k] = 0
    BY <1>1, <1>3, TypeParts DEF Contents
  <2> QED
    BY <1>3, <2>1 DEF MemoryInv
<1>4. (store = "urls")' => \A k \in Keys : memory'[k] = 0 => Bundled'[k] = 0
  BY <1>1, <1>3 DEF Bundled
<1> QED
  BY <1>1, <1>2, <1>4 DEF MemoryInv, Alone, Busy

LEMMA FailureSteps ==
  ASSUME TypeOK, MemoryInv, InMemory
  PROVE  /\ Crash => MemoryInv'
         /\ \A t \in Threads : ~LoadFails(t)
         /\ \A t \in Threads : WriteFails(t) => MemoryInv'
<1>1. ASSUME Crash PROVE MemoryInv'
  <2>1. /\ memory' = Loaded(file) /\ UNCHANGED <<store, file>> /\ disturbed' = disturbed
        /\ \A t \in Threads : pc'[t] = "idle"
    BY <1>1 DEF Crash, InMemory, TypeOK
  <2>2. Loaded(file)' = memory' /\ WholeOrNone(file)' = WholeOrNone(file)
    BY <2>1 DEF Loaded, Bundled, WholeOrNone
  <2>3. (store = "urls")' => \A k \in Keys : memory'[k] = 0 => Bundled'[k] = 0
    BY <2>1 DEF Loaded, Bundled
  <2> QED
    BY <2>1, <2>2, <2>3 DEF MemoryInv, Alone, Busy
<1>2. ASSUME NEW t \in Threads PROVE ~LoadFails(t)
  BY DEF LoadFails, Caught, MemoryInv
<1>3. ASSUME NEW t \in Threads, WriteFails(t) PROVE MemoryInv'
  <2>1. Busy(t) /\ disturbed' /\ pc' = [pc EXCEPT ![t] = "idle"] /\ UNCHANGED <<store, memory>>
        /\ \A s \in Threads \ {t} : task'[s] = task[s]
    BY <1>3 DEF WriteFails, End, Busy, TypeOK
  <2> QED
    BY <2>1, MemoryStep DEF Stages
<1> QED
  BY <1>1, <1>2, <1>3

LEMMA MemoryInductive == TypeOK /\ MemoryInv /\ [Next]_vars => MemoryInv'
<1> SUFFICES ASSUME TypeOK, MemoryInv, [Next]_vars PROVE MemoryInv'
  OBVIOUS
<1>0. store' = store
  BY StoreFixed
<1>1. CASE ~InMemory
  BY <1>0, <1>1 DEF MemoryInv, InMemory
<1>2. CASE InMemory /\ UNCHANGED vars
  BY <1>2 DEF vars, MemoryInv, InMemory, Alone, Progress, Busy, Present, Then, Target, At, AllIdle,
              WholeOrNone, Loaded, Bundled, Whole, Stored, Custom
<1>3. CASE InMemory /\ Next
  <2>1. ASSUME NEW t \in Threads
        PROVE  /\ \A op, key : ~Acquire(t, op, key)
               /\ ~LoadLegacy(t) /\ ~LoadBundled(t) /\ ~Migrate(t) /\ ~Load(t)
    BY <1>3 DEF InMemory, Acquire, LoadLegacy, LoadBundled, Migrate, Load, MemoryInv
  <2> QED
    BY <1>3, <2>1, OpenStep, WriteStep, IterateSteps, ReplaceStep, SavedStep, ChangeStep, RefusedStep,
       FailureSteps
       DEF Next
<1> QED
  BY <1>1, <1>2, <1>3

(***************************************************************************)
(* The invariant, and the theorems.                                        *)
(***************************************************************************)
LEMMA StoresInvInit == Init => StoresInv
<1> SUFFICES ASSUME Init PROVE StoresInv
  OBVIOUS
<1>1. [k \in Keys |-> 2] \in Contents
  BY DEF Contents
<1>2. /\ file \in {NoFile, Whole(Bundled), OldNamed(Bundled), Whole([k \in Keys |-> 2])}
      /\ legacy \in {NoFile, OldNamed(Bundled), Whole([k \in Keys |-> 2])}
      /\ memory \in {Nothing, Loaded(file)} /\ tmp = NoFile
  BY DEF Init
<1>3. {file, legacy, tmp} \subseteq Files
  BY <1>1, <1>2, FileTypes
<1>4. WholeOrNone(file) /\ WholeOrNone(legacy)
  BY <1>2 DEF WholeOrNone, NoFile, Whole, OldNamed
<1>5. Visible \in Contents
  BY <1>3, FileTypes, LoadedType DEF Visible
<1>6. memory \in Contents
  BY <1>2, <1>3, FileTypes, LoadedType
<1>7. TypeOK
  <2>1. pc \in [Threads -> Stages] /\ task \in [Threads -> Tasks]
    BY TaskTypes DEF Init, Stages
  <2>2. acked \in Contents /\ disturbed = FALSE /\ lock = NoOne
        /\ store \in {"presets", "urls", "manifest"}
    BY <1>5 DEF Init
  <2>3. ops \in 0..MaxOps /\ failures \in 0..MaxFailures
    BY StoreBoundsAssumption DEF Init
  <2> QED
    BY <1>3, <1>6, <2>1, <2>2, <2>3 DEF TypeOK, Stages
<1>8. PresetsInv
  BY <1>2, <1>4 DEF Init, PresetsInv, Busy, Settled, Exists, NoFile, Whole, OldNamed
<1>9. InMemory => memory = Loaded(file) /\ \A t \in Threads : pc[t] = "idle"
  BY DEF Init, InMemory
<1>10. store = "urls" => \A k \in Keys : Loaded(file)[k] = 0 => Bundled[k] = 0
  BY DEF Loaded, Bundled
<1>11. MemoryInv
  BY <1>4, <1>9, <1>10 DEF MemoryInv, Alone, Busy
<1> QED
  BY <1>4, <1>7, <1>8, <1>11 DEF StoresInv

LEMMA LegacyFixed == [Next]_vars => legacy' = legacy
BY DEF Next, vars, Acquire, Change, RefusedChange, LoadLegacy, LoadBundled, Migrate, Load, Iterate, Iterated,
       IterationFails, Saved, OpenFile, WriteFile, Replace, NothingToReplace, LoadFails,
       WriteFails, Crash

LEMMA StoresInvHolds == Spec => []StoresInv
<1>1. Init => StoresInv
  BY StoresInvInit
<1>2. StoresInv /\ [Next]_vars => StoresInv'
  BY TypeInductive, PresetsInductive, MemoryInductive, LegacyFixed DEF StoresInv, WholeOrNone
<1> QED
  BY <1>1, <1>2, PTL DEF Spec

\* Every variable keeps its type.
THEOREM TypeCorrect == Spec => []TypeOK
<1>1. StoresInv => TypeOK
  BY DEF StoresInv
<1> QED
  BY <1>1, StoresInvHolds, PTL

\* presets.py: the list shows what the saved changes come to, for any number of
\* request threads, across restarts, the copy from the old place and the
\* renaming, unless a write was cut short.
THEOREM AcknowledgedChangesKept == Spec => []AcknowledgedKept
<1>1. StoresInv => AcknowledgedKept
  BY DEF StoresInv, PresetsInv, AcknowledgedKept, Settled, AllIdle
<1> QED
  BY <1>1, StoresInvHolds, PTL

\* _save_url_mapping, _persist_jobs: a change that is saved with no other beside
\* it leaves all of the memory on disk, whatever overlapping changes, refused
\* registrations and failures left there before it.
THEOREM LoneChangeSaved == Spec => []SavedIsMemory
<1>1. StoresInv => SavedIsMemory
  BY DEF StoresInv, MemoryInv, SavedIsMemory
<1> QED
  BY <1>1, StoresInvHolds, PTL

\* _persist_jobs: saves that do not overlap never leave a manifest that is not
\* whole, wherever the process dies.
THEOREM ManifestStaysWhole == Spec => []ManifestWhole
<1>1. StoresInv => ManifestWhole
  BY DEF StoresInv, MemoryInv, ManifestWhole, WholeOrNone, InMemory
<1> QED
  BY <1>1, StoresInvHolds, PTL

===============================================================================
