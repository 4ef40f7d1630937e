-------------------------------- MODULE Stores --------------------------------
(***************************************************************************)
(* Three of the JSON files the backend keeps, and how each is written:     *)
(*   presets   backend/presets.py: read and rewritten in place by every    *)
(*             request, under one lock;                                    *)
(*   urls      DownloadManager._url_mapping: kept in memory, changed under *)
(*             a lock, rewritten in place after it is released;            *)
(*   manifest  FilterManager._jobs: kept in memory, written to a temporary *)
(*             file that then replaces the manifest, with no lock.         *)
(* They share nothing, so a behaviour follows one of them.                 *)
(*                                                                         *)
(* Opening a file for writing empties it. A process that dies, or a disk   *)
(* that is full, can strike between that and the write. A file of the      *)
(* wrong form is read as one that holds nothing.                           *)
(***************************************************************************)
EXTENDS Naturals

CONSTANTS
    Threads,        \* the event loop and the threads of the request pool
    Keys,           \* presets, file names, jobs
    BundledKeys,    \* those that come with the program: presets, continents
    MaxOps,         \* bound: changes asked for
    MaxFailures     \* bound: crashes and failed writes

ASSUME ThreadsAssumption == "no one" \notin Threads
ASSUME BundledAssumption == BundledKeys \subseteq Keys
ASSUME StoreBoundsAssumption == MaxOps \in Nat /\ MaxFailures \in Nat

VARIABLES
    store,      \* the file followed, which does not change
    file,       \* presets.json, urls.json or manifest.json
    tmp,        \* manifest.json.tmp
    legacy,     \* the file an older release kept in the data directory
    memory,     \* the dictionary in memory (urls, manifest)
    lock,       \* the thread that holds the lock of the presets
    pc, task,   \* where each thread stands, and what it has in hand
    acked,      \* history: what the changes to the presets saved so far come to
    disturbed,  \* history: an overlap, a failure or a refusal has not been made good
    ops, failures

vars == <<store, file, tmp, legacy, memory, lock, pc, task, acked, disturbed, ops, failures>>

(***************************************************************************)
(* Contents: an entry has one of two values, or 0 when there is none.      *)
(***************************************************************************)
Contents == [Keys -> 0 .. 2]
Nothing == [k \in Keys |-> 0]
Bundled == [k \in Keys |-> IF k \in BundledKeys THEN 1 ELSE 0]

NoFile == [state |-> "absent", content |-> Nothing, old |-> FALSE]
Empty == [state |-> "empty", content |-> Nothing, old |-> FALSE]
Torn == [state |-> "torn", content |-> Nothing, old |-> FALSE]
\* "old": the presets still have the names of an earlier release.
Whole(content) == [state |-> "whole", content |-> content, old |-> FALSE]
OldNamed(content) == [state |-> "whole", content |-> content, old |-> TRUE]
Files == [state : {"absent", "empty", "torn", "whole"}, content : Contents, old : BOOLEAN]

Exists(f) == f.state # "absent"

Custom_ByName(content) == [k \in Keys |-> IF Bundled[k] # 0 THEN 0 ELSE content[k]]

\* A default URL is not stored, one the user chose for the same name is.
Custom(content) == [k \in Keys |-> IF content[k] = Bundled[k] THEN 0 ELSE content[k]]

\* _load_url_mapping, _recover_orphan_jobs: what a start finds in the file.
Loaded(f) ==
    IF store = "urls"
    THEN [k \in Keys |-> IF f.content[k] = 0 THEN Bundled[k] ELSE f.content[k]]
    ELSE f.content

Stored(content) == IF store = "urls" THEN Custom(content) ELSE content

\* What the next list of the presets shows.
Visible ==
    IF Exists(file) THEN file.content
    ELSE IF Exists(legacy) THEN legacy.content
    ELSE Bundled

NoOne == "no one"
NoTask == [op |-> "none", key |-> "none", keys |-> {}, data |-> NoFile,
           then |-> "idle", handle |-> "none", alone |-> FALSE]

\* Files as an earlier release, or an earlier run of this one, has left them.
Init ==
    /\ store \in {"presets", "urls", "manifest"}
    /\ tmp = NoFile
    /\ \/ /\ store = "presets"
          /\ file \in {NoFile, Whole(Bundled), OldNamed(Bundled)}
          /\ legacy \in {NoFile, OldNamed(Bundled), Whole([k \in Keys |-> 2])}
          /\ memory = Nothing
       \/ /\ store # "presets"
          /\ file \in {NoFile, Whole([k \in Keys |-> 2])}
          /\ legacy = NoFile
          /\ memory = Loaded(file)
    /\ lock = NoOne
    /\ pc = [t \in Threads |-> "idle"]
    /\ task = [t \in Threads |-> NoTask]
    /\ acked = Visible
    /\ disturbed = FALSE
    /\ ops = MaxOps
    /\ failures = MaxFailures

AllIdle == \A t \in Threads : pc[t] = "idle"

\* A change begins; it runs alone until another begins beside it.
Begin(t, op, key, next) ==
    /\ pc[t] = "idle"
    /\ ops > 0
    /\ ops' = ops - 1
    /\ pc' = [pc EXCEPT ![t] = next]
    /\ task' = [s \in Threads |->
                   IF s = t THEN [NoTask EXCEPT !.op = op, !.key = key, !.alone = AllIdle]
                            ELSE [task[s] EXCEPT !.alone = FALSE]]

End(t) ==
    /\ pc' = [pc EXCEPT ![t] = "idle"]
    /\ task' = [task EXCEPT ![t] = NoTask]

Hand(t, data, then) ==
    /\ pc' = [pc EXCEPT ![t] = "open"]
    /\ task' = [task EXCEPT ![t].data = data, ![t].then = then, ![t].keys = {}]

(***************************************************************************)
(* Presets.                                                                *)
(***************************************************************************)
Acquire_Free(t, op, key) ==
    /\ store = "presets"
    /\ Begin(t, op, key, "load")
    /\ UNCHANGED <<store, file, tmp, legacy, memory, lock, acked, disturbed, failures>>

Acquire(t, op, key) ==
    /\ store = "presets"
    /\ lock = NoOne
    /\ lock' = t
    /\ Begin(t, op, key, "load")
    /\ UNCHANGED <<store, file, tmp, legacy, memory, acked, disturbed, failures>>

\* The presets of an older release are copied, once, with the names they have.
LoadLegacy(t) ==
    /\ pc[t] = "load"
    /\ ~ Exists(file)
    /\ Exists(legacy)
    /\ Hand(t, legacy, "load")
    /\ UNCHANGED <<store, file, tmp, legacy, memory, lock, acked, disturbed, ops, failures>>

LoadBundled_First(t) ==
    /\ pc[t] = "load"
    /\ ~ Exists(file)
    /\ Hand(t, Whole(Bundled), "load")
    /\ UNCHANGED <<store, file, tmp, legacy, memory, lock, acked, disturbed, ops, failures>>

LoadBundled(t) ==
    /\ pc[t] = "load"
    /\ ~ Exists(file)
    /\ ~ Exists(legacy)
    /\ Hand(t, Whole(Bundled), "load")
    /\ UNCHANGED <<store, file, tmp, legacy, memory, lock, acked, disturbed, ops, failures>>

\* Old names are replaced and the file saved before the request goes on.
Migrate(t) ==
    /\ pc[t] = "load"
    /\ file.old
    /\ Hand(t, Whole(file.content), "load")
    /\ UNCHANGED <<store, file, tmp, legacy, memory, lock, acked, disturbed, ops, failures>>

\* create, update and delete_preset on the list that was loaded. A preset that
\* is created gets a key no other has.
Result(op, key, list) ==
    IF op = "create" /\ list[key] = 0 THEN [list EXCEPT ![key] = 1]
    ELSE IF op = "update" /\ list[key] # 0 THEN [list EXCEPT ![key] = 2]
    ELSE IF op = "delete" THEN [list EXCEPT ![key] = 0]
    ELSE list

\* What is changed is saved, though it may read as it did.
Saves(op, key, list) ==
    \/ op = "create" /\ list[key] = 0
    \/ op \in {"update", "delete"} /\ list[key] # 0

Load(t) ==
    /\ pc[t] = "load"
    /\ Exists(file)
    /\ ~ file.old
    /\ IF Saves(task[t].op, task[t].key, file.content)
       THEN /\ Hand(t, Whole(Result(task[t].op, task[t].key, file.content)), "saved")
            /\ UNCHANGED lock
       ELSE /\ lock' = NoOne
            /\ End(t)
    /\ UNCHANGED <<store, file, tmp, legacy, memory, acked, disturbed, ops, failures>>

(***************************************************************************)
(* The dictionaries in memory.                                             *)
(***************************************************************************)
InMemory == store \in {"urls", "manifest"}

\* register_url, register_and_start, create_job, a change of status.
Change(t, key, value) ==
    /\ InMemory
    /\ Begin(t, "change", key, "iterate")
    /\ memory' = [memory EXCEPT ![key] = value]
    /\ disturbed' = (disturbed \/ ~ AllIdle)
    /\ UNCHANGED <<store, file, tmp, legacy, lock, acked, failures>>

\* register_and_start for a file under transfer: its URL is replaced, and the
\* refusal comes before the mapping is saved.
RefusedChange(t, key, value) ==
    /\ store = "urls"
    /\ pc[t] = "idle"
    /\ ops > 0
    /\ memory[key] \notin {0, value}
    /\ ops' = ops - 1
    /\ memory' = [memory EXCEPT ![key] = value]
    /\ disturbed' = TRUE
    /\ task' = [s \in Threads |-> [task[s] EXCEPT !.alone = FALSE]]
    /\ UNCHANGED <<store, file, tmp, legacy, lock, pc, acked, failures>>

Present(content) == {k \in Keys : content[k] # 0}

\* The comprehension over the dictionary, outside every lock.
Iterate(t) ==
    /\ pc[t] = "iterate"
    /\ pc' = [pc EXCEPT ![t] = "iterating"]
    /\ task' = [task EXCEPT ![t].keys = Present(memory)]
    /\ UNCHANGED <<store, file, tmp, legacy, memory, lock, acked, disturbed, ops, failures>>

Iterated(t) ==
    /\ pc[t] = "iterating"
    /\ task[t].keys = Present(memory)
    /\ Hand(t, Whole(Stored(memory)), IF store = "manifest" THEN "replace" ELSE "saved")
    /\ UNCHANGED <<store, file, tmp, legacy, memory, lock, acked, disturbed, ops, failures>>

\* RuntimeError: dictionary changed size during iteration. Nothing catches it.
IterationFails(t) ==
    /\ pc[t] = "iterating"
    /\ task[t].keys # Present(memory)
    /\ End(t)
    /\ UNCHANGED <<store, file, tmp, legacy, memory, lock, acked, disturbed, ops, failures>>

(***************************************************************************)
(* Writing.                                                                *)
(***************************************************************************)
Target_InPlace == "file"

Target == IF store = "manifest" THEN "tmp" ELSE "file"

Put(handle, f) ==
    /\ file' = IF handle = "file" THEN f ELSE file
    /\ tmp' = IF handle = "tmp" THEN f ELSE tmp

At(handle) == IF handle = "file" THEN file ELSE tmp

OpenFile(t) ==
    /\ pc[t] = "open"
    /\ pc' = [pc EXCEPT ![t] = "write"]
    /\ task' = [task EXCEPT ![t].handle = Target]
    /\ Put(Target, Empty)
    /\ UNCHANGED <<store, legacy, memory, lock, acked, disturbed, ops, failures>>

\* Whoever writes over what another has written since may leave its tail. A
\* file that was replaced meanwhile is still written to, and lost.
WriteFile(t) ==
    /\ pc[t] = "write"
    /\ pc' = [pc EXCEPT ![t] = task[t].then]
    /\ LET handle == task[t].handle
       IN  \/ Put(handle, task[t].data)
           \/ At(handle) \notin {Empty, task[t].data} /\ Put(handle, Torn)
    /\ task' = [task EXCEPT ![t].handle = "none"]
    /\ acked' = IF task[t].then = "saved" THEN Result(task[t].op, task[t].key, acked) ELSE acked
    /\ UNCHANGED <<store, legacy, memory, lock, disturbed, ops, failures>>

\* os.replace: the temporary file takes the place, and open handles with it.
Replace(t) ==
    /\ pc[t] = "replace"
    /\ Exists(tmp)
    /\ file' = tmp
    /\ tmp' = NoFile
    /\ pc' = [pc EXCEPT ![t] = "saved"]
    /\ task' = [s \in Threads |->
                   [task[s] EXCEPT !.handle = CASE @ = "tmp" -> "file"
                                                [] @ = "file" -> "gone"
                                                [] OTHER -> @]]
    /\ UNCHANGED <<store, legacy, memory, lock, acked, disturbed, ops, failures>>

\* Another thread has moved it away: FileNotFoundError, which is logged.
NothingToReplace(t) ==
    /\ pc[t] = "replace"
    /\ ~ Exists(tmp)
    /\ pc' = [pc EXCEPT ![t] = "saved"]
    /\ UNCHANGED <<store, file, tmp, legacy, memory, lock, task, acked, disturbed, ops, failures>>

\* The lock is released. A change that ran alone to its end has made good what
\* came before it, where the file is written from memory.
Saved(t) ==
    /\ pc[t] = "saved"
    /\ lock' = NoOne
    /\ disturbed' = (disturbed /\ ~ (InMemory /\ task[t].alone))
    /\ End(t)
    /\ UNCHANGED <<store, file, tmp, legacy, memory, acked, ops, failures>>

(***************************************************************************)
(* Failures.                                                               *)
(***************************************************************************)
Fail == failures > 0 /\ failures' = failures - 1

\* _load catches a failure to save the bundled or the renamed presets, not one
\* to copy the old file.
Caught(t) == task[t].then = "load" /\ task[t].data # legacy

\* It then goes on as if there were no presets, and a change is saved over those
\* there are.
LoadFails(t) ==
    /\ pc[t] \in {"open", "write"}
    /\ Caught(t)
    /\ Fail
    /\ disturbed' = TRUE
    /\ IF Saves(task[t].op, task[t].key, Nothing)
       THEN /\ Hand(t, Whole(Result(task[t].op, task[t].key, Nothing)), "saved")
            /\ UNCHANGED lock
       ELSE /\ lock' = NoOne
            /\ End(t)
    /\ UNCHANGED <<store, file, tmp, legacy, memory, acked, ops>>

\* The disk is full, the directory not writable: answered with an error
\* (presets), or logged. What was opened stays as it is.
WriteFails(t) ==
    /\ pc[t] \in {"open", "write"}
    /\ ~ Caught(t)
    /\ Fail
    /\ disturbed' = (disturbed \/ InMemory \/ pc[t] = "write")
    /\ lock' = IF lock = t THEN NoOne ELSE lock
    /\ End(t)
    /\ UNCHANGED <<store, file, tmp, legacy, memory, acked, ops>>

\* The process dies and is started again.
Crash ==
    /\ Fail
    /\ disturbed' = (disturbed \/ (store = "presets" /\ \E t \in Threads : pc[t] = "write"))
    /\ memory' = IF InMemory THEN Loaded(file) ELSE memory
    /\ lock' = NoOne
    /\ pc' = [t \in Threads |-> "idle"]
    /\ task' = [t \in Threads |-> NoTask]
    /\ UNCHANGED <<store, file, tmp, legacy, acked, ops>>

Next ==
    \/ \E t \in Threads :
        \/ \E key \in Keys :
            \/ \E op \in {"list", "create", "update", "delete"} : Acquire(t, op, key)
            \/ \E value \in 1 .. 2 : Change(t, key, value) \/ RefusedChange(t, key, value)
        \/ LoadLegacy(t) \/ LoadBundled(t) \/ Migrate(t) \/ Load(t)
        \/ Iterate(t) \/ Iterated(t) \/ IterationFails(t) \/ Saved(t)
        \/ OpenFile(t) \/ WriteFile(t) \/ Replace(t) \/ NothingToReplace(t)
        \/ LoadFails(t) \/ WriteFails(t)
    \/ Crash

Spec == Init /\ [][Next]_vars

(***************************************************************************)
(* Properties.                                                             *)
(***************************************************************************)
Tasks == [op : {"none", "list", "create", "update", "delete", "change"},
          key : Keys \cup {"none"}, keys : SUBSET Keys, data : Files,
          then : {"idle", "load", "saved", "replace"},
          handle : {"none", "file", "tmp", "gone"}, alone : BOOLEAN]

TypeOK ==
    /\ store \in {"presets", "urls", "manifest"}
    /\ {file, tmp, legacy} \subseteq Files
    /\ memory \in Contents /\ acked \in Contents
    /\ lock \in Threads \cup {NoOne}
    /\ pc \in [Threads -> {"idle", "load", "iterate", "iterating", "open", "write",
                           "replace", "saved"}]
    /\ task \in [Threads -> Tasks]
    /\ disturbed \in BOOLEAN
    /\ ops \in 0 .. MaxOps /\ failures \in 0 .. MaxFailures

\* The next list shows what all changes that were saved come to, across
\* threads, restarts, the copy from the old place and the renaming, as long as
\* no write was cut short, or failed while they were loaded (the lock in
\* presets.py).
AcknowledgedKept == store = "presets" /\ AllIdle /\ ~ disturbed => Visible = acked

\* A change that is saved, with no other beside it, leaves on disk what is in
\* memory, whatever overlapping changes, refused registrations, crashes and
\* failed writes have left out, cut short or lost before it (_save_url_mapping,
\* _persist_jobs): a restart then loses nothing, until the next of these.
SavedIsMemory == InMemory /\ AllIdle /\ ~ disturbed => Loaded(file) = memory

\* The manifest is whole at every moment, in the middle of a save and after a
\* crash there, as long as saves do not overlap ("atomic snapshot").
ManifestWhole == store = "manifest" /\ ~ disturbed => file.state \in {"absent", "whole"}

(***************************************************************************)
(* Stated by the code, and not kept by it.                                 *)
(***************************************************************************)

\* _persist_jobs: "Write atomic snapshot of all jobs".
SnapshotIsAtomic == store = "manifest" => file.state \in {"absent", "whole"}

\* Every URL that was registered is there after a restart. Two threads break it,
\* and so does one, with a registration that is refused.
UrlsAreKept == store = "urls" /\ AllIdle /\ failures = MaxFailures => Loaded(file) = memory

=============================================================================
