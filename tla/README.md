# Verification of PBF Forge

PBF Forge downloads OpenStreetMap extracts (`*.osm.pbf`), keeps them fresh and
filters them with `osmium` and `ogr2ogr`. It is one Python process: a FastAPI
application whose plain request handlers run in a thread pool, two executors of
its own for downloads and checks, and an asyncio loop that runs filter jobs and
broadcasts events over a WebSocket. This directory holds TLA+ models of its
core logic, the TLC runs that check them on small instances, and proofs checked
by TLAPS. Paths below are relative to `src/backend`.

## Inventory

| Component | State | Operations | Who else touches it |
|---|---|---|---|
| Download rows (`download_manager.py`) | `_files` (one `FileState` per file), `_cancel_flags`, the data directory | scan, check, check all, start, register and start, cancel, discard; the worker | request threads, 8 check threads, 3 download workers, the user's file manager |
| Transfer content (`_download_worker`, `_do_download`, `_resume_offset`, `_verify_checksum`) | the bytes of `.part`, its date, the final file | HEAD, Range request, append, verify, publish, stamp | the host, which rebuilds the file daily and publishes a sidecar that may lag |
| Download pool (`_executor`) | a queue and 3 workers | submit, run, wait for the host | every transfer |
| URL mapping | `_url_mapping`, its JSON file | load, save, register, resolve (`_lookup_url`) | registrations on several threads |
| Filter job queue (`filter_manager.py`) | `_jobs`, the semaphore, `_running_count`, `_procs`, the manifest | create, run, cancel, clear, list, recover | coroutines, request threads, subprocesses |
| Filter pipeline (`_execute_job`) | phases, temporary directory, outputs, reports | the passes over each source, publication by move, reports | downloads that replace a source |
| Job manifest (`_persist_jobs`) | `jobs/manifest.json` and its temporary file | persist, recover | every change of a job, on any thread |
| Fan-out (`ws_manager.py`, `main.ws_endpoint`) | connected clients | connect with a snapshot, broadcast, disconnect | all of the above |
| User configuration (`routes/settings.py`, `main.py`, `start.sh`) | one JSON file, the mount of the container, the memoised host path | read, modify, write; clear `pending_restart` at startup; choose the mount | three routes, the startup, `start.sh` on the host |
| Presets (`presets.py`) | one JSON file | list, create, update, delete, migrate | request threads, under a lock |
| Update check (`update_check.py`) | a cache file | check at most once a day, hourly after a failure | page loads |
| Filter history (`filter_history.py`) | up to 200 durations | record, load, set aside a corrupt file | jobs |
| Pure algorithms | none | `_compute_max_parallel`, `_resource_limits`, `_retry_delay`, `_lookup_url`, `fold_feature` | none |

They interact through the data directory (a download replaces the source a
filter is reading), through the WebSocket (starts, progress, answers of checks,
and every change of a job's status are broadcast; what a scan changes or finds
is not, and a page learns it from its next list or snapshot) and through the
configuration directory. There is no lock across
components; `DownloadManager._lock` covers the rows and the flags, and nothing
covers `FilterManager`, whose coroutines share one loop but whose `create_job`
and `clear_completed_jobs` run on request threads.

What is hard about it: threads that share rows under a lock they release around
every stat call and every request; verdicts computed from answers that may be
half a minute old; files the user moves, and a host that replaces the file
behind the URL, in the middle of a transfer; cancels that arrive while a worker
waits ten minutes for a network; job state changed from threads and coroutines;
a semaphore whose freed slots are taken up later than they are freed; jobs that
publish file by file and may fail between any two; crashes between publish,
stamp and persist. The list, line by line, is `hazards` in `PROJECT.json`.

What makes each part correct, in a sentence:

- *Rows*: one worker owns a file at a time; a row shows a transfer or a check
  exactly while somebody will end it; offers follow the figures in the row; the
  only report of discarded bytes is not lost.
- *Queue*: a bounded number of jobs executes, in the order in which they came;
  no slot is lost; every accepted job ends, unless a helper that has no time
  limit hangs; a failed command is never a success; what ended stays; a job in
  flight has a coroutine, unless an exception has left it.
- *Pipeline*: only finished work is published; done means complete; phases,
  status and reports tell what was done.
- *Transfer content*: what is published is one build of the host, does not
  carry the date of a newer one and never goes back; no usable bytes are thrown
  away; downloading again and again ends with the build that is served.
- *Pool*: an accepted download is run once; a cancel gives back the worker; no
  host that is away holds up the others for ever.
- *Manifest, mapping, presets*: the presets show every change that was saved; a
  save of the others that nothing overlaps puts all of the memory on disk, and the
  manifest is whole as long as saves do not overlap.
- *Configuration*: what the page shows as in effect is what is mounted, and what
  the jobs get.
- *Fan-out*: a page that stays is sent every row that is announced (starts, checks,
  discards, transfers); what a scan finds is not announced.

## Modules

| Module | What it is |
|---|---|
| `Freshness` | the pure rules that judge a row: `_freshness`, `_scanned_status`, `_is_superseded`, `_resume_offset` |
| `DownloadRows` | one row with all its threads, workers, host, user and restarts |
| `RowLifecycle` | abstract: what the download tab may rely on about a row |
| `Transfer` | the bytes of one file: which build each is of, the checksum, the date stamped |
| `Mirror` | abstract: a copy on disk that is whole, may lag, and only moves forward |
| `Pool` | the downloads of all files over few workers and one disk |
| `FilterJobs` | the job list, the semaphore, the coroutines, the processes, the manifest, cancel, clear, restart |
| `SlotQueue` | abstract: a first-come first-served queue of bounded width, which the semaphore of the jobs implements |
| `FilterPipeline` | one job: sources, passes, exports, publication, phases, reports |
| `Stores` | three JSON files and how each is written: presets, URLs, manifest |
| `UserConfig` | the configuration file, the container and what it mounts |
| `Limits` | pure: job slots, threads and niceness |
| `Fanout` | what the open pages are told |
| `MCDownloadRows`, `MCTransfer`, `MCPool`, `MCFilterJobs`, `MCFilterPipeline`, `MCStores`, `MCUserConfig` | constants and symmetry for TLC |
| `DownloadRowsProofs`, `TransferProofs`, `FilterJobsProofs`, `FilterPipelineProofs`, `StoresProofs`, `UserConfigProofs`, `PoolProofs`, `FanoutProofs` | theorems |

`Transfer` and `DownloadRows` share `Freshness`, `UserConfig` has `Limits`; the
others stand beside each other and meet in what one shows and another takes for
granted: `DownloadRows` shows that a file has one worker at a time, which
`Transfer` and `Pool` start from; `Pool` has the course of a download as far as
files get in each other's way, `DownloadRows` the row of one file in full, and
`Transfer` its bytes; the file that `Transfer` publishes is the source that is
replaced under a job in `FilterPipeline`; `FilterJobs` writes the manifest in
one step, whose steps are in `Stores`; the number of slots it has is computed
in `Limits`, and the changes of its jobs and of the rows are what `Fanout`
sends.

An operator named `X_<fault>` stands before `X` and is `X` with one mistake a
change to the code could make. No behaviour uses one. Each property has been
seen to fail with one of them in place; `mutants` in `PROJECT.json` says which.

### DownloadRows

One action is one critical section of `DownloadManager._lock`, one call to the
file system, or one answer from the network: between any two of those another
thread can run.

| State | Code |
|---|---|
| `row` | `_files[filename]`; status `absent` for no entry |
| `disk` | size and mtime of `<name>` and `<name>.part` |
| `flag`, `event`, `raised` | the event in `_cancel_flags[filename]`, the one each worker was submitted with, the ones that are set and that somebody may still ask |
| `hand`, `asked` | the event each `cancel_download` has looked up and not set yet; history: the workers for whose transfer a cancel has come |
| `wpc`, `work` | where each `_download_worker` stands and its locals (`size, mtime`, `start_byte`, attempt, the open file) |
| `tpc`, `task` | the same of the threads in `list_files`, `check_file`, `discard_partial` |
| `host`, `mapped`, `budget` | the build served; whether the name resolves to a URL; what is left of the bounds |

Whether the object a thread or worker holds is still the one in `_files` is the
field `own`: a row that is dropped and created again is another `FileState`, and
writes to the old one reach nobody. A transfer is `queued` from the click until a
thread of the pool takes it up (`TakeUp`). `cancel_download` is two steps: the
event is looked up under the lock (`CancelDownload`) and set after it
(`CancelSet`), when the transfer may be over and another one of the same file
under way. An unlink that fails (`DiscardFails`) ends the discard. Whether the file a worker has open is still
the one in the directory is `linked`. In `Settle`, the stat call and the
critical section after it are one step: between them only the user or a discard
can touch the `.part` of a row under transfer, and the discard is refused. The
order of the worker's broadcasts, byte counters and speed are left out. What the
bytes are is told apart in `Transfer`.

### FilterJobs

One action of the event loop lasts from one await to the next; a thread may run
between any two reads or writes of the shared dictionary (`ClearBuild`,
`ClearSwap`, `ClearPersist`).

| State | Code |
|---|---|
| `listed`, `status`, `cancelled` | the keys of `_jobs`, `FilterJob.status`, `.cancelled` |
| `co`, `proc`, `commands` | the place of `run_job` and `_execute_job`, `_procs[job_id]`, the commands and helpers that are behind the job |
| `slots`, `waiters`, `wakened` | `Semaphore._value`, `_waiters`, and how many at its front have been handed a slot and not yet run |
| `runningCount` | `_running_count` |
| `manifest`, `unsaved` | what `manifest.json` says; whether the last write of it took place |
| `stranded` | the jobs whose `create_job` or `run_job` was left by an exception |
| `clear` | the thread in `clear_completed_jobs` and the dictionary it has built |

`Locked`, `Release` and `LeaveDeque` are `asyncio.Semaphore` (an external
library, modelled from CPython's behaviour as `run_job` uses it): a release
hands the slot to the first waiter, which runs later; somebody who comes
meanwhile must queue behind it. `_persist_jobs` is one step here, which may fail:
an `OSError` is logged and the manifest stays behind (`NotSaved`); a job that is
created while the dictionary is read makes it raise (`BreaksOff`), out of the
route after `create_job` has listed the job, out of `run_job` before it has the
semaphore, out of `_execute_job` before its `try`, or out of its end. `Execute`
may also raise after the write, where `_resource_limits` meets a setting that is
no number. A job left that way is `stranded`: it frees its slot and stays in the
list as it was. `ogrinfo` (`_get_fields`) and the tag reduction are "helpers":
they are not in `_procs`, so no cancel reaches them, they run under no limit, and
the exit code of `ogrinfo` is ignored. Formats, logs, `queue_position` and
broadcasts are left out.

### FilterPipeline

| State | Code |
|---|---|
| `pc`, `src`, `fmt` | the place in `_execute_job`, the loop over the sources and over the other formats |
| `work`, `shared` | the filtered PBF in the temporary directory, `shared_geojson` |
| `final`, `outputs` | what lies at the output paths; `job.output_files` and `published` |
| `index`, `ticking`, `timed` | `current_phase_index`; `phase_started_at` is set; the phases timed, each with the work it was timed for |
| `errors`, `dropped`, `report` | `geometry_errors`; what each export really dropped; what the report beside each output says |
| `build` | the build each source file has on disk; a download may replace it at any time |

A file is the source it comes from, the build of that source, and the set of
passes it has been through. Every command may fail (`Fail`), and so may every
move; only `ogrinfo` is not heeded, which names the columns of an export that
was not folded: if it fails, the export is published without them
(`GetFields`). The removal of an old output and the move of the new one are two
steps (`Convert`, `PlaceExport`). `shutil.move` renames; where the temporary
directory and the data are on different file systems it copies, so that
something unfinished lies at the path meanwhile, and stays there if the copy
fails (`BeginCopy`). A request may name no source at all, which the route
accepts: its job writes no output and is "done". Sources named twice in one
request, and two jobs with the same output path, are not asked for; command
lines, expressions, SQL and the column
limit are left out. The job ends, so the runs of this module do not check for
deadlock.

### Transfer

| State | Code |
|---|---|
| `site` | how the host is set up: what its `.md5` names, where the URL redirects, whether the `.md5` is in step and answers are dated |
| `host` | the newest build made, the one served, the one the `.md5` describes |
| `part`, `dest` | the bytes of `<name>.part` and `<name>`, chunk by chunk with their build, and the mtime |
| `pc`, `job` | the place in `_download_worker`, `_do_download`, `_verify_checksum`; `mtime`, `start_byte`, the attempt, the loop, the build behind an open connection or a resolved URL |

The host moves at any moment: it makes a build, serves it, and renews the `.md5`
before or after, unless it is in step. A failure is a lost connection, an
answer that is missing, a cancel or a crash, and may come at every step. A byte
written by a connection that is still open carries the date of the newest build
made, which is how a resume may splice two builds; the checksum then decides.

### Pool

| State | Code |
|---|---|
| `queue`, `worker` | the executor's work queue; the file each of its threads is at |
| `at` | `"none"` without a cancel event, then the place of the worker: first request, transfer, or one of the two ten-minute waits |
| `cancelled` | the events that are set |
| `part`, `copy` | chunks on the disk, which all files share |
| `reachable` | whether the host of each file answers; only those of `Unsteady` ever cease to |

### Stores

`store` says which of the three files a behaviour follows; they share nothing.

| State | Code |
|---|---|
| `file`, `tmp`, `legacy` | the file, the manifest's temporary file, the presets of an older release in the data directory |
| `memory` | `_url_mapping`, `_jobs`: what the file is written from |
| `lock` | `_lock` of `presets.py` |
| `pc`, `task` | where a request, or the loop, stands; the text it is about to write, the file it has open |
| `acked` | what the presets saved so far come to |
| `disturbed` | an overlap or a failure that has not been made good |

Opening a file for writing empties it and is a step of its own; a process that
dies between the two steps leaves an empty file. A second writer on the same
file may leave the tail of the first (`Torn`). Iterating over a dictionary that
has changed size raises `RuntimeError`, which neither `_save_url_mapping` (the
comprehension is outside the `try`) nor `_persist_jobs` (which catches
`OSError`) handles: `IterationFails`. The one-time copy of `urls.json` is part
of `Init`: what an older release left is there when the program runs. What
`_recover_orphan_jobs` changes about a job is in `FilterJobs`.

### UserConfig and Limits

| State | Code |
|---|---|
| `file` | `config/user-config.json` |
| `launch`, `mount` | `DATA_DIR` as `start.sh` has read it; `HOST_DATA_DIR` of the container. History: whether nobody was writing when it was read (`undisturbed`), and whether the startup could not write (`stuck`) |
| `server`, `cpu` | down, starting or up, and on how many processors |
| `hostPath` | the memo of `host_data_dir` |
| `pc`, `task` | the startup and each request between its read, its open and its write |
| `chosen` | a directory was chosen since the container was made |

`start.sh` runs on the host, so it may read the file at any moment, in the
middle of a write too. A write can fail before or after it has emptied the file
(`WriteFails`): a request ends with an error, the startup logs one and serves
with the page still locked, so `UnlockedByLaunch` leaves that start out.
`Limits` is pure; memory is counted in fractions of a gigabyte. `MCUserConfig`
assumes `SlotsFit` for 40 processors and 40 gigabytes,
so TLC evaluates it.

### Fanout

| State | Code |
|---|---|
| `version`, `announced` | the row, and the newest change of it that is to be told to the pages |
| `due`, `held` | the change for which a thread has yet to copy the row (`to_dict`, mostly without the lock); the copy it has not yet handed to the loop |
| `waiting`, `casts` | coroutines handed to the loop; broadcasts that have begun, each with the connections still to be told and the list `dead` of those that could not be |
| `active` | `ConnectionManager._active` |
| `link`, `stage`, `snapshot` | each connection as it is, how far `ws_endpoint` has come with it, the snapshot taken for it and not yet sent |
| `shown`, `best` | what its page shows, and the newest it was sent |

One row stands for all, since a message replaces one row and leaves the others.
Not every change is announced: `_sync_local_state` writes what it finds on the
disk (`download_manager.py:453` and `:462`), a check that finds no URL returns
after that (`:522`), and a worker's byte counters go out once a second. These
are `Scan`; the properties speak of announced changes, and `EveryChangeIsSent`
states the rest, which the code does not keep. A start copies the row in the
critical section that changes it (`Start`), the others after it (`Change`, then
`CopyRow`), so that their copy may hold later changes, too. A copy made while
the row changes counts as the row when it was begun.
A broadcast yields at every send, so another may overtake it; it takes the dead
out of `active` when it is through (`EndCast`; `list.remove` is `RemoveFirst`),
when another broadcast, or the endpoint itself, may have done so already. A page that stops
reading holds up whoever sends to it until the server's ping fails.

## Runs

`tlc -workers 2 -config <cfg> <module>`; every passing run ends within about three
minutes on two workers.

| Run | Question | Bounds |
|---|---|---|
| `concurrent` | Can any order of two threads, a worker and the user's hands on the files take the row from its owner, leave "checking" or a progress bar behind, or break the row lifecycle (`RowLifecycle`)? | 2 threads that check and discard, 1 worker, no cancel, 1 build of one chunk, 1 attempt, 1 move |
| `moves` | The same when the user moves a file in or out and the process restarts, with two workers: is there one worker at a time, does a cancel reach its own transfer only, however late it sets its event, does the report of discarded bytes stay, is the lifecycle kept? | 1 thread (scan, check, discard), 2 workers, 1 cancel at a time and 2 events, 1 build of one chunk, 1 move, 1 restart, 2 attempts |
| `live` | Does every check end, does every transfer that a worker has taken up free its row after a cancel, and does an offer always agree with the figures in its row? | 1 thread that checks, 1 worker, 2 builds of one chunk, 1 attempt |
| `transfer` | Is a finished file one whole build, not dated after its content, never older than before (`Mirror`); are usable bytes kept; do repeated downloads end with the build served? | all 24 kinds of host, 3 builds of 2, 3 and 2 chunks, 2 retries, 3 failures |
| `pool` | Is each accepted download in one place, does a cancel free its worker, does every accepted download end? | 3 files of one chunk, 2 workers, a disk of 2 chunks, 2 hosts that may go away |
| `queue` | Do the semaphore and `run_job` implement a first-come first-served queue of bounded width (`SlotQueue`), is no slot left unused and no job left waiting for nothing, is a failed command never a success? | 4 jobs, 2 slots, cancel |
| `jobs_live` | Is there a coroutine for each job in flight that no exception has left, is what ended final, does every accepted job end whose helpers do? | 2 jobs, 1 slot, cancel, clear, 1 restart, 1 failed write or bad setting |
| `outputs` | Is only finished work published, is a job that is done complete, do the phases name the work, what do the reports tell of it, and does each step bring the job nearer to its end? | every request over no, one or 2 extracts, 1 new build of each |
| `stores` | Are saved presets kept, is a lone change on disk when it ends, is the manifest whole? | 2 threads, 2 keys, 4 changes, 2 crashes or failed writes |
| `config` | Does the configuration in effect name what is mounted, is a new container unlocked, do the page and the jobs agree about the limits? | 2 threads, 2 directories, 3 changes, 1 or 2 processors |
| `fanout` | Is the announced change that a page has not been sent on its way to it, and is every one sent to a page that stays? | 2 threads, 2 pages, 2 changes, announced or not |
| `spare` | A discard may remove the `.part` of a transfer (finding) | 1 thread that discards, 1 worker |

Why the bounds are enough. In `DownloadRows` a conflict takes two parties that
hold a verdict at the same time: two threads, a thread and a worker, or, when a
row is dropped and made again, two workers; a cancel is late for one transfer
only, so two events suffice for one canceller. The host replaces its build in
`live` only, where two builds give every relation of local and remote dates
(older, equal, newer); sizes do not differ in any run, and are covered by the
theorems alone. Cancels beside restarts and moved files are left to `moves`, late
ones and the retries of the fast loop, too; the slow loop has no end to its
retries in any run. In
`Transfer` a splice takes two builds, and a third is needed to publish beside a
splice and to go on from there; lengths that grow and shrink again let a `.part`
be shorter than, as long as and longer than what the host serves. In `Pool` the
third file waits in line while the others hold both workers and wait for their
hosts, and a disk of two chunks may fill up after both have passed the check
(a chunk fewer than all the files need). In `FilterJobs` a free
slot beside a woken waiter and a newcomer needs two slots given back and a
fourth job; a job's own life needs fewer. In `FilterPipeline` the second source
shows what the first left behind, and two export formats are all there are. In
`Stores` two writers are enough for each order of open, write and replace, a
third change comes on top of the damage, and a fourth makes it good. In
`UserConfig` a request is needed that overlaps another, and one more that reads
what is left. In `Fanout` a broadcast overtakes another, and a page goes away
before the one behind it is told. The proofs cover every value of the constants. A
type invariant is checked where it bounds more than types (`transfer`); those of
the other modules are proved.

`CHECK_DEADLOCK FALSE` stands where the system really comes to rest: in `queue`
(the four jobs have ended), `outputs` (one job, which ends), `stores` and
`fanout` (the changes of the bound have been made). Symmetry is used in runs of
invariants and action properties only.

## Fairness

- `DownloadRows!FairSpec`: weak fairness of the next step of every thread in a
  request (`Progress(t)`), of every cancel that has looked its event up (`CancelSet(c)`),
  and of every worker that has a thread of the pool (`Worker(w)`). Every request
  has a timeout and every wait of the worker an end (`Event.wait(timeout)` with
  `SLOW_RETRY_INTERVAL_SECONDS`, or a delay between attempts), so each of their
  steps comes to pass if nothing makes it impossible. Nothing is assumed of
  `TakeUp`: others may hold the threads of the pool, and what becomes of a
  submission is the question of `Pool`. No fairness is assumed of users, of the
  host or of restarts.
- `Transfer!FairSpec`: weak fairness of the worker's own steps, for the same
  reason, and of the user, who starts a download again as long as there is a
  newer build. Failures, crashes and builds are bounded, and nothing is assumed
  of them. `Converges` is claimed only for hosts whose `.md5` is in step and
  names the file as the URL does or is found by the redirect: for the others the
  code keeps the `.part` and says so, and no download can help.
- `Pool!FairSpec`: weak fairness of the executor's threads (`Take`, `Work`).
  Nothing is assumed of hosts and users; `AcceptedEnds` speaks of the behaviours
  in which, from some time on, every host answers.
- `FilterJobs!FairSpec`: weak fairness of `Advance(j)`, since the event loop
  runs every coroutine that is ready, and of `ProcessEnds(j)`, since `_run_cmd`
  waits for its process (`_consume_and_wait`) under `ABSOLUTE_TIMEOUT_SECONDS` and
  kills it then. No fairness is assumed of the helpers (`HelperEnds`), which have
  no limit: `JobsEnd` speaks of the behaviours in which none of them hangs. The
  semaphore is first come first served, so weak fairness suffices for those who
  wait.
- `Fanout!FairSpec`: weak fairness of the threads that have a change to announce, of
  the loop's coroutines, and of the loss of a connection that has stopped
  reading: the server pings its connections and closes one that does not answer.

## Proofs

Checked by TLAPS, for every value of the constants that meets the assumptions,
which are named and stand in the modules that declare the constants: bounds are
naturals, jobs, files and workers are finite sets, there is at least one slot, a row
has at least its first version, builds have a length, and the values that stand for "nobody" or "no directory" are not
members of the sets they are missing from.

**Rows** (`DownloadRowsProofs`). `TypeCorrect` is
inductive by itself. `OwnershipHolds` proves `Ownership`, which is the reason
why the rows are safe although the lock is released around every stat call and
request: no two workers are between the click and the end of the finally block,
and the event in `_cancel_flags` is the event of the one that is (`FlagIsHeld`);
the row shows a transfer exactly until that one reports; its event is in the hand
of a cancel only after a cancel has come for it (`HandsHoldAsked`), which is why
an event that is set late stops nobody else; a row that says "checking" has a
thread that will answer; whoever writes to a row without looking holds the row on
display. `OneWorkerAtATime`, `TransfersOwned`,
`CancelsReachTheirOwn` and `ChecksAnswered` read off it what the runs check.
`OffersHold`, `ReportStays` and `Refinement` follow from it step by step: the
mapping to `RowLifecycle` is `Phase` (the five phases into which the statuses
fall), whether an event is registered, and the number of restarts, without which
any step to an idle row could pass for a restart. `PausedIsResumed` is about the
pure rules: whatever figures make `_freshness` offer to resume a partial make
`_resume_offset` resume it. The scan of a row that was never checked has no
figures of the host: it says "paused" beside any `.part`, an empty or superseded
one too.

**Transfer** (`TransferProofs`). `TransferInv == TypeOK /\ HostOK /\ CopyOK /\
PartOK /\ WorkerOK /\ DateOfContent`. `HostOK`: nothing is served or described
that has not been made. `CopyOK`: a finished file is one build, whole, not newer
than the one served. `PartOK` is the heart: the bytes of a `.part` are of builds
that were made no later than its date, and of builds no older than the finished
file, so that even a splice ends as a build that is not older once a checksum
accepts it. `WorkerOK` says for each place what the worker knows of the offset,
the connection, the resolved URL and, before publishing, that the bytes are one
build whose date the figures at hand do not exceed where the `.md5` is in step.
From it follow `TypeCorrect`, `FinishedIsOneBuild`, `DateNotAhead`,
`UsableBytesKept` (an action property) and `ImplementsMirror`, whose refinement
mapping takes the copy to the build it is of and the host to the newest build
made: `Publish` is `Replace`, `MakeBuild` is `Make`, and every other step a
stutter.

**Queue** (`FilterJobsProofs`). `Inv == TypeOK /\ QueueInv /\ ListInv`.
`QueueInv` counts: free slots, slots handed to woken waiters, and executing jobs
add up to `MaxParallel`, and the line holds each waiting job once. Neither
`SlotsBounded` nor `NoIdleSlot` is inductive without it, because between the
release and the waiter's next run the slot is in nobody's hands. `ListInv`
relates, for each job, the list, the place of its coroutine, whether it was
left by an exception, and the manifest, if the last write of it took place.
From it follow `JobsTypeCorrect`, `SlotsAreBounded`, `NoSlotIdles`,
`InFlightJobsAlive`, `FailedCommandsFail`, `EndedJobsAreFinal`, and that the
queue is implemented (`SlotsRefineQueue`: the line is `waiters`, the executing
jobs are `Holders`).

Of `JobsEnd`, which is liveness, the half that is safety is proved, for any
number of jobs and of commands. `WaitInv` adds to `Inv` that each coroutine that
waits is in the deque, and that one that waits for a command has a process; with
the count of `QueueInv` somebody then holds a slot or was handed one, so that
nobody waits in vain (`NobodyWaitsForNothing`). And the steps of a job run out:
`StepsLeft`, a natural number, falls with each of them and rises with no other
step (`JobsRunOutOfSteps`). What is left to the run is the use of fairness.

**Pipeline** (`FilterPipelineProofs`). `PipelineInv == TypeOK /\ Held /\ Ahead
/\ PbfAhead /\ Finished`. `Held` says for each place of the pipeline which passes
the work file and the export have been through, and that both are of the source
at hand; `Ahead` and `PbfAhead` that no path that still lies ahead has been
published, without which removing an old output (`Convert`) or copying over it
(`BeginCopy`) could spoil one of this job's own. `PipelineTypeCorrect` is a part
of it; `OutputsFinished` adds `Copying`, that only the path copied to holds what
a copy has written. `DoneMeansComplete`
adds `Behind`: the sources already passed are complete, and so are the formats
already passed of the source at hand. `PhasesAreNamed` adds `PhaseInv`: at each
place of the pipeline the index is the number of phases of the sources passed
plus those of this source that are behind the place (`Clock`), and what has been
timed is what lies before the index (`Credit`). The rest is arithmetic on the
flat list of phases: `RowAndColumn` finds the source and the step of an index
again, `StepsInOrder` the step of a source. Two theorems say what the reports are
worth, although neither figure is kept per export (`DroppedIsTold` and
`ReportDatesTheData` do not hold): `LastDropIsTold`, from `Told`, that
`errors` is the count of the source exported last; and `ReportsAreNotOlder`, from
`Dated`, that nothing was made of a build the source does not have yet.
`JobsRunOut`: a number of steps, computed from the sources and formats to come,
falls with every step of the job.

**Pool** (`PoolProofs`). `PoolInv == TypeOK /\ LineOK /\ WorkersOK`: a file that
is queued is in the line and one that is begun at a worker, no two places of the
line and no two workers hold one file, and nothing else is in either. From it
follow `PoolTypeCorrect` and, by counting, `NoneLostNoneTwice`. The disk takes a second
invariant. `Promised` is what the files on disk come to once each transfer under
way is complete; `DiskInv(M)` bounds it as long as no file is longer than `M`
chunks: whoever passes the check knows only what the others have written so far,
and each of them may write `M` chunks more. So all of them together leave the
buffer but for `(Cardinality(Workers) - 1) * M` chunks (`OverrunBounded`), and a
single worker leaves all of it (`OneWorkerKeepsTheBuffer`: `DiskNotFilled`, which
two workers break). The chunks on disk are a sum over the files; that it changes
by what one file changes is proved by taking the smallest set for which it did
not.

**Stores** (`StoresProofs`). `StoresInv == TypeOK /\ WholeOrNone(legacy) /\
PresetsInv /\ MemoryInv`. `PresetsInv`: whoever is busy holds the lock, and as
long as no write was cut short, what it is about to write is what the saved
changes come to, before or after its own; the file is whole unless it is open.
`MemoryInv` cannot say so much, since nothing keeps the writers of the other two
files apart. It follows a change that has run alone so far (`Alone`), of which
`Progress` says what it has written, and that one who has been overlapped is
recorded in `disturbed`. Its point is that such a change makes good whatever it
finds: it needs no assumption about the files. From these follow `TypeCorrect`,
`AcknowledgedChangesKept`, `LoneChangeSaved` and `ManifestStaysWhole`.

**Configuration** (`UserConfigProofs`). `ConfigInv == TypeOK /\ ConfirmInv /\
UnlockInv`. Every writer may overwrite every other with what it read long ago,
so the invariant speaks of all configurations in circulation: the one in the
file and those the threads and the startup are about to write. In each of them a
directory that needs no restart is the one mounted; and while no directory has been chosen since the container was made, a
mark in circulation is one its mount answers, which only a startup that could
not write lets stand. From it follow
`TypeCorrect`, `MountConfirmed` and `LaunchUnlocks`; `PageShowsTheLimits` and
`SlotsAlwaysFit` are arithmetic.

**Fan-out** (`FanoutProofs`). `IInv == TypeOK /\ version <= MaxVersion /\
Registration /\ DeadIsLost /\ NothingMissed`. `NothingMissed` alone is not
inductive: a broadcast that begins must find every connected page registered
(`Registration`), and one that ends must take no other page out, which holds
because it removes the dead only, and those are lost (`DeadIsLost`). What
`list.remove` leaves of a list is `RemoveFirstFacts`, and what a list of removals
leaves `WithoutFirstFacts`. `NothingIsMissed` and `TypeCorrect` are its parts;
`QuietPagesAreTold` is what a page gets from it: when every announced change has
been handed over and every broadcast has ended, each page that stayed was sent a
row no older than the last of them.

Two of these results need an induction over data (the sum in `Pool`, the list of
removals in `Fanout`). The library's induction theorems cannot be instantiated by
the provers at hand; instead the least counterexample, which exists since `<` on
the naturals is well founded (`WFMin`), is taken to a smaller one.

Only model-checked: what holds under fairness (`CheckEnds`, `CancelSettles`,
`Converges`, `CancelFreesWorker`, `AcceptedEnds`, `JobsEnd`, `EveryoneHears`),
which this prover cannot reason about. Every other property of a passing run is a
theorem.

## Disagreements between the code and what it says

Found while modelling. The first is a run that TLC ends with a counterexample;
the others are stated in the modules and can be reproduced by naming the
property, and nothing else, in a cfg with the bounds given.

| Property | What the code does | What it says |
|---|---|---|
| `DiscardSparesTransfers` (run `spare`) | `discard_partial` looks at the status under the lock and unlinks after releasing it; the `.part` of a transfer that is clicked in between is deleted | docstring, `download_manager.py:604` |
| `DroppedOnlyWhenGone` (`DownloadRows`; as `live`, 1 build, operations {"scan"}) | the row is dropped by the figures of a stat call made before; a transfer may have written since | comment, `download_manager.py:439` |
| `DiscardFindsItsRow` (as `concurrent`, scan and discard) | a scan may drop the row between the discard's two steps, whose answer is then a 404 | `download_manager.py:626` |
| `FailedCheckPinsNothing` (as `live`, 1 build, 1 move) | a check that fails writes back the local figures it read at its start; the row of a file deleted meanwhile stays | comment, `download_manager.py:542` |
| `UpToDateIsCurrent` (as `live`) | a transfer that ends says "up_to_date" beside remote figures of an older check | `download_manager.py:996` |
| `NoSplice` (`Transfer`; as `transfer`) | a byte that an open connection writes after the host has made a new build dates the `.part` after that build, and the next resume splices the two; the checksum then discards both | docstring, `download_manager.py:748` |
| `DateSurvivesCrash` (as `transfer`) | a process that dies between `os.replace` and `os.utime` leaves the date of the last write, which may be that of a newer build than the content and hides that update; `DateOfContent` says how far it can be ahead | comment, `download_manager.py:986` |
| `DateNeverAhead` (as `transfer`) | with an `.md5` that lags, an older build may be accepted and stamped with the date of a newer one, which hides the update | comment, `download_manager.py:986` |
| `AlwaysConverges` (as `transfer`) | a `.part` that matches no checksum, beside an `.md5` that names another build, is kept: each download asks for the bytes after its end, is answered 416 and fails the same way | message, `download_manager.py:1080`: "was kept; try again later" |
| `DiskNotFilled` (`Pool`; as `pool` with a disk of 3 chunks and a buffer of 1) | each worker compares the free space with its own needs once; together they fill the disk, by a bounded amount (`OverrunBounded`) | comment, `download_manager.py:879` |
| `CancelEnds` (as `pool`) | a cancelled download that has no worker yet stays "downloading" until it gets one, for as long as the others wait for their hosts | `download_manager.py:630` |
| `CancelledEndsInError` (`FilterJobs`; 1 job, cancel) | a cancel that finds no process is not seen by the coroutine, which ends the job as done | comment, `filter_manager.py:244` |
| `ClearKeepsTheUnfinished` (2 jobs, 1 slot, clear) | clearing the list drops queued jobs, which still run later | `filter_manager.py:453`, `tests/test_filter_lifecycle.py:4` |
| `NoJobIsStranded` (as `jobs_live`) | a `_persist_jobs` during which another job is created raises `RuntimeError`, which is not caught where `create_job` and `run_job` call it: the job stays "pending", "queued" or "running" with no coroutine until the next start | comment, `filter_manager.py:453`; docstring, `filter_manager.py:496` |
| `JobsAlwaysEnd` (as `jobs_live`) | `ogrinfo` and the tag reduction run under no limit and are not killed by a cancel; one that hangs holds its slot for good | comments, `filter_manager.py:63` and `filter_manager.py:1604` |
| `RunningIsListed` (2 jobs, 1 slot, cancel and clear) | `clear_completed_jobs` builds a new dictionary and then assigns it; a job created between the two is lost from the list | docstring, `filter_manager.py:512` |
| `EveryPhaseIsNamed` (`FilterPipeline`; as `outputs`) | a source without matches leaves its other export phases in the list; later work is shown and timed under their names | comment, `filter_manager.py:1024`; `CHANGELOG.md:347` |
| `FailureLeavesNothing` (as `outputs`) | across file systems `shutil.move` copies to the output path; a copy that fails leaves there what it has written, over or instead of an older result | comment, `filter_manager.py:769` |
| `ColumnsAreThere` (as `outputs`) | the exit code of `ogrinfo` is ignored; if it fails or is killed, an export is published without its attribute columns and the job is "done" | `docs/filtering.md:50` |
| `DoneHasOutputs` (as `outputs`) | a request with an empty `source_files` is accepted and its job ends as "done" with no files, since only a source that matches nothing counts | comment, `filter_manager.py:1033` |
| `DroppedIsTold` (as `outputs`) | the last export's count of dropped features is reported for every output of the job; it is right for the last source (`LastDroppedIsTold`) | `docs/limits.md:36` |
| `ReportDatesTheData` (as `outputs`) | the reports read the timestamp of the source when the job ends, not when it was filtered; it is never older than the data (`ReportIsNotOlder`) | `docs/filtering.md:90` |
| `ExportIgnoresPbf` (as `outputs`) | with PBF selected and a manual column selection, exports read the reduced PBF | comment, `filter_manager.py:846`; `docs/filtering.md:51` |
| `SnapshotIsAtomic` (`Stores`; as `stores`) | two calls of `_persist_jobs` share the temporary file: one replaces the manifest by a file the other has just emptied, and goes on writing to | docstring, `filter_manager.py:496` |
| `UrlsAreKept` (as `stores`) | `urls.json` is written outside the lock: an older copy may overwrite a newer one, and an iteration that meets a new name raises, after the row is "downloading" and before the transfer is submitted; one thread alone breaks it by a `register_and_start` that is refused, which has changed the mapping and returns before saving it | docstring, `download_manager.py:667` |
| `HostPathIsMount` (`UserConfig`; as `config`) | the memo is filled on first use, which may come after another directory was chosen | docstring, `host_paths.py:33` |
| `SignalIsReliable` (as `config`) | a request that is being served while `start.sh` reads the file can write back an older directory, or leave it empty to be read; the new container is then another one than the file says | comment, `main.py:43` |
| `ShownIsCurrent` (`Fanout`; as `fanout`) | a page is registered before its snapshot is taken; broadcasts sent meanwhile are overwritten by an older snapshot, and broadcasts overtake each other | comment, `ws_manager.py:16` |
| `EveryChangeIsSent` (as `fanout`) | a scan, and a check that finds no URL, change or create a row and broadcast nothing; a connected page keeps the old row until its next list or snapshot | docstring, `ws_manager.py:1` |
| `OverIsForgotten` (as `fanout`) | a page lost before its snapshot is sent stays registered until a broadcast to it fails | `main.py:155` |

Two more that no property states: an answer such as 503, which the fast loop
tries again, ends the transfer in the slow loop (`download_manager.py:965`); and
in `presets.py:91`, a save of renamed presets
that fails is taken for an empty list, and the next create replaces the file.

## Not modelled

- **Update check** (`update_check.py`): a cached answer that decides about one
  banner; nothing else depends on it.
- **Filter history** (`filter_history.py`): a list of durations for estimates,
  written in place by the coroutine of one job, as the files of `Stores` are.
- **The page**, except what it is told, **the text of reports, command lines,
  tag expressions, SQL and the column fold**: layout and text.
- **Directory browser, path translation, tag reducer**: stateless.
- **Launchers and images**, except what `start.sh` reads and mounts.
- **Two jobs on one output path**: `FilterPipeline` has one job. Nothing keeps
  two apart, and a model of both would only say so again.
- **Two hosts for one row** (`register_and_start` with another URL while a
  transfer is on): `DownloadRows` and `Transfer` have one URL per file.

Within the modules: progress figures and speed are left out; `osmium`,
`ogr2ogr`, the host, the connections and `asyncio.Semaphore` are external and
modelled from how the code uses them.

## Plan

1. Two jobs on one output path, if the code comes to keep them apart.
2. Two URLs for one row in `DownloadRows`: what a resume may append after
   `register_and_start` has replaced the URL.
3. `UpdateCheck`: a clock that moves backwards beside a cached answer.
4. The safety half of the other liveness properties, as `FilterJobsProofs` has it
   of `JobsEnd`: what is left of a check (`CheckEnds`), of a cancelled transfer
   (`CancelSettles`, `CancelFreesWorker`) and of a broadcast (`EveryoneHears`).
