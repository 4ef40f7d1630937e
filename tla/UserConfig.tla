------------------------------ MODULE UserConfig ------------------------------
(***************************************************************************)
(* The user's settings: config/user-config.json, which start.sh reads to   *)
(* decide what directory the container mounts, three routes read, change   *)
(* and write back on threads of the request pool (backend/routes/          *)
(* settings.py), and the startup of the process changes once more          *)
(* (_clear_pending_restart in backend/main.py).                            *)
(*                                                                         *)
(* Nothing locks the file. It is written in place: opening it empties it,  *)
(* and whoever reads it then finds no configuration. A change of the data  *)
(* directory takes effect only when start.sh makes a new container; until  *)
(* then the page is locked (pending_restart). start.sh reads the file      *)
(* before it takes down the old container, which may still write to it.    *)
(***************************************************************************)
EXTENDS Limits

CONSTANTS
    Threads,        \* threads of the request pool
    Dirs,           \* directories the user may choose
    NoDir,          \* the empty path, and no container
    DefaultDir,     \* ./data, which start.sh takes when no path is set
    Cpus,           \* processors of the machines the container may run on
    Overrides,      \* values the user may enter for threads and niceness
    MaxRequests     \* bound: changes the page asks for

ASSUME DirsAssumption == NoDir \notin Dirs \cup {DefaultDir} /\ DefaultDir \notin Dirs
ASSUME ThreadsAssumption == "startup" \notin Threads
ASSUME CpusAssumption == Cpus \subseteq Nat \ {0} /\ Overrides \subseteq Nat
ASSUME RequestsAssumption == MaxRequests \in Nat

VARIABLES
    file,       \* user-config.json
    cpu,        \* processors of the machine the container runs on
    server,     \* whether the process is down, starting or up
    mount,      \* HOST_DATA_DIR of the container, which is what /data is
    launch,     \* what a start.sh under way has read from the file
    hostPath,   \* what host_data_dir() has memoised
    pc, task,   \* where the startup and each thread stand; what it will write
    chosen,     \* history: a directory was chosen since start.sh made the container
    requests    \* what is left of the bound

vars == <<file, cpu, server, mount, launch, hostPath, pc, task, chosen, requests>>

Startup == "startup"
Writers == Threads \cup {Startup}

Paths == Dirs \cup {NoDir}
Configs == [configured : BOOLEAN, dir : Paths, pending : BOOLEAN,
            limits : [mode : Modes, threads : Overrides \cup {None}, nice : Overrides \cup {None}],
            update : BOOLEAN]
Default == [configured |-> FALSE, dir |-> NoDir, pending |-> FALSE,
            limits |-> [mode |-> "full", threads |-> None, nice |-> None],
            update |-> TRUE]

\* A file is whole, empty, or holds the remains of two writes over each other.
Whole(cfg) == [state |-> "whole", cfg |-> cfg]
Empty == [state |-> "empty", cfg |-> Default]
Torn == [state |-> "torn", cfg |-> Default]

\* _read_config: what does not parse is no configuration.
Read == file.cfg

\* A mount. History: whether nobody was changing the file while start.sh chose
\* it, and whether the startup failed to take back the mark of the restart.
NoMount == [dir |-> NoDir, undisturbed |-> FALSE, stuck |-> FALSE]

NotRead == "not read"

\* What start.sh has written on the first start, with the path of an old .env
\* or without one.
Init ==
    /\ \E dir \in Paths :
           file = Whole([Default EXCEPT !.configured = (dir # NoDir), !.dir = dir])
    /\ cpu \in Cpus
    /\ server = "down"
    /\ mount = NoMount
    /\ launch = NoMount
    /\ hostPath = NotRead
    /\ pc = [w \in Writers |-> "idle"]
    /\ task = [w \in Writers |-> Default]
    /\ chosen = FALSE
    /\ requests = MaxRequests

(***************************************************************************)
(* Writing the file, in place.                                             *)
(***************************************************************************)
AllIdle == \A w \in Writers : pc[w] = "idle"

Prepare(w, cfg) ==
    /\ pc' = [pc EXCEPT ![w] = "open"]
    /\ task' = [task EXCEPT ![w] = cfg]

OpenFile(w) ==
    /\ pc[w] = "open"
    /\ pc' = [pc EXCEPT ![w] = "write"]
    /\ file' = Empty
    /\ launch' = [launch EXCEPT !.undisturbed = FALSE]
    /\ UNCHANGED <<cpu, server, mount, hostPath, task, chosen, requests>>

\* Whoever writes over what another has written since may leave its tail.
WriteFile(w) ==
    /\ pc[w] = "write"
    /\ pc' = [pc EXCEPT ![w] = "idle"]
    /\ task' = [task EXCEPT ![w] = Default]
    /\ file' \in IF file \in {Empty, Whole(task[w])}
                 THEN {Whole(task[w])} ELSE {Whole(task[w]), Torn}
    /\ server' = IF w = Startup THEN "up" ELSE server
    /\ UNCHANGED <<cpu, mount, launch, hostPath, chosen, requests>>

\* The file cannot be opened, or not written after it was opened, which emptied
\* it. A request ends with an error; the startup logs one and goes on.
WriteFails(w) ==
    /\ pc[w] \in {"open", "write"}
    /\ pc' = [pc EXCEPT ![w] = "idle"]
    /\ task' = [task EXCEPT ![w] = Default]
    /\ file' \in IF pc[w] = "open" THEN {file} ELSE {file, Torn}
    /\ server' = IF w = Startup THEN "up" ELSE server
    /\ mount' = [mount EXCEPT !.stuck = @ \/ w = Startup]
    /\ UNCHANGED <<cpu, launch, hostPath, chosen, requests>>

(***************************************************************************)
(* The container.                                                          *)
(***************************************************************************)

\* start.sh reads the directory from the file, which it may do at any time.
LaunchRead ==
    /\ launch = NoMount
    /\ launch' = [dir |-> IF Read.dir = NoDir THEN DefaultDir ELSE Read.dir,
                  undisturbed |-> AllIdle, stuck |-> FALSE]
    /\ UNCHANGED <<file, cpu, server, mount, hostPath, pc, task, chosen, requests>>

\* docker compose down, whatever the threads are doing, and up: a new container.
LaunchUp ==
    /\ launch # NoMount
    /\ server' = "boot"
    /\ mount' = launch
    /\ launch' = NoMount
    /\ hostPath' = NotRead
    /\ pc' = [w \in Writers |-> "idle"]
    /\ task' = [w \in Writers |-> Default]
    /\ chosen' = FALSE
    /\ cpu' \in Cpus
    /\ UNCHANGED <<file, requests>>

\* The process ends, in the middle of whatever its threads are doing.
Stop ==
    /\ server # "down"
    /\ server' = "down"
    /\ pc' = [w \in Writers |-> "idle"]
    /\ task' = [w \in Writers |-> Default]
    /\ UNCHANGED <<file, cpu, mount, launch, hostPath, chosen, requests>>

\* Docker starts the same container again, with the environment it was made with.
Restart ==
    /\ server = "down"
    /\ mount # NoMount
    /\ server' = "boot"
    /\ mount' = [mount EXCEPT !.stuck = FALSE]
    /\ hostPath' = NotRead
    /\ UNCHANGED <<file, cpu, launch, pc, task, chosen, requests>>

(***************************************************************************)
(* _clear_pending_restart, before the first request is served.             *)
(***************************************************************************)
Mounted_Any(cfg) == TRUE
Mounted_Never(cfg) == cfg.dir = NoDir

\* The container is the one the change waited for.
Mounted(cfg) == cfg.dir = NoDir \/ mount.dir = cfg.dir

BootKeep ==
    /\ server = "boot"
    /\ pc[Startup] = "idle"
    /\ ~ (Read.pending /\ Mounted(Read))
    /\ server' = "up"
    /\ UNCHANGED <<file, cpu, mount, launch, hostPath, pc, task, chosen, requests>>

BootClear ==
    /\ server = "boot"
    /\ pc[Startup] = "idle"
    /\ Read.pending
    /\ Mounted(Read)
    /\ Prepare(Startup, [Read EXCEPT !.pending = FALSE])
    /\ UNCHANGED <<file, cpu, server, mount, launch, hostPath, chosen, requests>>

(***************************************************************************)
(* The requests.                                                           *)
(***************************************************************************)
Ask(t) ==
    /\ server = "up"
    /\ pc[t] = "idle"
    /\ requests > 0
    /\ requests' = requests - 1
    /\ UNCHANGED <<file, cpu, server, mount, launch, hostPath>>

PostSettings_Live(t, dir) ==
    /\ dir # NoDir
    /\ Ask(t)
    /\ Prepare(t, [Read EXCEPT !.dir = dir, !.configured = TRUE])
    /\ chosen' = TRUE

\* An empty path is refused.
PostSettings(t, dir) ==
    /\ dir # NoDir
    /\ Ask(t)
    /\ Prepare(t, [Read EXCEPT !.dir = dir, !.configured = TRUE, !.pending = TRUE])
    /\ chosen' = TRUE

\* So are a mode there is not, and overrides the machine does not have.
PostResourceLimits(t, limits) ==
    /\ Valid(limits, cpu)
    /\ Ask(t)
    /\ Prepare(t, [Read EXCEPT !.limits = limits])
    /\ UNCHANGED chosen

PostUpdateCheck(t, enabled) ==
    /\ Ask(t)
    /\ Prepare(t, [Read EXCEPT !.update = enabled])
    /\ UNCHANGED chosen

\* host_data_dir, the first time a path is shown to the user.
HostDataDir ==
    /\ server = "up"
    /\ hostPath = NotRead
    /\ hostPath' = Read.dir
    /\ UNCHANGED <<file, cpu, server, mount, launch, pc, task, chosen, requests>>

Asked == [mode : Modes \cup {"any other"}, threads : Overrides \cup {None},
          nice : Overrides \cup {None}]

Request(t) ==
    \/ \E dir \in Paths : PostSettings(t, dir)
    \/ \E limits \in Asked : PostResourceLimits(t, limits)
    \/ \E enabled \in BOOLEAN : PostUpdateCheck(t, enabled)

Next ==
    \/ LaunchRead \/ LaunchUp \/ Stop \/ Restart
    \/ BootKeep \/ BootClear
    \/ \E t \in Threads : Request(t)
    \/ \E w \in Writers : OpenFile(w) \/ WriteFile(w) \/ WriteFails(w)
    \/ HostDataDir

Spec == Init /\ [][Next]_vars

(***************************************************************************)
(* Properties.                                                             *)
(***************************************************************************)
Mounts == [dir : Paths \cup {DefaultDir}, undisturbed : BOOLEAN, stuck : BOOLEAN]

TypeOK ==
    /\ file \in [state : {"whole", "empty", "torn"}, cfg : Configs]
    /\ cpu \in Cpus
    /\ server \in {"down", "boot", "up"}
    /\ mount \in Mounts
    /\ launch \in Mounts
    /\ hostPath \in Paths \cup {NotRead}
    /\ pc \in [Writers -> {"idle", "open", "write"}]
    /\ task \in [Writers -> Configs]
    /\ chosen \in BOOLEAN
    /\ requests \in 0 .. MaxRequests

\* _is_configured, which lets the startup check the files, and for the page to
\* let the user in.
IsConfigured(cfg) == cfg.configured /\ ~ cfg.pending

\* A configuration that needs no restart names the directory that is mounted,
\* whatever requests, crashes and restarts have done to the file, unless it was
\* being changed while start.sh chose the mount (_clear_pending_restart).
MountIsConfirmed ==
    server = "up" /\ mount.undisturbed /\ IsConfigured(Read) => Read.dir = mount.dir

\* The container start.sh makes is not locked again until another directory is
\* chosen: the startup takes back the mark that asked for it, unless the file
\* cannot be written at this start.
UnlockedByLaunch ==
    server = "up" /\ mount.undisturbed /\ ~ mount.stuck /\ ~ chosen => ~ Read.pending

\* The threads and the niceness the page shows are those the next job gets, for
\* whatever the file has come to hold, on a smaller machine too
\* (_effective_limits, _resource_limits).
LimitsAgree == EffectiveLimits(Read.limits, cpu) = ResourceLimits(Read.limits, cpu)

(***************************************************************************)
(* Stated by the code, and not kept by it.                                 *)
(***************************************************************************)

\* The memoised path describes where files are (host_data_dir).
HostPathIsMount == hostPath \in {NotRead, NoDir, mount.dir}

\* HOST_DATA_DIR is a reliable signal (_clear_pending_restart).
SignalIsReliable == server = "up" /\ IsConfigured(Read) => Read.dir = mount.dir

=============================================================================
