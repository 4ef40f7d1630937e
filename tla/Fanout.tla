-------------------------------- MODULE Fanout --------------------------------
(***************************************************************************)
(* What the open pages are told (backend/ws_manager.py; ws_endpoint in     *)
(* backend/main.py; _broadcast in backend/download_manager.py; the         *)
(* messages handled by connectWs in frontend/index.html).                  *)
(*                                                                         *)
(* Threads change a row under the lock of the download manager. Some       *)
(* changes are announced: the thread copies the row, mostly when it has    *)
(* left the lock, and hands the copy to the event loop, which sends it to  *)
(* every registered connection. What a scan finds on the disk is not       *)
(* announced. A page that connects is registered first; then a thread      *)
(* takes a snapshot of all rows, which is sent when it is ready. The row   *)
(* is one version number here: a page shows what it was sent last. A copy  *)
(* that is made while the row changes counts as the row when it was begun. *)
(***************************************************************************)
EXTENDS Naturals, SequencesExt

CONSTANTS
    Threads,        \* threads that change rows: workers, checks, scans
    Clients,        \* connections; a page that comes back has another one
    MaxVersion      \* bound: changes of the row

ASSUME MaxVersionAssumption == MaxVersion \in Nat \ {0}

VARIABLES
    version,    \* the row as it is
    announced,  \* history: the newest change that is to be told to the pages
    due,        \* the change each thread has yet to copy the row for, 0 for none
    held,       \* the copy each thread has not yet handed over, 0 for none
    waiting,    \* rows handed to the event loop
    casts,      \* broadcasts that have begun
    active,     \* ConnectionManager._active
    link,       \* each connection as it is, whether the server knows or not
    stage,      \* how far ws_endpoint has come with it
    snapshot,   \* the row in the snapshot taken for it and not yet sent
    shown, best \* the row its page shows, and the newest it was ever sent; a page
                \* that is lost shows nothing

vars == <<version, announced, due, held, waiting, casts, active, link, stage, snapshot,
          shown, best>>

Later(v, w) == IF v < w THEN w ELSE v

Init ==
    /\ version = 1
    /\ announced = 1
    /\ due = [t \in Threads |-> 0]
    /\ held = [t \in Threads |-> 0]
    /\ waiting = <<>>
    /\ casts = {}
    /\ active = <<>>
    /\ link = [c \in Clients |-> "new"]
    /\ stage = [c \in Clients |-> "none"]
    /\ snapshot = [c \in Clients |-> 0]
    /\ shown = [c \in Clients |-> 0]
    /\ best = [c \in Clients |-> 0]

(***************************************************************************)
(* The threads.                                                            *)
(***************************************************************************)

Idle(t) == due[t] = 0 /\ held[t] = 0

\* A start changes the row and copies it in one critical section.
Start(t) ==
    /\ Idle(t)
    /\ version < MaxVersion
    /\ version' = version + 1
    /\ announced' = version'
    /\ held' = [held EXCEPT ![t] = version']
    /\ UNCHANGED <<due, waiting, casts, active, link, stage, snapshot, shown, best>>

\* A check, a discard and a worker change it and leave the lock.
Change(t) ==
    /\ Idle(t)
    /\ version < MaxVersion
    /\ version' = version + 1
    /\ announced' = version'
    /\ due' = [due EXCEPT ![t] = version']
    /\ UNCHANGED <<held, waiting, casts, active, link, stage, snapshot, shown, best>>

\* to_dict(), without the lock: what others have changed since is in it, too.
CopyRow(t) ==
    /\ due[t] # 0
    /\ held' = [held EXCEPT ![t] = version]
    /\ due' = [due EXCEPT ![t] = 0]
    /\ UNCHANGED <<version, announced, waiting, casts, active, link, stage, snapshot,
                   shown, best>>

\* A scan changes the row and tells nobody, and so does a check that finds no
\* URL to ask.
Scan ==
    /\ version < MaxVersion
    /\ version' = version + 1
    /\ UNCHANGED <<announced, due, held, waiting, casts, active, link, stage, snapshot,
                   shown, best>>

\* run_coroutine_threadsafe: another thread may come first.
Broadcast(t) ==
    /\ held[t] # 0
    /\ waiting' = Append(waiting, held[t])
    /\ held' = [held EXCEPT ![t] = 0]
    /\ UNCHANGED <<version, announced, due, casts, active, link, stage, snapshot,
                   shown, best>>

(***************************************************************************)
(* ConnectionManager.broadcast: the loop may turn to something else at     *)
(* every send.                                                             *)
(***************************************************************************)
BeginCast ==
    /\ waiting # <<>>
    /\ waiting' = Tail(waiting)
    /\ casts' = IF active = <<>> THEN casts
                ELSE casts \cup {[row |-> Head(waiting), left |-> active, dead |-> <<>>]}
    /\ UNCHANGED <<version, announced, due, held, active, link, stage, snapshot, shown,
                   best>>

Tell(c, row) ==
    /\ shown' = [shown EXCEPT ![c] = row]
    /\ best' = [best EXCEPT ![c] = Later(@, row)]

Proceed(cast, next) == casts' = (casts \ {cast}) \cup {next}

Send(cast) ==
    /\ cast.left # <<>>
    /\ link[Head(cast.left)] = "open"
    /\ Tell(Head(cast.left), cast.row)
    /\ Proceed(cast, [cast EXCEPT !.left = Tail(@)])
    /\ UNCHANGED <<version, announced, due, held, waiting, active, link, stage, snapshot>>

SendFails_Escapes(cast) ==
    /\ cast.left # <<>>
    /\ link[Head(cast.left)] = "lost"
    /\ Proceed(cast, [cast EXCEPT !.left = <<>>])
    /\ UNCHANGED <<version, announced, due, held, waiting, active, link, stage,
                   snapshot, shown, best>>

SendFails_SkipsTheNext(cast) ==
    /\ cast.left # <<>>
    /\ link[Head(cast.left)] = "lost"
    /\ active' = RemoveFirst(active, Head(cast.left))
    /\ Proceed(cast, [cast EXCEPT !.left = IF Len(@) > 1 THEN Tail(Tail(@)) ELSE <<>>])
    /\ UNCHANGED <<version, announced, due, held, waiting, link, stage, snapshot,
                   shown, best>>

SendFails(cast) ==
    /\ cast.left # <<>>
    /\ link[Head(cast.left)] = "lost"
    /\ Proceed(cast, [cast EXCEPT !.left = Tail(@), !.dead = Append(@, Head(cast.left))])
    /\ UNCHANGED <<version, announced, due, held, waiting, active, link, stage,
                   snapshot, shown, best>>

\* list.remove for each connection of dead in turn: the first that equals it.
WithoutFirst(s, dead) ==
    LET rest[n \in 0 .. Len(dead)] ==
            IF n = 0 THEN s ELSE RemoveFirst(rest[n - 1], dead[n])
    IN  rest[Len(dead)]

EndCast(cast) ==
    /\ cast.left = <<>>
    /\ active' = WithoutFirst(active, cast.dead)
    /\ casts' = casts \ {cast}
    /\ UNCHANGED <<version, announced, due, held, waiting, link, stage, snapshot,
                   shown, best>>

(***************************************************************************)
(* ws_endpoint.                                                            *)
(***************************************************************************)
Connect(c) ==
    /\ link[c] = "new"
    /\ link' = [link EXCEPT ![c] = "open"]
    /\ stage' = [stage EXCEPT ![c] = "accepted"]
    /\ active' = Append(active, c)
    /\ UNCHANGED <<version, announced, due, held, waiting, casts, snapshot, shown, best>>

\* list_files, on a thread of the pool.
TakeSnapshot(c) ==
    /\ stage[c] = "accepted"
    /\ snapshot' = [snapshot EXCEPT ![c] = version]
    /\ stage' = [stage EXCEPT ![c] = "taken"]
    /\ UNCHANGED <<version, announced, due, held, waiting, casts, active, link, shown,
                   best>>

SendSnapshot(c) ==
    /\ stage[c] = "taken"
    /\ link[c] = "open"
    /\ Tell(c, snapshot[c])
    /\ stage' = [stage EXCEPT ![c] = "served"]
    /\ snapshot' = [snapshot EXCEPT ![c] = 0]
    /\ UNCHANGED <<version, announced, due, held, waiting, casts, active, link>>

\* An exception before the try: the connection stays registered.
SnapshotFails(c) ==
    /\ stage[c] = "taken"
    /\ link[c] = "lost"
    /\ stage' = [stage EXCEPT ![c] = "over"]
    /\ snapshot' = [snapshot EXCEPT ![c] = 0]
    /\ UNCHANGED <<version, announced, due, held, waiting, casts, active, link, shown,
                   best>>

Disconnect(c) ==
    /\ stage[c] = "served"
    /\ link[c] = "lost"
    /\ stage' = [stage EXCEPT ![c] = "over"]
    /\ active' = RemoveFirst(active, c)
    /\ UNCHANGED <<version, announced, due, held, waiting, casts, link, snapshot,
                   shown, best>>

(***************************************************************************)
(* The connections (external). A page that stops reading holds up whoever  *)
(* sends to it until the server's ping is not answered in time.            *)
(***************************************************************************)
Lose(c) ==
    /\ link[c] \in {"open", "stalled"}
    /\ link' = [link EXCEPT ![c] = "lost"]
    /\ shown' = [shown EXCEPT ![c] = 0]
    /\ best' = [best EXCEPT ![c] = 0]
    /\ UNCHANGED <<version, announced, due, held, waiting, casts, active, stage,
                   snapshot>>

Stall(c) ==
    /\ link[c] = "open"
    /\ link' = [link EXCEPT ![c] = "stalled"]
    /\ UNCHANGED <<version, announced, due, held, waiting, casts, active, stage,
                   snapshot, shown, best>>

Cast == \E cast \in casts : Send(cast) \/ SendFails(cast) \/ EndCast(cast)
Endpoint(c) == TakeSnapshot(c) \/ SendSnapshot(c) \/ SnapshotFails(c) \/ Disconnect(c)

Next ==
    \/ \E t \in Threads : Start(t) \/ Change(t) \/ CopyRow(t) \/ Broadcast(t)
    \/ Scan
    \/ BeginCast \/ Cast
    \/ \E c \in Clients : Connect(c) \/ Endpoint(c) \/ Lose(c) \/ Stall(c)

Spec == Init /\ [][Next]_vars

FairSpec ==
    /\ Spec
    /\ \A t \in Threads : WF_vars(CopyRow(t) \/ Broadcast(t))
    /\ WF_vars(BeginCast) /\ WF_vars(Cast)
    /\ \A c \in Clients : WF_vars(Endpoint(c)) /\ WF_vars(link[c] = "stalled" /\ Lose(c))

(***************************************************************************)
(* Properties.                                                             *)
(***************************************************************************)
Versions == 1 .. MaxVersion
Casts == [row : Versions, left : Seq(Clients), dead : Seq(Clients)]

TypeOK ==
    /\ version \in Nat \ {0}
    /\ announced \in 1 .. version
    /\ due \in [Threads -> 0 .. version]
    /\ held \in [Threads -> 0 .. version]
    /\ waiting \in Seq(1 .. version)
    /\ \A cast \in casts : cast \in Casts /\ cast.row <= version
    /\ active \in Seq(Clients) /\ IsInjective(active)
    /\ link \in [Clients -> {"new", "open", "stalled", "lost"}]
    /\ stage \in [Clients -> {"none", "accepted", "taken", "served", "over"}]
    /\ snapshot \in [Clients -> 0 .. version]
    /\ shown \in [Clients -> 0 .. version]
    /\ best \in [Clients -> 0 .. version]

\* No announced change falls between the registration of a page, its snapshot
\* and the broadcasts: what a page has not been sent is still on its way to it,
\* whichever pages went away while it was being sent (ws_endpoint, broadcast).
OnItsWay(c, v) ==
    \/ \E t \in Threads : due[t] >= v \/ held[t] >= v
    \/ \E i \in DOMAIN waiting : waiting[i] >= v
    \/ \E cast \in casts : cast.row >= v /\ c \in Range(cast.left)
    \/ stage[c] = "accepted"
    \/ stage[c] = "taken" /\ snapshot[c] >= v
NothingMissed ==
    \A c \in Clients : link[c] \in {"open", "stalled"} =>
        best[c] >= announced \/ OnItsWay(c, announced)

\* A page that stays connected is sent the row as every announced change left it,
\* or as a later one did, although every broadcast waits for the pages before it:
\* one that is lost or has stopped reading holds the others up no longer than the
\* ping allows.
EveryoneHears ==
    \A c \in Clients : \A v \in Versions :
        link[c] = "open" /\ announced >= v ~> best[c] >= v \/ link[c] # "open"

(***************************************************************************)
(* Expected of the page, and not kept.                                     *)
(***************************************************************************)

Quiet == casts = {} /\ waiting = <<>> /\ \A t \in Threads : Idle(t)
Served(c) == link[c] = "open" /\ stage[c] = "served"

\* Once all is sent a page shows no older row than was announced.
ShownIsCurrent == Quiet => \A c \in Clients : Served(c) => shown[c] >= announced

\* A page that is connected is sent every change, those of a scan, too.
EveryChangeIsSent == Quiet => \A c \in Clients : Served(c) => best[c] = version

\* A connection that ended is not registered once its endpoint is over.
OverIsForgotten == \A c \in Clients : stage[c] = "over" => c \notin Range(active)

=============================================================================
